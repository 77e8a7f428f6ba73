------------------------ MODULE UiReconciler_proofs ------------------------
(***************************************************************************)
(* Proofs about UiReconciler, for any layers, documents, hosts, mutations, *)
(* widgets, popovers and any number of failures: its invariants, and that  *)
(* it implements ShownDocument.                                            *)
(*                                                                         *)
(* In this order: the children of a panel and what closing popovers makes  *)
(* of them; the plan of a document; the invariant; one lemma per action    *)
(* (...Keeps); the theorems of the invariant; types (...Once); one lemma   *)
(* per action for the refinement (...Maps), and its theorem.               *)
(***************************************************************************)
EXTENDS UiReconciler, Sequencing_proofs, FiniteSetTheorems, TLAPS

(***************************************************************************)
(* What is in a panel: the screens of the document, in front of the        *)
(* popovers in the order they were opened.                                 *)
(***************************************************************************)
OnTop(children) ==
    \A i, j \in DOMAIN children : i < j =>
        \/ IsScreen(children[i])
        \/ ~IsScreen(children[j]) /\ children[i].id < children[j].id

Up(children) == {c.id : c \in {x \in ToSet(children) : ~IsScreen(x)}}

ScreenPlaces(children) == {n \in DOMAIN children : IsScreen(children[n])}

\* No screen hangs there twice.
Once(children) ==
    LET docs == Documented(children)
    IN  \A m, n \in DOMAIN docs : docs[m].id = docs[n].id => m = n

Ordered(locals) == \A i, j \in DOMAIN locals : i < j => locals[i].key < locals[j].key
Keys(locals) == {locals[n].key : n \in DOMAIN locals}

-----------------------------------------------------------------------------
(***************************************************************************)
(* Selections from sequences.                                              *)
(***************************************************************************)
LEMMA InSeq ==
    ASSUME NEW S, NEW s \in Seq(S)
    PROVE  /\ Len(s) \in Nat /\ DOMAIN s = 1 .. Len(s)
           /\ \A n \in 1 .. Len(s) : s[n] \in S
  OBVIOUS

LEMMA AsSeq ==
    ASSUME NEW S, NEW n \in Nat, NEW f, f \in [1 .. n -> S]
    PROVE  f \in Seq(S)
  OBVIOUS

LEMMA NoElements ==
    ASSUME NEW S, NEW s \in Seq(S), DOMAIN s = {}
    PROVE  s = <<>>
<1>1. Len(s) \in Nat /\ DOMAIN s = 1 .. Len(s)
  OBVIOUS
<1>2. 1 \notin 1 .. Len(s)
  BY <1>1
<1>3. Len(s) = 0
  BY <1>1, <1>2
<1> QED
  BY <1>3

LEMMA SelectionKeepsOrder ==
    ASSUME NEW T, NEW seq \in Seq(T), NEW places, places \subseteq DOMAIN seq
    PROVE  LET q == Selected(seq, places)
               N == Cardinality(places)
           IN  /\ N \in Nat /\ q \in Seq(T) /\ DOMAIN q = 1 .. N
               /\ \A n \in 1 .. N : /\ Nth(places, n) \in places
                                    /\ Nth(places, n) \in DOMAIN seq
                                    /\ q[n] = seq[Nth(places, n)]
               /\ \A i \in places : \E n \in 1 .. N : i = Nth(places, n) /\ q[n] = seq[i]
               /\ \A m, n \in 1 .. N : m < n => Nth(places, m) < Nth(places, n)
<1> DEFINE q == Selected(seq, places)
           N == Cardinality(places)
<1>1. /\ IsFiniteSet(places) /\ N \in Nat /\ q \in Seq(T) /\ Len(q) = N
      /\ \A n \in 1 .. N : Nth(places, n) \in places /\ q[n] = seq[Nth(places, n)]
  BY SelectedFacts
<1>2. places \subseteq Nat
  OBVIOUS
<1>3. /\ \A i \in places : Rank(places, i) \in 1 .. N /\ Nth(places, Rank(places, i)) = i
      /\ \A m, n \in 1 .. N : m < n <=> Nth(places, m) < Nth(places, n)
  BY <1>1, <1>2, NthFacts
<1>4. ASSUME NEW i \in places
      PROVE  \E n \in 1 .. N : i = Nth(places, n) /\ q[n] = seq[i]
  BY <1>1, <1>3
<1> QED
  BY <1>1, <1>3, <1>4

\* The first k places are selected as they are.
LEMMA NthOfInterval ==
    ASSUME NEW k \in Nat
    PROVE  /\ Cardinality(1 .. k) = k
           /\ \A n \in 1 .. k : Nth(1 .. k, n) = n
<1>1. IsFiniteSet(1 .. k) /\ Cardinality(1 .. k) = k
  BY FS_Interval
<1>2. ASSUME NEW n \in 1 .. k
      PROVE  Nth(1 .. k, n) = n
  <2>1. {j \in 1 .. k : j <= n} = 1 .. n
    OBVIOUS
  <2>2. Cardinality(1 .. n) = n
    BY FS_Interval
  <2>3. Rank(1 .. k, n) = n
    BY <2>1, <2>2 DEF Rank
  <2>4. 1 .. k \subseteq Nat
    OBVIOUS
  <2>5. \A i \in 1 .. k : Nth(1 .. k, Rank(1 .. k, i)) = i
    BY <1>1, <2>4, NthFacts
  <2> QED
    BY <2>3, <2>5
<1> QED
  BY <1>1, <1>2

LEMMA SelectedPrefix ==
    ASSUME NEW T, NEW seq \in Seq(T), NEW k \in 0 .. Len(seq)
    PROVE  Selected(seq, 1 .. k) = [n \in 1 .. k |-> seq[n]]
  BY NthOfInterval DEF Selected

-----------------------------------------------------------------------------
(***************************************************************************)
(* The children of a panel.                                                *)
(***************************************************************************)
LEMMA DocumentedFacts ==
    ASSUME NEW children \in Seq(Children)
    PROVE  LET docs == Documented(children)
           IN  /\ docs \in Seq(Children)
               /\ \A n \in DOMAIN docs : IsScreen(docs[n])
               /\ WidgetsIn(children) = {docs[n].id : n \in DOMAIN docs}
               /\ DOMAIN docs = 1 .. Len(docs)
<1> DEFINE places == ScreenPlaces(children)
           docs == Documented(children)
           N == Cardinality(places)
<1>1. docs = Selected(children, places)
  BY DEF Documented, ScreenPlaces
<1>2. places \subseteq DOMAIN children
  BY DEF ScreenPlaces
<1>3. /\ N \in Nat /\ docs \in Seq(Children) /\ DOMAIN docs = 1 .. N
      /\ \A n \in 1 .. N : Nth(places, n) \in places /\ docs[n] = children[Nth(places, n)]
      /\ \A i \in places : \E n \in 1 .. N : i = Nth(places, n) /\ docs[n] = children[i]
  BY <1>1, <1>2, SelectionKeepsOrder
<1> HIDE DEF docs, N
<1>4. \A n \in DOMAIN docs : IsScreen(docs[n])
  BY <1>3 DEF ScreenPlaces
<1>5. ASSUME NEW w \in WidgetsIn(children)
      PROVE  \E n \in DOMAIN docs : w = docs[n].id
  <2>1. PICK i \in DOMAIN children : IsScreen(children[i]) /\ w = children[i].id
    BY DEF WidgetsIn, ToSet
  <2>2. i \in places
    BY <2>1 DEF ScreenPlaces
  <2> QED
    BY <1>3, <2>1, <2>2
<1>6. ASSUME NEW n \in DOMAIN docs
      PROVE  docs[n].id \in WidgetsIn(children)
  <2>1. PICK i \in places : docs[n] = children[i]
    BY <1>3
  <2>2. i \in DOMAIN children /\ IsScreen(children[i])
    BY <2>1 DEF ScreenPlaces
  <2> QED
    BY <2>1, <2>2 DEF WidgetsIn, ToSet
<1>7. WidgetsIn(children) = {docs[n].id : n \in DOMAIN docs}
  BY <1>5, <1>6
<1>8. DOMAIN docs = 1 .. Len(docs)
  BY <1>3
<1> QED
  BY <1>3, <1>4, <1>7, <1>8 DEF docs

LEMMA EmptyPanel ==
    /\ <<>> \in Seq(Children) /\ OnTop(<<>>) /\ Documented(<<>>) = <<>>
    /\ WidgetsIn(<<>>) = {} /\ Up(<<>>) = {}
<1>1. DOMAIN <<>> = {}
  OBVIOUS
<1>2. ScreenPlaces(<<>>) = 1 .. 0
  BY DEF ScreenPlaces
<1>3. <<>> \in Seq(Children) /\ 0 \in 0 .. Len(<<>>)
  OBVIOUS
<1>4. Selected(<<>>, 1 .. 0) = [n \in 1 .. 0 |-> <<>>[n]]
  BY ONLY <1>3, SelectedPrefix
<1>5. [n \in 1 .. 0 |-> <<>>[n]] = <<>>
  OBVIOUS
<1>6. Documented(<<>>) = <<>>
  BY <1>2, <1>4, <1>5 DEF Documented, ScreenPlaces
<1> QED
  BY <1>6 DEF OnTop, WidgetsIn, Up, ToSet

LEMMA LocalsTyped ==
    /\ \A e \in Locals : e.key \in Nat /\ e.key \in 1 .. MaxPopovers /\ e.owner \in Widgets
    /\ \A w \in Widgets : Screen(w) \in Children /\ IsScreen(Screen(w)) /\ Screen(w).id = w
    /\ \A k \in 1 .. MaxPopovers : Popover(k) \in Children /\ ~IsScreen(Popover(k)) /\ Popover(k).id = k
<1>1. MaxPopovers \in Nat /\ WidgetCount \in Nat
  BY UiReconcilerAssumption
<1>2. \A k \in 1 .. MaxPopovers : k \in Nat
  BY <1>1
<1>3. \A w \in Widgets : w \in Nat
  BY <1>1 DEF Widgets
<1> QED
  BY <1>2, <1>3 DEF Locals, Screen, Popover, IsScreen, Children

LEMMA ParticipantsFacts ==
    ASSUME NEW l, NEW docs \in Seq(Children), \A n \in DOMAIN docs : IsScreen(docs[n]),
           NEW locals \in Seq(Locals), Ordered(locals)
    PROVE  LET parts == Participants(l, docs, locals)
           IN  /\ parts \in Seq(Children)
               /\ OnTop(parts)
               /\ Documented(parts) = docs
               /\ Up(parts) = IF l = OverlayLayer THEN Keys(locals) ELSE {}
<1> DEFINE pops == IF l = OverlayLayer
                   THEN [n \in DOMAIN locals |-> Popover(locals[n].key)] ELSE <<>>
           parts == docs \o pops
           k == Len(docs)
<1>1. Participants(l, docs, locals) = parts
  BY DEF Participants
<1> DEFINE row == [n \in DOMAIN locals |-> Popover(locals[n].key)]
<1>a. \A n \in DOMAIN locals :
         /\ Popover(locals[n].key) \in Children
         /\ ~IsScreen(Popover(locals[n].key)) /\ Popover(locals[n].key).id = locals[n].key
  BY LocalsTyped
<1>b. /\ row \in Seq(Children) /\ DOMAIN row = DOMAIN locals
      /\ \A n \in DOMAIN row : ~IsScreen(row[n]) /\ row[n].id = locals[n].key
  BY <1>a
<1>2. /\ pops \in Seq(Children)
      /\ \A n \in DOMAIN pops : ~IsScreen(pops[n]) /\ l = OverlayLayer /\ n \in DOMAIN locals
                                /\ pops[n].id = locals[n].key
  BY <1>b
<1>3. \A i, j \in DOMAIN pops : i < j => pops[i].id < pops[j].id
  BY <1>2 DEF Ordered
<1>4. Up(pops) = IF l = OverlayLayer THEN Keys(locals) ELSE {}
  <2>1. CASE l = OverlayLayer
    <3>1. pops = row
      BY <2>1
    <3>2. Up(row) = {row[n].id : n \in DOMAIN row}
      BY <1>b DEF Up, ToSet
    <3>3. {row[n].id : n \in DOMAIN row} = Keys(locals)
      BY <1>b DEF Keys
    <3> QED
      BY <2>1, <3>1, <3>2, <3>3
  <2>2. CASE l # OverlayLayer
    BY <2>2 DEF Up, ToSet
  <2> QED
    BY <2>1, <2>2
<1> HIDE DEF pops
<1>5. /\ parts \in Seq(Children) /\ Len(parts) = k + Len(pops) /\ k \in Nat /\ Len(pops) \in Nat
      /\ DOMAIN parts = 1 .. k + Len(pops)
      /\ \A i \in 1 .. k : parts[i] = docs[i]
      /\ \A i \in DOMAIN parts : i > k => i - k \in DOMAIN pops /\ parts[i] = pops[i - k]
      /\ \A i \in DOMAIN pops : i + k \in DOMAIN parts /\ parts[i + k] = pops[i]
  BY <1>2
<1> HIDE DEF parts
<1>6. \A i \in DOMAIN parts : IsScreen(parts[i]) <=> i <= k
  BY <1>2, <1>5
<1>7. OnTop(parts)
  <2> SUFFICES ASSUME NEW i \in DOMAIN parts, NEW j \in DOMAIN parts, i < j, ~IsScreen(parts[i])
               PROVE  ~IsScreen(parts[j]) /\ parts[i].id < parts[j].id
    BY DEF OnTop
  <2>1. i > k /\ j > k
    BY <1>5, <1>6
  <2>2. i - k \in DOMAIN pops /\ j - k \in DOMAIN pops /\ i - k < j - k
    BY <1>5, <2>1
  <2>3. pops[i - k].id < pops[j - k].id
    BY <1>3, <2>2
  <2> QED
    BY <1>5, <1>6, <2>1, <2>3
<1>8. ScreenPlaces(parts) = 1 .. k
  BY <1>5, <1>6 DEF ScreenPlaces
<1>9. Documented(parts) = docs
  <2>1. k \in 0 .. Len(parts)
    BY <1>5
  <2>2. Selected(parts, 1 .. k) = [n \in 1 .. k |-> parts[n]]
    BY <1>5, <2>1, SelectedPrefix
  <2>3. [n \in 1 .. k |-> parts[n]] = docs
    BY <1>5
  <2> QED
    BY <1>8, <2>2, <2>3 DEF Documented, ScreenPlaces
<1>10. Up(parts) = Up(pops)
  <2>1. ASSUME NEW x \in Up(parts) PROVE x \in Up(pops)
    <3>1. PICK i \in DOMAIN parts : ~IsScreen(parts[i]) /\ x = parts[i].id
      BY DEF Up, ToSet
    <3>2. i - k \in DOMAIN pops /\ parts[i] = pops[i - k]
      BY <1>5, <1>6, <3>1
    <3> QED
      BY <3>1, <3>2 DEF Up, ToSet
  <2>2. ASSUME NEW x \in Up(pops) PROVE x \in Up(parts)
    <3>1. PICK i \in DOMAIN pops : ~IsScreen(pops[i]) /\ x = pops[i].id
      BY DEF Up, ToSet
    <3> QED
      BY <1>5, <3>1 DEF Up, ToSet
  <2> QED
    BY <2>1, <2>2
<1> QED
  BY <1>1, <1>4, <1>5, <1>7, <1>9, <1>10 DEF parts

LEMMA ParticipantsTyped ==
    ASSUME NEW l, NEW docs \in Seq(Children), NEW locals \in Seq(Locals)
    PROVE  Participants(l, docs, locals) \in Seq(Children)
<1>1. \A n \in DOMAIN locals : Popover(locals[n].key) \in Children
  BY LocalsTyped
<1>2. [n \in DOMAIN locals |-> Popover(locals[n].key)] \in Seq(Children)
  BY <1>1
<1> QED
  BY <1>2 DEF Participants

LEMMA WithoutFacts ==
    ASSUME NEW children \in Seq(Children), NEW n \in DOMAIN children, OnTop(children)
    PROVE  LET rest == Without(children, n)
           IN  rest \in Seq(Children) /\ OnTop(rest) /\ WidgetsIn(rest) \subseteq WidgetsIn(children)
<1> DEFINE rest == Without(children, n)
           places == DOMAIN children \ {n}
           N == Cardinality(places)
<1>1. rest = Selected(children, places) /\ places \subseteq DOMAIN children
  BY DEF Without
<1> HIDE DEF places, rest
<1>2. /\ rest \in Seq(Children) /\ DOMAIN rest = 1 .. N /\ N \in Nat
      /\ \A k \in 1 .. N : Nth(places, k) \in DOMAIN children /\ rest[k] = children[Nth(places, k)]
      /\ \A i, k \in 1 .. N : i < k => Nth(places, i) < Nth(places, k)
  BY <1>1, SelectionKeepsOrder
<1> HIDE DEF N
<1>3. OnTop(rest)
  BY <1>2 DEF OnTop
<1>4. WidgetsIn(rest) \subseteq WidgetsIn(children)
  BY <1>2 DEF WidgetsIn, ToSet
<1> QED
  BY <1>2, <1>3, <1>4 DEF rest

-----------------------------------------------------------------------------
(***************************************************************************)
(* Popovers that close.                                                    *)
(***************************************************************************)
ActiveIn(l, act) == {act[s] : s \in {x \in Slots : x[1] = l}} \ {NoWidget}

LEMMA KnownIsDocumented ==
    ASSUME NEW children \in Seq(Children), NEW act,
           WidgetsIn(children) \subseteq ActiveIn(OverlayLayer, act)
    PROVE  KnownChildren(children, act) = Documented(children)
<1>1. ASSUME NEW n \in DOMAIN children, IsScreen(children[n])
      PROVE  \E s \in Slots : s[1] = OverlayLayer /\ act[s] = children[n].id
  <2>1. children[n].id \in WidgetsIn(children)
    BY <1>1 DEF WidgetsIn, ToSet
  <2> QED
    BY <2>1 DEF ActiveIn
<1>2. {n \in DOMAIN children : /\ IsScreen(children[n])
                              /\ \E s \in Slots : s[1] = OverlayLayer /\ act[s] = children[n].id}
      = {n \in DOMAIN children : IsScreen(children[n])}
  BY <1>1
<1> QED
  BY <1>2 DEF KnownChildren, Documented

LEMMA OnceApart ==
    ASSUME NEW children \in Seq(Children), Once(children)
    PROVE  \A i, j \in DOMAIN children :
             IsScreen(children[i]) /\ IsScreen(children[j]) /\ children[i].id = children[j].id
                => i = j
<1> DEFINE docs == Documented(children)
           at == ScreenPlaces(children)
           M == Cardinality(at)
<1>1. docs = Selected(children, at) /\ at \subseteq DOMAIN children
  BY DEF Documented, ScreenPlaces
<1> HIDE DEF at
<1>2. LET q == Selected(children, at)
      IN  /\ DOMAIN q = 1 .. M
          /\ \A i \in at : \E k \in 1 .. M : i = Nth(at, k) /\ q[k] = children[i]
  BY <1>1, SelectionKeepsOrder
<1>3. /\ DOMAIN docs = 1 .. M
      /\ \A i \in at : \E k \in 1 .. M : i = Nth(at, k) /\ docs[k] = children[i]
  BY <1>1, <1>2
<1>4. \A k, m \in 1 .. M : docs[k].id = docs[m].id => k = m
  BY <1>3 DEF Once
<1> HIDE DEF docs, M
<1> SUFFICES ASSUME NEW i \in DOMAIN children, NEW j \in DOMAIN children,
                    IsScreen(children[i]), IsScreen(children[j]), children[i].id = children[j].id
             PROVE  i = j
  OBVIOUS
<1>5. i \in at /\ j \in at
  BY DEF at, ScreenPlaces
<1>6. PICK k \in 1 .. M : i = Nth(at, k) /\ docs[k] = children[i]
  BY <1>3, <1>5
<1>7. PICK m \in 1 .. M : j = Nth(at, m) /\ docs[m] = children[j]
  BY <1>3, <1>5
<1> QED
  BY <1>4, <1>6, <1>7

LEMMA KnownFacts ==
    ASSUME NEW children \in Seq(Children), NEW act
    PROVE  LET known == KnownChildren(children, act)
           IN  /\ known \in Seq(Children)
               /\ \A n \in DOMAIN known : IsScreen(known[n])
               /\ {known[n].id : n \in DOMAIN known} \subseteq WidgetsIn(children)
               /\ Once(children) =>
                    \A m, n \in DOMAIN known : known[m].id = known[n].id => m = n
<1> DEFINE known == KnownChildren(children, act)
           places == {n \in DOMAIN children :
                        /\ IsScreen(children[n])
                        /\ \E s \in Slots : s[1] = OverlayLayer /\ act[s] = children[n].id}
           N == Cardinality(places)
<1>1. known = Selected(children, places) /\ places \subseteq DOMAIN children
  BY DEF KnownChildren
<1>2. \A i \in places : IsScreen(children[i]) /\ children[i].id \in WidgetsIn(children)
  BY DEF WidgetsIn, ToSet
<1> HIDE DEF places, known
<1>3. /\ known \in Seq(Children) /\ DOMAIN known = 1 .. N
      /\ \A n \in 1 .. N : Nth(places, n) \in places /\ known[n] = children[Nth(places, n)]
      /\ \A m, n \in 1 .. N : m < n => Nth(places, m) < Nth(places, n)
      /\ N \in Nat
  BY <1>1, SelectionKeepsOrder
<1> HIDE DEF N
<1>4. ASSUME Once(children), NEW m \in 1 .. N, NEW n \in 1 .. N, known[m].id = known[n].id
      PROVE  m = n
  <2>1. Nth(places, m) = Nth(places, n)
    BY <1>1, <1>2, <1>3, <1>4, OnceApart
  <2>2. Nth(places, m) \in Nat
    BY <1>1, <1>3
  <2>3. ~(m < n) /\ ~(n < m)
    BY <1>3, <2>1, <2>2
  <2> QED
    BY <1>3, <2>3
<1> QED
  BY <1>2, <1>3, <1>4 DEF known

LEMMA RestOfLocals ==
    ASSUME NEW locals \in Seq(Locals), NEW key
    PROVE  LET rest == Selected(locals, {n \in DOMAIN locals : locals[n].key # key})
           IN  /\ rest \in Seq(Locals)
               /\ Ordered(locals) => Ordered(rest)
               /\ ToSet(rest) = {e \in ToSet(locals) : e.key # key}
               /\ Keys(rest) = Keys(locals) \ {key}
<1> DEFINE places == {n \in DOMAIN locals : locals[n].key # key}
           rest == Selected(locals, places)
           N == Cardinality(places)
<1>1. \A n \in DOMAIN locals : n \in places <=> locals[n].key # key
  OBVIOUS
<1>a. places \subseteq DOMAIN locals
  OBVIOUS
<1> HIDE DEF places
<1>3. /\ N \in Nat /\ rest \in Seq(Locals) /\ DOMAIN rest = 1 .. N
      /\ \A n \in 1 .. N : /\ Nth(places, n) \in places
                           /\ Nth(places, n) \in DOMAIN locals
                           /\ rest[n] = locals[Nth(places, n)]
      /\ \A i \in places : \E n \in 1 .. N : i = Nth(places, n) /\ rest[n] = locals[i]
      /\ \A m, n \in 1 .. N : m < n => Nth(places, m) < Nth(places, n)
  BY <1>a, SelectionKeepsOrder
<1> HIDE DEF rest, N
<1>2. /\ rest \in Seq(Locals) /\ DOMAIN rest = 1 .. N /\ N \in Nat
      /\ \A k \in 1 .. N : /\ Nth(places, k) \in places /\ Nth(places, k) \in DOMAIN locals
                           /\ rest[k] = locals[Nth(places, k)]
      /\ \A i \in places : \E k \in 1 .. N : rest[k] = locals[i]
      /\ \A i, k \in 1 .. N : i < k => Nth(places, i) < Nth(places, k)
  BY <1>3
<1>4. Ordered(locals) => Ordered(rest)
  <2> SUFFICES ASSUME Ordered(locals), NEW i \in DOMAIN rest, NEW k \in DOMAIN rest, i < k
               PROVE  rest[i].key < rest[k].key
    BY DEF Ordered
  <2>1. /\ Nth(places, i) < Nth(places, k) /\ Nth(places, i) \in DOMAIN locals
        /\ Nth(places, k) \in DOMAIN locals
    BY <1>2
  <2>2. locals[Nth(places, i)].key < locals[Nth(places, k)].key
    BY <2>1 DEF Ordered
  <2> QED
    BY <1>2, <2>2
<1>5. ToSet(rest) = {e \in ToSet(locals) : e.key # key}
  <2>1. ASSUME NEW e \in ToSet(rest) PROVE e \in ToSet(locals) /\ e.key # key
    <3>1. PICK k \in 1 .. N : e = rest[k]
      BY <1>2 DEF ToSet
    <3> QED
      BY <1>1, <1>2, <3>1 DEF ToSet
  <2>2. ASSUME NEW e \in ToSet(locals), e.key # key PROVE e \in ToSet(rest)
    <3>1. PICK i \in DOMAIN locals : e = locals[i]
      BY DEF ToSet
    <3>2. i \in places
      BY <1>1, <2>2, <3>1
    <3>3. PICK k \in 1 .. N : rest[k] = locals[i]
      BY <1>2, <3>2
    <3> QED
      BY <1>2, <3>1, <3>3 DEF ToSet
  <2> QED
    BY <2>1, <2>2
<1>6. \A x \in {locals, rest} : Keys(x) = {e.key : e \in ToSet(x)}
  BY DEF Keys, ToSet
<1>7. Keys(rest) = Keys(locals) \ {key}
  BY <1>5, <1>6
<1> QED
  BY <1>2, <1>4, <1>5, <1>7 DEF rest, places

LEMMA DetachedTyped ==
    ASSUME NEW st \in OverlayStates, NEW key, NEW act, NEW ok
    PROVE  Detached(st, key, act, ok) \in OverlayStates
<1> DEFINE rest == Selected(st.locals, {n \in DOMAIN st.locals : st.locals[n].key # key})
           known == KnownChildren(st.children, act)
           parts == Participants(OverlayLayer, known, rest)
<1>1. st.locals \in Seq(Locals) /\ st.children \in Seq(Children)
  BY DEF OverlayStates
<1>2. rest \in Seq(Locals)
  BY <1>1, RestOfLocals
<1>3. known \in Seq(Children)
  <2> DEFINE places == {n \in DOMAIN st.children :
                          /\ IsScreen(st.children[n])
                          /\ \E s \in Slots : s[1] = OverlayLayer /\ act[s] = st.children[n].id}
  <2>1. places \subseteq DOMAIN st.children
    OBVIOUS
  <2>2. Selected(st.children, places) \in Seq(Children)
    BY <1>1, <2>1, SelectionKeepsOrder
  <2> QED
    BY <2>2 DEF KnownChildren
<1> HIDE DEF rest, known
<1>4. parts \in Seq(Children)
  BY <1>2, <1>3, ParticipantsTyped
<1>5. Detached(st, key, act, ok) = [locals |-> rest,
                                    children |-> IF ok \/ parts = <<>> THEN parts ELSE st.children]
  BY DEF Detached, rest, known
<1> HIDE DEF parts
<1> QED
  BY <1>1, <1>2, <1>4, <1>5 DEF OverlayStates

(***************************************************************************)
(* The popovers of the overlay layer are above its screens.  A popover     *)
(* that closes leaves it so; it leaves the document as it was when its     *)
(* screens are all active, and every registered popover that was up.       *)
(***************************************************************************)
SoundOverlay(st) ==
    /\ st \in OverlayStates
    /\ OnTop(st.children) /\ Ordered(st.locals)

Keeps(st, after, ok) ==
    /\ WidgetsIn(after.children) \subseteq WidgetsIn(st.children)
    /\ WidgetsIn(st.children) \subseteq ActiveIn(OverlayLayer, active)
         => Documented(after.children) = Documented(st.children)
    /\ Keys(st.locals) \subseteq Up(st.children) => Keys(after.locals) \subseteq Up(after.children)
    /\ ok /\ Up(st.children) \subseteq Keys(st.locals) => Up(after.children) \subseteq Keys(after.locals)
    /\ Once(st.children) => Once(after.children)

LEMMA DetachedFacts ==
    ASSUME NEW st, SoundOverlay(st), NEW key, NEW ok \in BOOLEAN
    PROVE  LET after == Detached(st, key, active, ok)
           IN  /\ SoundOverlay(after)
               /\ Keeps(st, after, ok)
               /\ ToSet(after.locals) = {e \in ToSet(st.locals) : e.key # key}
<1> DEFINE rest == Selected(st.locals, {n \in DOMAIN st.locals : st.locals[n].key # key})
           known == KnownChildren(st.children, active)
           parts == Participants(OverlayLayer, known, rest)
           after == Detached(st, key, active, ok)
<1>1. st.locals \in Seq(Locals) /\ st.children \in Seq(Children)
      /\ Ordered(st.locals) /\ OnTop(st.children)
  BY DEF SoundOverlay, OverlayStates
<1>2. /\ rest \in Seq(Locals) /\ Ordered(rest)
      /\ ToSet(rest) = {e \in ToSet(st.locals) : e.key # key}
      /\ Keys(rest) = Keys(st.locals) \ {key}
  BY <1>1, RestOfLocals
<1>3. /\ known \in Seq(Children) /\ \A n \in DOMAIN known : IsScreen(known[n])
      /\ {known[n].id : n \in DOMAIN known} \subseteq WidgetsIn(st.children)
      /\ Once(st.children) => \A m, n \in DOMAIN known : known[m].id = known[n].id => m = n
  BY <1>1, KnownFacts
<1>4. WidgetsIn(st.children) \subseteq ActiveIn(OverlayLayer, active)
         => known = Documented(st.children)
  BY <1>1, KnownIsDocumented
<1>5. after = [locals |-> rest, children |-> IF ok \/ parts = <<>> THEN parts ELSE st.children]
  BY DEF Detached
<1> HIDE DEF rest, known
<1>6. /\ parts \in Seq(Children) /\ OnTop(parts) /\ Documented(parts) = known
      /\ Up(parts) = Keys(rest)
  BY <1>2, <1>3, ParticipantsFacts
<1>7. WidgetsIn(parts) \subseteq WidgetsIn(st.children)
  <2>1. WidgetsIn(parts) = {Documented(parts)[n].id : n \in DOMAIN Documented(parts)}
    BY <1>6, DocumentedFacts
  <2> QED
    BY <1>3, <1>6, <2>1
<1> HIDE DEF parts, after
<1>8. after.locals = rest /\ after.children \in {parts, st.children}
      /\ (ok => after.children = parts)
  BY <1>5
<1>9. after \in OverlayStates
  BY <1>1, <1>2, <1>5, <1>6 DEF OverlayStates
<1>10. SoundOverlay(after)
  BY <1>1, <1>2, <1>6, <1>8, <1>9 DEF SoundOverlay
<1>11. Keeps(st, after, ok)
  <2>1. /\ WidgetsIn(after.children) \subseteq WidgetsIn(st.children)
        /\ WidgetsIn(st.children) \subseteq ActiveIn(OverlayLayer, active)
             => Documented(after.children) = Documented(st.children)
    BY <1>4, <1>6, <1>7, <1>8
  <2>2. Once(st.children) => Once(after.children)
    BY <1>3, <1>6, <1>8 DEF Once
  <2> QED
    BY <1>2, <1>6, <1>8, <2>1, <2>2 DEF Keeps
<1> QED
  BY <1>2, <1>8, <1>10, <1>11 DEF after

LEMMA PopoversFacts ==
    ASSUME NEW owners, hostLocal \in Seq(Locals)
    PROVE  LET keys == PopoversOf(owners)
           IN  /\ keys \in Seq(1 .. MaxPopovers)
               /\ \A e \in ToSet(hostLocal) : e.owner \in owners => e.key \in ToSet(keys)
               /\ (\A e \in ToSet(hostLocal) : e.owner \notin owners) => keys = <<>>
<1> DEFINE places == {n \in DOMAIN hostLocal : hostLocal[n].owner \in owners}
           mine == Selected(hostLocal, places)
           keys == [n \in DOMAIN mine |-> mine[n].key]
           N == Cardinality(places)
<1>1. /\ places \subseteq DOMAIN hostLocal
      /\ \A n \in DOMAIN hostLocal : n \in places <=> hostLocal[n].owner \in owners
  OBVIOUS
<1>2. PopoversOf(owners) = keys
  BY DEF PopoversOf
<1> HIDE DEF places
<1>3. /\ mine \in Seq(Locals) /\ DOMAIN mine = 1 .. N /\ N \in Nat
      /\ \A k \in 1 .. N : Nth(places, k) \in places
      /\ \A i \in places : \E k \in 1 .. N : mine[k] = hostLocal[i]
  BY <1>1, SelectionKeepsOrder
<1> HIDE DEF mine, N
<1>4. \A n \in DOMAIN mine : mine[n].key \in 1 .. MaxPopovers
  <2>1. \A n \in DOMAIN mine : mine[n] \in Locals
    BY <1>3
  <2> QED
    BY <2>1 DEF Locals
<1>5. keys \in Seq(1 .. MaxPopovers)
  <2>1. keys \in [1 .. N -> 1 .. MaxPopovers]
    BY <1>3, <1>4
  <2>2. N \in Nat
    BY <1>3
  <2> HIDE DEF keys
  <2> QED
    BY <2>1, <2>2, AsSeq
<1>6. ASSUME NEW e \in ToSet(hostLocal), e.owner \in owners
      PROVE  e.key \in ToSet(keys)
  <2>1. PICK i \in DOMAIN hostLocal : e = hostLocal[i]
    BY DEF ToSet
  <2>2. PICK k \in 1 .. N : mine[k] = hostLocal[i]
    BY <1>1, <1>3, <1>6, <2>1
  <2> QED
    BY <1>3, <2>1, <2>2 DEF ToSet
<1>7. ASSUME \A e \in ToSet(hostLocal) : e.owner \notin owners
      PROVE  keys = <<>>
  <2>1. places = {}
    BY <1>1, <1>7 DEF ToSet
  <2>2. N = 0
    BY <1>3, <2>1
  <2> QED
    BY <1>3, <2>2
<1> QED
  BY <1>2, <1>5, <1>6, <1>7

LEMMA KeepsOn ==
    ASSUME NEW a, NEW b, NEW c, NEW ok \in BOOLEAN, NEW ok2 \in BOOLEAN, ok => ok2,
           Keeps(a, b, ok), Keeps(b, c, ok2)
    PROVE  Keeps(a, c, ok)
<1>1. WidgetsIn(c.children) \subseteq WidgetsIn(a.children)
  BY DEF Keeps
<1>2. ASSUME WidgetsIn(a.children) \subseteq ActiveIn(OverlayLayer, active)
      PROVE  Documented(c.children) = Documented(a.children)
  <2>1. WidgetsIn(b.children) \subseteq ActiveIn(OverlayLayer, active)
    BY <1>2 DEF Keeps
  <2> QED
    BY <1>2, <2>1 DEF Keeps
<1> QED
  BY <1>1, <1>2 DEF Keeps

LEMMA CloseAllFacts ==
    ASSUME hostLocal \in Seq(Locals), NEW st, SoundOverlay(st), NEW owners, NEW failing
    PROVE  LET after == CloseAll(st, owners, failing)
           IN  /\ SoundOverlay(after)
               /\ Keeps(st, after, failing = {})
               /\ ToSet(after.locals) \subseteq ToSet(st.locals)
               /\ \A e \in ToSet(after.locals) \cap ToSet(hostLocal) : e.owner \notin owners
               /\ (\A e \in ToSet(hostLocal) : e.owner \notin owners) => after = st
<1> DEFINE q == PopoversOf(owners)
           step == Close(failing)
           P == [i \in 0 .. Len(q) |-> {v \in OverlayStates :
                  /\ SoundOverlay(v)
                  /\ Keeps(st, v, failing = {})
                  /\ ToSet(v.locals) \subseteq ToSet(st.locals)
                  /\ \A j \in 1 .. i : \A e \in ToSet(v.locals) : e.key # q[j]}]
           after == CloseAll(st, owners, failing)
<1>1. /\ q \in Seq(1 .. MaxPopovers)
      /\ \A e \in ToSet(hostLocal) : e.owner \in owners => e.key \in ToSet(q)
      /\ (\A e \in ToSet(hostLocal) : e.owner \notin owners) => q = <<>>
  BY PopoversFacts
<1>2. after = Through(step, q, st)
  BY DEF CloseAll
<1> HIDE DEF q, after
<1>3. step \in [1 .. MaxPopovers -> [OverlayStates -> OverlayStates]]
  BY DetachedTyped DEF Close
<1>4. st \in OverlayStates
  BY DEF SoundOverlay
<1>5. st \in P[0]
  <2>1. Keeps(st, st, failing = {})
    BY DEF Keeps
  <2>2. 0 \in 0 .. Len(q)
    BY <1>1
  <2> QED
    BY <1>4, <2>1, <2>2
<1>6. ASSUME NEW i \in 1 .. Len(q), NEW v \in OverlayStates, v \in P[i - 1]
      PROVE  step[q[i]][v] \in P[i]
  <2> DEFINE w == Detached(v, q[i], active, q[i] \notin failing)
  <2>1. q[i] \in 1 .. MaxPopovers /\ i \in 0 .. Len(q) /\ i - 1 \in 0 .. Len(q)
    <3>1. Len(q) \in Nat /\ \A n \in 1 .. Len(q) : q[n] \in 1 .. MaxPopovers
      BY ONLY <1>1, InSeq
    <3> QED
      BY <3>1
  <2>2. step[q[i]][v] = w
    BY <2>1 DEF Close
  <2>3. /\ SoundOverlay(v) /\ Keeps(st, v, failing = {})
        /\ ToSet(v.locals) \subseteq ToSet(st.locals)
        /\ \A j \in 1 .. i - 1 : \A e \in ToSet(v.locals) : e.key # q[j]
    BY <1>6, <2>1
  <2>4. /\ SoundOverlay(w) /\ Keeps(v, w, q[i] \notin failing)
        /\ ToSet(w.locals) = {e \in ToSet(v.locals) : e.key # q[i]}
    <3> DEFINE key == q[i]
               ok == key \notin failing
    <3>1. ok \in BOOLEAN /\ w = Detached(v, key, active, ok)
      OBVIOUS
    <3> HIDE DEF key, ok, w
    <3>2. /\ SoundOverlay(w) /\ Keeps(v, w, ok)
          /\ ToSet(w.locals) = {e \in ToSet(v.locals) : e.key # key}
      BY <2>3, <3>1, DetachedFacts
    <3> QED
      BY <3>2 DEF key, ok
  <2> HIDE DEF w
  <2>5. Keeps(st, w, failing = {})
    BY <2>3, <2>4, KeepsOn
  <2>6. w \in OverlayStates
    BY <2>4 DEF SoundOverlay
  <2>7. \A j \in 1 .. i : \A e \in ToSet(w.locals) : e.key # q[j]
    BY <2>1, <2>3, <2>4
  <2>8. ToSet(w.locals) \subseteq ToSet(st.locals)
    BY <2>3, <2>4
  <2> QED
    BY <2>1, <2>2, <2>4, <2>5, <2>6, <2>7, <2>8
<1> HIDE DEF P, step
<1>7. after \in P[Len(q)]
  BY <1>1, <1>2, <1>3, <1>4, <1>5, <1>6, ThroughKeeps
<1>8. Len(q) \in 0 .. Len(q) /\ DOMAIN q = 1 .. Len(q)
  BY <1>1
<1>9. /\ SoundOverlay(after)
      /\ Keeps(st, after, failing = {})
      /\ ToSet(after.locals) \subseteq ToSet(st.locals)
      /\ \A j \in 1 .. Len(q) : \A e \in ToSet(after.locals) : e.key # q[j]
  BY <1>7, <1>8 DEF P
<1>10. \A e \in ToSet(after.locals) \cap ToSet(hostLocal) : e.owner \notin owners
  BY <1>1, <1>8, <1>9 DEF ToSet
<1>11. ASSUME \A e \in ToSet(hostLocal) : e.owner \notin owners
       PROVE  after = st
  <2>1. q = <<>>
    BY <1>1, <1>11
  <2>2. PICK f : OnTheWay(f, OverlayStates, step, q, st)
    BY <1>1, <1>3, <1>4, ThroughSteps
  <2> QED
    BY <1>2, <2>1, <2>2 DEF OnTheWay
<1> QED
  BY <1>9, <1>10, <1>11 DEF after

(***************************************************************************)
(* The recovery empties the layers; with the screens go their popovers.    *)
(***************************************************************************)
LEMMA ClearAllFacts ==
    ASSUME hostLocal \in Seq(Locals), SoundOverlay(Overlay),
           \A e \in ToSet(hostLocal) : \E l \in Layers : e.owner \in WidgetsIn(panel[l])
    PROVE  LET st == ClearAllLayers({})
           IN  /\ st.locals = <<>>
               /\ st.children \in Seq(Children) /\ OnTop(st.children)
               /\ WidgetsIn(st.children) = {}
<1> DEFINE step == ClearLayer({})
           N == Len(LayerOrder)
           P == [i \in 0 .. N |-> {v \in OverlayStates :
                  /\ SoundOverlay(v)
                  /\ ToSet(v.locals) \subseteq ToSet(hostLocal)
                  /\ \A j \in 1 .. i : /\ LayerOrder[j] = OverlayLayer => WidgetsIn(v.children) = {}
                                      /\ \A e \in ToSet(v.locals) :
                                            e.owner \notin WidgetsIn(panel[LayerOrder[j]])}]
           Emptied(v, l) == IF l = OverlayLayer THEN [v EXCEPT !.children = <<>>] ELSE v
           st == ClearAllLayers({})
<1>1. /\ LayerOrder \in Seq(Layers) /\ N \in Nat /\ DOMAIN LayerOrder = 1 .. N
      /\ Layers = {LayerOrder[j] : j \in 1 .. N} /\ OverlayLayer \in Layers
  BY UiReconcilerAssumption DEF Layers, ToSet
<1>2. st = Through(step, LayerOrder, Overlay)
  BY DEF ClearAllLayers
<1>3. ASSUME NEW l, NEW v, SoundOverlay(v)
      PROVE  /\ SoundOverlay(Emptied(v, l))
             /\ Emptied(v, l).locals = v.locals
             /\ WidgetsIn(Emptied(v, l).children) \subseteq WidgetsIn(v.children)
             /\ l = OverlayLayer => WidgetsIn(Emptied(v, l).children) = {}
  BY <1>3, EmptyPanel DEF SoundOverlay, OverlayStates
<1>4. ASSUME NEW l \in Layers, NEW v \in OverlayStates
      PROVE  CloseAll(Emptied(v, l), WidgetsIn(panel[l]), {}) \in OverlayStates
  <2>1. Close({}) \in [1 .. MaxPopovers -> [OverlayStates -> OverlayStates]]
    BY DetachedTyped DEF Close
  <2>2. Emptied(v, l) \in OverlayStates
    BY EmptyPanel DEF OverlayStates
  <2>3. PopoversOf(WidgetsIn(panel[l])) \in Seq(1 .. MaxPopovers)
    BY PopoversFacts
  <2> HIDE DEF Emptied
  <2>4. PICK f : OnTheWay(f, OverlayStates, Close({}), PopoversOf(WidgetsIn(panel[l])), Emptied(v, l))
    BY <2>1, <2>2, <2>3, ThroughSteps
  <2>5. Len(PopoversOf(WidgetsIn(panel[l]))) \in 0 .. Len(PopoversOf(WidgetsIn(panel[l])))
    BY <2>3
  <2> QED
    BY <2>4, <2>5 DEF OnTheWay, CloseAll
<1>5. step \in [Layers -> [OverlayStates -> OverlayStates]]
  BY <1>4 DEF ClearLayer
<1>6. \A l \in Layers : \A v \in OverlayStates :
         step[l][v] = CloseAll(Emptied(v, l), WidgetsIn(panel[l]), {})
  BY DEF ClearLayer
<1> HIDE DEF step, Emptied, st
<1>7. Overlay \in OverlayStates /\ Overlay.locals = hostLocal
  BY DEF SoundOverlay, Overlay
<1>8. Overlay \in P[0]
  BY <1>1, <1>7
<1>9. ASSUME NEW i \in 1 .. N, NEW v \in OverlayStates, v \in P[i - 1]
      PROVE  step[LayerOrder[i]][v] \in P[i]
  <2> DEFINE l == LayerOrder[i]
             u == Emptied(v, l)
             w == CloseAll(u, WidgetsIn(panel[l]), {})
  <2>1. l \in Layers /\ i \in 0 .. N /\ i - 1 \in 0 .. N
    BY <1>1
  <2>2. /\ SoundOverlay(v) /\ ToSet(v.locals) \subseteq ToSet(hostLocal)
        /\ \A j \in 1 .. i - 1 : /\ LayerOrder[j] = OverlayLayer => WidgetsIn(v.children) = {}
                                /\ \A e \in ToSet(v.locals) :
                                      e.owner \notin WidgetsIn(panel[LayerOrder[j]])
    BY <1>9, <2>1
  <2>3. /\ SoundOverlay(u) /\ u.locals = v.locals
        /\ WidgetsIn(u.children) \subseteq WidgetsIn(v.children)
        /\ l = OverlayLayer => WidgetsIn(u.children) = {}
    BY <1>3, <2>2
  <2> HIDE DEF u
  <2>4. /\ SoundOverlay(w) /\ Keeps(u, w, {} = {})
        /\ ToSet(w.locals) \subseteq ToSet(u.locals)
        /\ \A e \in ToSet(w.locals) \cap ToSet(hostLocal) : e.owner \notin WidgetsIn(panel[l])
    BY <2>3, CloseAllFacts
  <2> HIDE DEF w
  <2>5. w \in OverlayStates
    BY <2>4 DEF SoundOverlay
  <2>6. WidgetsIn(w.children) \subseteq WidgetsIn(u.children)
    BY <2>4 DEF Keeps
  <2>7. \A j \in 1 .. i : LayerOrder[j] = OverlayLayer => WidgetsIn(w.children) = {}
    <3> SUFFICES ASSUME NEW j \in 1 .. i, LayerOrder[j] = OverlayLayer
                 PROVE  WidgetsIn(w.children) = {}
      OBVIOUS
    <3>1. CASE j = i
      BY <2>3, <2>6, <3>1
    <3>2. CASE j \in 1 .. i - 1
      BY <2>2, <2>3, <2>6, <3>2
    <3> QED
      BY <3>1, <3>2
  <2>8. \A j \in 1 .. i : \A e \in ToSet(w.locals) : e.owner \notin WidgetsIn(panel[LayerOrder[j]])
    <3> SUFFICES ASSUME NEW j \in 1 .. i, NEW e \in ToSet(w.locals)
                 PROVE  e.owner \notin WidgetsIn(panel[LayerOrder[j]])
      OBVIOUS
    <3>1. e \in ToSet(v.locals) /\ e \in ToSet(hostLocal)
      BY <2>2, <2>3, <2>4
    <3>2. CASE j = i
      BY <2>4, <3>1, <3>2
    <3>3. CASE j \in 1 .. i - 1
      BY <2>2, <3>1, <3>3
    <3> QED
      BY <3>2, <3>3
  <2>9. ToSet(w.locals) \subseteq ToSet(hostLocal)
    BY <2>2, <2>3, <2>4
  <2>10. step[LayerOrder[i]][v] = w
    BY <1>6, <2>1 DEF w, u
  <2> QED
    BY <2>1, <2>4, <2>5, <2>7, <2>8, <2>9, <2>10
<1> HIDE DEF P
<1>10. st \in P[N]
  BY <1>1, <1>2, <1>5, <1>7, <1>8, <1>9, ThroughKeeps
<1>11. /\ SoundOverlay(st) /\ ToSet(st.locals) \subseteq ToSet(hostLocal)
       /\ \A j \in 1 .. N : /\ LayerOrder[j] = OverlayLayer => WidgetsIn(st.children) = {}
                            /\ \A e \in ToSet(st.locals) :
                                  e.owner \notin WidgetsIn(panel[LayerOrder[j]])
  BY <1>1, <1>10 DEF P
<1>12. WidgetsIn(st.children) = {}
  BY <1>1, <1>11
<1>13. ToSet(st.locals) = {}
  BY <1>1, <1>11
<1>14. st.locals = <<>> /\ st.children \in Seq(Children) /\ OnTop(st.children)
  <2>1. st.locals \in Seq(Locals) /\ st.children \in Seq(Children) /\ OnTop(st.children)
    BY <1>11 DEF SoundOverlay, OverlayStates
  <2>2. DOMAIN st.locals = {}
    BY <1>13 DEF ToSet
  <2>3. st.locals = <<>>
    BY <2>1, <2>2, NoElements
  <2> QED
    BY <2>1, <2>3
<1> QED
  BY <1>12, <1>14 DEF st

-----------------------------------------------------------------------------
(***************************************************************************)
(* The plan of a document.  A screen that rests holds, in every host and   *)
(* mutation, the value its committed snapshot has: Held.                   *)
(***************************************************************************)
V == Values \cup {Blank}
Held(prior) == [h \in Hosts |-> [shown |-> [m \in Mutations |-> prior[h]], snap |-> prior[h]]]
Entries == [inst : Instances, widget : Widgets, fresh : BOOLEAN, prior : [Hosts -> V]]

LEMMA Numbers ==
    /\ WidgetCount \in Nat /\ HostCount \in Nat /\ MutationCount \in Nat /\ MaxPopovers \in Nat
    /\ MaxFaults \in Nat
    /\ Widgets \subseteq Nat /\ IsFiniteSet(Widgets) /\ Cardinality(Widgets) = WidgetCount
    /\ NoWidget \notin Widgets /\ NoWidget = 0
    /\ IsFiniteSet(Hosts)
<1>1. /\ WidgetCount \in Nat /\ HostCount \in Nat /\ MutationCount \in Nat /\ MaxPopovers \in Nat
      /\ MaxFaults \in Nat
  BY UiReconcilerAssumption
<1>2. /\ IsFiniteSet(1 .. WidgetCount) /\ Cardinality(1 .. WidgetCount) = WidgetCount
      /\ IsFiniteSet(1 .. HostCount)
  BY <1>1, FS_Interval
<1> QED
  BY <1>1, <1>2 DEF Widgets, Hosts, NoWidget

LEMMA LayerFacts ==
    /\ LayerOrder \in Seq(Layers) /\ Len(LayerOrder) \in Nat /\ DOMAIN LayerOrder = 1 .. Len(LayerOrder)
    /\ Layers = {LayerOrder[j] : j \in 1 .. Len(LayerOrder)}
    /\ \A i, j \in 1 .. Len(LayerOrder) : LayerOrder[i] = LayerOrder[j] => i = j
    /\ OverlayLayer \in Layers /\ ModalLayer \in Layers /\ PopoverLayers \subseteq Layers
    /\ OverlayLayer \notin PopoverLayers
<1>1. /\ LayerOrder \in Seq(ToSet(LayerOrder)) /\ IsInjective(LayerOrder)
      /\ {OverlayLayer, ModalLayer} \cup PopoverLayers \subseteq ToSet(LayerOrder)
      /\ OverlayLayer \notin PopoverLayers
  BY UiReconcilerAssumption
<1>2. Len(LayerOrder) \in Nat /\ DOMAIN LayerOrder = 1 .. Len(LayerOrder)
  BY <1>1, InSeq
<1>3. \A i, j \in 1 .. Len(LayerOrder) : LayerOrder[i] = LayerOrder[j] => i = j
  BY <1>1, <1>2 DEF IsInjective
<1>4. Layers = {LayerOrder[j] : j \in 1 .. Len(LayerOrder)}
  BY <1>2 DEF Layers, ToSet
<1> QED
  BY <1>1, <1>2, <1>3, <1>4 DEF Layers

LEMMA DocFacts ==
    ASSUME NEW d \in Documents
    PROVE  /\ d \in Seq(Instances) /\ DOMAIN d = 1 .. Len(d) /\ Len(d) \in Nat
           /\ 2 * Len(d) <= WidgetCount
           /\ \A i \in DOMAIN d : /\ d[i] \in Instances
                                  /\ Slot(d[i]) \in Slots /\ Slot(d[i])[1] = d[i].layer
                                  /\ d[i].layer \in Layers
                                  /\ d[i].value \in Values
                                  /\ d[i].screen \in Screens
<1>1. /\ d \in Seq(ToSet(d)) /\ 2 * Len(d) <= WidgetCount
      /\ \A i \in DOMAIN d : d[i].layer \in ToSet(LayerOrder) /\ d[i].value \in Values
  BY DocumentAssumption
<1>2. Len(d) \in Nat /\ DOMAIN d = 1 .. Len(d)
  BY <1>1, InSeq
<1>3. \A i \in DOMAIN d : d[i] \in Instances
  BY DEF Instances, ToSet
<1>4. d \in Seq(Instances)
  BY <1>1, <1>2, <1>3
<1>5. \A i \in DOMAIN d : Slot(d[i]) \in Slots /\ Slot(d[i])[1] = d[i].layer /\ d[i].screen \in Screens
  BY <1>3 DEF Slots, Slot, Screens
<1> QED
  BY <1>1, <1>2, <1>3, <1>4, <1>5 DEF Layers

LEMMA SlotsInLayers == \A s \in Slots : s[1] \in Layers
<1> SUFFICES ASSUME NEW inst \in Instances PROVE Slot(inst)[1] \in Layers
  BY DEF Slots
<1>1. PICK d \in Documents : \E i \in DOMAIN d : inst = d[i]
  BY DEF Instances, ToSet
<1> QED
  BY <1>1, DocFacts

LEMMA EntryFacts ==
    ASSUME NEW plan \in Seq(Entries)
    PROVE  /\ Len(plan) \in Nat /\ DOMAIN plan = 1 .. Len(plan)
           /\ \A i \in DOMAIN plan : /\ plan[i].inst \in Instances
                                     /\ plan[i].widget \in Widgets
                                     /\ plan[i].prior \in [Hosts -> V]
                                     /\ plan[i].inst.value \in Values
                                     /\ plan[i].inst.layer \in Layers
                                     /\ Slot(plan[i].inst) \in Slots
                                     /\ Slot(plan[i].inst)[1] = plan[i].inst.layer
                                     /\ plan[i].inst.screen \in Screens
<1>1. Len(plan) \in Nat /\ DOMAIN plan = 1 .. Len(plan) /\ \A i \in 1 .. Len(plan) : plan[i] \in Entries
  BY InSeq
<1>2. \A inst \in Instances : /\ inst.value \in Values /\ inst.layer \in Layers
                              /\ Slot(inst) \in Slots /\ Slot(inst)[1] = inst.layer
                              /\ inst.screen \in Screens
  <2> SUFFICES ASSUME NEW inst \in Instances
               PROVE  /\ inst.value \in Values /\ inst.layer \in Layers
                      /\ Slot(inst) \in Slots /\ Slot(inst)[1] = inst.layer
                      /\ inst.screen \in Screens
    OBVIOUS
  <2>1. PICK d \in Documents : \E i \in DOMAIN d : inst = d[i]
    BY DEF Instances, ToSet
  <2> QED
    BY <2>1, DocFacts
<1>3. \A e \in Entries : e.inst \in Instances /\ e.widget \in Widgets /\ e.prior \in [Hosts -> V]
  BY DEF Entries
<1> QED
  BY <1>1, <1>2, <1>3

(***************************************************************************)
(* The widgets nobody holds are enough for one more document.              *)
(***************************************************************************)
LEMMA EnoughFree ==
    ASSUME NEW act \in [Slots -> Widgets \cup {NoWidget}], NEW children, NEW n \in Nat,
           \A l \in Layers : WidgetsIn(children[l]) \subseteq ActiveIn(l, act),
           2 * Cardinality({act[s] : s \in Slots} \ {NoWidget}) <= WidgetCount,
           2 * n <= WidgetCount,
           NEW free, free = FreeWidgets(act, children)
    PROVE  /\ free \subseteq Widgets /\ free \subseteq Nat /\ IsFiniteSet(free)
           /\ n <= Cardinality(free)
           /\ \A s \in Slots : act[s] \notin free
           /\ \A l \in Layers : \A w \in WidgetsIn(children[l]) : w \notin free
<1> DEFINE used == {act[s] : s \in Slots} \ {NoWidget}
           U == {act[s] : s \in Slots}
           P == UNION {WidgetsIn(children[l]) : l \in Layers}
<1>1. free = Widgets \ (U \cup P)
  BY DEF FreeWidgets
<1>2. \A s \in Slots : act[s] \in U
  OBVIOUS
<1>3. \A l \in Layers : ActiveIn(l, act) \subseteq used
  BY DEF ActiveIn
<1>4. P \subseteq used
  BY <1>3
<1>5. used \subseteq Widgets /\ used \subseteq U /\ U \subseteq used \cup {NoWidget}
  OBVIOUS
<1>6. free = Widgets \ used
  BY <1>1, <1>4, <1>5, Numbers
<1>7. \A l \in Layers : WidgetsIn(children[l]) \subseteq P
  OBVIOUS
<1>8. /\ IsFiniteSet(used) /\ IsFiniteSet(free)
      /\ Cardinality(used) \in Nat /\ Cardinality(free) \in Nat
  <2>1. IsFiniteSet(used) /\ IsFiniteSet(free)
    BY <1>5, <1>6, Numbers, FS_Subset
  <2> QED
    BY <2>1, FS_CardinalityType
<1>9. 2 * Cardinality(used) <= WidgetCount
  OBVIOUS
<1> HIDE DEF used, U, P
<1>10. used \cup free = Widgets /\ used \cap free = {}
  BY <1>5, <1>6
<1>11. Cardinality(Widgets) = Cardinality(used) + Cardinality(free) - Cardinality(used \cap free)
  BY <1>8, <1>10, FS_Union
<1>12. Cardinality(used \cap free) = 0
  BY <1>10, FS_EmptySet
<1>13. WidgetCount = Cardinality(used) + Cardinality(free)
  BY <1>8, <1>11, <1>12, Numbers
<1>14. n <= Cardinality(free)
  BY <1>8, <1>9, <1>13, Numbers
<1> QED
  BY <1>1, <1>2, <1>6, <1>7, <1>8, <1>14, Numbers

Injective(act) == \A s, t \in Slots : act[s] = act[t] => s = t \/ act[s] = NoWidget

LEMMA FreshAreDistinct ==
    ASSUME NEW N \in Nat, NEW S, S \subseteq 1 .. N, NEW free, free \subseteq Nat,
           IsFiniteSet(free), N <= Cardinality(free)
    PROVE  /\ \A i \in S : Nth(free, Rank(S, i)) \in free
           /\ \A i, k \in S : i # k =>
                Nth(free, Rank(S, i)) # Nth(free, Rank(S, k))
<1>1. IsFiniteSet(S) /\ Cardinality(S) \in Nat /\ Cardinality(S) <= N
  <2>1. IsFiniteSet(1 .. N) /\ Cardinality(1 .. N) = N
    BY FS_Interval
  <2>2. IsFiniteSet(S) /\ Cardinality(S) <= N
    BY <2>1, FS_Subset
  <2> QED
    BY <2>2, FS_CardinalityType
<1>2. S \subseteq Nat
  OBVIOUS
<1>3. /\ \A i \in S : Rank(S, i) \in 1 .. Cardinality(S)
      /\ \A i, j \in S : i < j => Rank(S, i) < Rank(S, j)
  BY <1>1, <1>2, RankFacts
<1>4. /\ Cardinality(free) \in Nat
      /\ \A n \in 1 .. Cardinality(free) : Nth(free, n) \in free
      /\ \A m, n \in 1 .. Cardinality(free) : m < n <=> Nth(free, m) < Nth(free, n)
  BY NthFacts
<1>5. \A i \in S : Rank(S, i) \in 1 .. Cardinality(free)
  BY <1>1, <1>3, <1>4
<1>7. ASSUME NEW i \in S, NEW k \in S, i # k
      PROVE  Nth(free, Rank(S, i)) # Nth(free, Rank(S, k))
  <2>1. i \in Nat /\ k \in Nat
    BY <1>2
  <2>2. i < k \/ k < i
    BY <1>7, <2>1
  <2>3. Rank(S, i) < Rank(S, k) \/ Rank(S, k) < Rank(S, i)
    BY <1>3, <2>2
  <2>4. /\ Nth(free, Rank(S, i)) \in Nat /\ Nth(free, Rank(S, k)) \in Nat
        /\ \/ Nth(free, Rank(S, i)) < Nth(free, Rank(S, k))
           \/ Nth(free, Rank(S, k)) < Nth(free, Rank(S, i))
    BY <1>4, <1>5, <2>3
  <2> QED
    BY <2>4
<1> QED
  BY <1>4, <1>5, <1>7

(***************************************************************************)
(* What a plan is: a widget of its own for every instance, the one of its  *)
(* slot or a free one.                                                     *)
(***************************************************************************)
IsPlan(plan, d, act, free) ==
    /\ plan \in Seq(Entries) /\ Len(plan) = Len(d) /\ DOMAIN plan = DOMAIN d
    /\ \A i \in DOMAIN d :
         /\ plan[i].inst = d[i]
         /\ Reuses(d[i], act) =>
              /\ plan[i].fresh = FALSE /\ plan[i].widget = act[Slot(d[i])]
              /\ plan[i].prior = [h \in Hosts |-> host[plan[i].widget][h].snap]
         /\ ~Reuses(d[i], act) =>
              /\ plan[i].fresh = TRUE /\ plan[i].widget \in free
              /\ plan[i].prior = [h \in Hosts |-> Blank]
    /\ \A i, j \in DOMAIN d : i # j => plan[i].widget # plan[j].widget
    /\ \A i \in DOMAIN d : \A s \in Slots : plan[i].widget = act[s] => s = Slot(d[i])

LEMMA PlanFacts ==
    ASSUME NEW d \in Documents, ~HasDuplicateSlot(d),
           NEW act \in [Slots -> Widgets \cup {NoWidget}], Injective(act),
           NEW free, free \subseteq Widgets, free \subseteq Nat, IsFiniteSet(free),
           Len(d) <= Cardinality(free),
           \A s \in Slots : act[s] \notin free,
           host \in [Widgets -> [Hosts -> HostStates]],
           NEW plan, plan = PlanFor(d, act, free)
    PROVE  IsPlan(plan, d, act, free)
<1> DEFINE N == Len(d)
           S == {j \in 1 .. N : ~Reuses(d[j], act)}
           W(i) == IF Reuses(d[i], act) THEN act[Slot(d[i])]
                   ELSE Nth(free, Rank(S, i))
           prior(i) == [h \in Hosts |-> IF Reuses(d[i], act) THEN host[W(i)][h].snap ELSE Blank]
<1>1. /\ N \in Nat /\ DOMAIN d = 1 .. N
      /\ \A i \in 1 .. N : d[i] \in Instances /\ Slot(d[i]) \in Slots
  BY DocFacts
<1>2. ASSUME NEW i \in 1 .. N
      PROVE  Cardinality({j \in 1 .. i : ~Reuses(d[j], act)}) = Rank(S, i)
  <2>1. {j \in 1 .. i : ~Reuses(d[j], act)} = {j \in S : j <= i}
    BY <1>1
  <2> QED
    BY <2>1 DEF Rank
<1>3. plan = [i \in 1 .. N |-> [inst |-> d[i], widget |-> W(i), fresh |-> ~Reuses(d[i], act),
                                prior |-> prior(i)]]
  BY <1>1, <1>2 DEF PlanFor
<1>4. /\ \A i \in S : Nth(free, Rank(S, i)) \in free
      /\ \A i, k \in S : i # k => Nth(free, Rank(S, i)) # Nth(free, Rank(S, k))
  <2>1. S \subseteq 1 .. N /\ N <= Cardinality(free) /\ N \in Nat
    BY <1>1
  <2>2. free \subseteq Nat /\ IsFiniteSet(free)
    OBVIOUS
  <2> HIDE DEF S, N
  <2> QED
    BY ONLY <2>1, <2>2, FreshAreDistinct
<1>5. \A i \in 1 .. N : i \in S <=> ~Reuses(d[i], act)
  OBVIOUS
<1>6. \A i \in 1 .. N :
        /\ Reuses(d[i], act) => W(i) = act[Slot(d[i])] /\ W(i) # NoWidget /\ W(i) \in Widgets
        /\ ~Reuses(d[i], act) => W(i) \in free /\ W(i) \in Widgets
  <2> SUFFICES ASSUME NEW i \in 1 .. N
               PROVE  /\ Reuses(d[i], act) => W(i) = act[Slot(d[i])] /\ W(i) # NoWidget /\ W(i) \in Widgets
                      /\ ~Reuses(d[i], act) => W(i) \in free /\ W(i) \in Widgets
    OBVIOUS
  <2>1. act[Slot(d[i])] \in Widgets \cup {NoWidget}
    BY <1>1
  <2>2. Reuses(d[i], act) => act[Slot(d[i])] # NoWidget
    BY DEF Reuses
  <2> QED
    BY <1>4, <1>5, <2>1, <2>2
<1>7. ASSUME NEW i \in 1 .. N, NEW k \in 1 .. N, i # k
      PROVE  W(i) # W(k)
  <2>1. CASE Reuses(d[i], act) /\ Reuses(d[k], act)
    <3>1. Slot(d[i]) # Slot(d[k])
      BY <1>1, <1>7 DEF HasDuplicateSlot
    <3> QED
      BY <1>1, <1>6, <2>1, <3>1 DEF Injective
  <2>2. CASE Reuses(d[i], act) /\ ~Reuses(d[k], act)
    BY <1>1, <1>6, <2>2
  <2>3. CASE ~Reuses(d[i], act) /\ Reuses(d[k], act)
    BY <1>1, <1>6, <2>3
  <2>4. CASE ~Reuses(d[i], act) /\ ~Reuses(d[k], act)
    BY <1>4, <1>5, <1>7, <2>4
  <2> QED
    BY <2>1, <2>2, <2>3, <2>4
<1>8. ASSUME NEW i \in 1 .. N, NEW s \in Slots, W(i) = act[s]
      PROVE  s = Slot(d[i])
  BY <1>1, <1>6, <1>8 DEF Injective
<1>9. ASSUME NEW i \in 1 .. N
      PROVE  /\ prior(i) \in [Hosts -> V]
             /\ Reuses(d[i], act) => prior(i) = [h \in Hosts |-> host[W(i)][h].snap]
             /\ ~Reuses(d[i], act) => prior(i) = [h \in Hosts |-> Blank]
  <2>1. W(i) \in Widgets
    BY <1>6
  <2> HIDE DEF W
  <2>2. \A h \in Hosts : host[W(i)][h].snap \in V
    BY <2>1 DEF HostStates, V
  <2>3. Blank \in V
    BY DEF V
  <2> QED
    BY <2>2, <2>3
<1>10. \A i \in 1 .. N : (~Reuses(d[i], act)) \in BOOLEAN
  BY DEF Reuses
<1> DEFINE R(i) == Reuses(d[i], act)
<1> HIDE DEF W, S, prior
<1>11. \A i \in 1 .. N : /\ plan[i].inst = d[i] /\ plan[i].widget = W(i)
                         /\ plan[i].fresh = ~Reuses(d[i], act) /\ plan[i].prior = prior(i)
                         /\ plan[i] = [inst |-> d[i], widget |-> W(i), fresh |-> ~Reuses(d[i], act),
                                       prior |-> prior(i)]
  BY <1>3
<1>12. \A i \in 1 .. N : plan[i] \in Entries
  <2> SUFFICES ASSUME NEW i \in 1 .. N PROVE plan[i] \in Entries
    OBVIOUS
  <2> DEFINE b == ~Reuses(d[i], act)
  <2>1. b \in BOOLEAN
    BY <1>10
  <2>2. plan[i] = [inst |-> d[i], widget |-> W(i), fresh |-> b, prior |-> prior(i)]
    BY <1>11
  <2> HIDE DEF b
  <2>3. d[i] \in Instances /\ W(i) \in Widgets /\ prior(i) \in [Hosts -> V]
    BY <1>1, <1>6, <1>9
  <2> QED
    BY <2>1, <2>2, <2>3 DEF Entries
<1>13. plan \in Seq(Entries) /\ Len(plan) = N /\ DOMAIN plan = 1 .. N
  <2>1. DOMAIN plan = 1 .. N /\ plan \in [1 .. N -> Entries]
    BY <1>3, <1>12
  <2> HIDE DEF N
  <2> QED
    BY <1>1, <2>1
<1>14. \A i \in 1 .. N :
         /\ Reuses(d[i], act) => W(i) = act[Slot(d[i])] /\ prior(i) = [h \in Hosts |-> host[W(i)][h].snap]
         /\ ~Reuses(d[i], act) => W(i) \in free /\ prior(i) = [h \in Hosts |-> Blank]
  BY <1>6, <1>9
<1>15. ASSUME NEW i \in 1 .. N
       PROVE  /\ Reuses(d[i], act) => plan[i].fresh = FALSE
              /\ ~Reuses(d[i], act) => plan[i].fresh = TRUE
  BY <1>11, Zenon
<1> HIDE DEF N
<1>16. /\ \A i, j \in 1 .. N : i # j => plan[i].widget # plan[j].widget
       /\ \A i \in 1 .. N : \A s \in Slots : plan[i].widget = act[s] => s = Slot(d[i])
  <2>1. \A i \in 1 .. N : plan[i].widget = W(i)
    BY <1>11
  <2>2. \A i, j \in 1 .. N : i # j => plan[i].widget # plan[j].widget
    BY <1>7, <2>1
  <2>3. ASSUME NEW i \in 1 .. N, NEW s \in Slots, plan[i].widget = act[s]
        PROVE  s = Slot(d[i])
    <3>1. W(i) = act[s]
      BY <2>1, <2>3
    <3> QED
      BY <1>8, <3>1
  <2> QED
    BY <2>2, <2>3
<1>17. \A i \in 1 .. N :
         /\ plan[i].inst = d[i]
         /\ Reuses(d[i], act) =>
              /\ plan[i].fresh = FALSE /\ plan[i].widget = act[Slot(d[i])]
              /\ plan[i].prior = [h \in Hosts |-> host[plan[i].widget][h].snap]
         /\ ~Reuses(d[i], act) =>
              /\ plan[i].fresh = TRUE /\ plan[i].widget \in free
              /\ plan[i].prior = [h \in Hosts |-> Blank]
  BY <1>11, <1>14, <1>15
<1> QED
  BY <1>1, <1>13, <1>16, <1>17 DEF IsPlan

-----------------------------------------------------------------------------
(***************************************************************************)
(* The invariant.  During a call the panels, the hosts and the books of    *)
(* ActiveScreens disagree; it says by how much.                            *)
(*                                                                         *)
(* Target is the document being applied, the last one in a recovery.       *)
(* Rebuilt are the layers that hold the plan's children already, and Old   *)
(* is what the panels held before the call.  Written are the entries of    *)
(* the plan whose fields are committed, and Resting is what the hosts of   *)
(* its screens go back to.  op.marker says that something could not be     *)
(* restored, after which only a recovery follows.                          *)
(***************************************************************************)
Target == IF op.recovering THEN lastDoc ELSE op.doc
RebuiltPlaces == CASE pc = "layers" -> 1 .. (op.i - 1)
                   [] pc = "undoLayers" -> 1 .. op.i
                   [] OTHER -> {}
Rebuilt == {LayerOrder[j] : j \in RebuiltPlaces}
Old == [l \in Layers |-> IF l \in Rebuilt THEN op.previous[l] ELSE panel[l]]
InPlan == {op.plan[j].widget : j \in DOMAIN op.plan}
Written == CASE pc = "commit" -> 1 .. (op.i - 1)
             [] pc \in {"layers", "undoLayers"} -> DOMAIN op.plan
             [] pc = "undoScreens" -> 1 .. op.i
             [] OTHER -> {}
EntryOf(w) == CHOOSE j \in DOMAIN op.plan : op.plan[j].widget = w
Resting == [w \in Widgets |-> IF w \in InPlan THEN Held(op.plan[EntryOf(w)].prior) ELSE host[w]]
Whole(w) == host[w] = Held([h \in Hosts |-> host[w][h].snap])
InUse == {active[s] : s \in Slots} \ {NoWidget}
Picture(children, hosts) ==
    LET docs == Documented(children) IN [n \in DOMAIN docs |-> Look(docs[n].id, hosts)]

Shaped(o) == o = [doc |-> o.doc, plan |-> o.plan, i |-> o.i, previous |-> o.previous,
                  marker |-> o.marker, recovering |-> o.recovering, dropped |-> o.dropped,
                  before |-> o.before]

\* The types, as far as the proofs need them.
Typed ==
    /\ panel \in [Layers -> Seq(Children)]
    /\ active \in [Slots -> Widgets \cup {NoWidget}]
    /\ screenOf \in [Widgets -> Screens \cup {Blank}]
    /\ host \in [Widgets -> [Hosts -> HostStates]]
    /\ widgetOn \in [Widgets -> BOOLEAN]
    /\ hostLocal \in Seq(Locals)
    /\ nextKey \in Nat \ {0}
    /\ lastDoc \in Documents \cup {NoDocument}
    /\ lastDoc # NoDocument => ~HasDuplicateSlot(lastDoc)
    /\ pc \in {"idle", "commit", "layers", "undoScreens", "undoLayers", "refused"}
    /\ faults \in Nat
    /\ Shaped(op) /\ op.plan \in Seq(Entries) /\ op.i \in Nat
    /\ op.previous \in [Layers -> Seq(Children)]
    /\ op.marker \in BOOLEAN /\ op.recovering \in BOOLEAN /\ op.dropped \in BOOLEAN
    /\ lost \subseteq Layers

\* The plan is one of its document, with a widget of its own for each entry.
PlanOK ==
    IF pc = "idle" THEN op = NoOp
    ELSE /\ op.doc \in Documents /\ Target \in Documents /\ ~HasDuplicateSlot(Target)
         /\ Len(op.plan) = Len(Target)
         /\ \A j \in DOMAIN op.plan : /\ op.plan[j].inst = Target[j]
                                      /\ screenOf[op.plan[j].widget] = op.plan[j].inst.screen
         /\ \A i, j \in DOMAIN op.plan : i # j => op.plan[i].widget # op.plan[j].widget
         /\ \A j \in DOMAIN op.plan : \A s \in Slots :
              op.plan[j].widget = active[s] => s = Slot(op.plan[j].inst)
         /\ pc = "commit" => op.i \in 1 .. (Len(op.plan) + 1)
         /\ pc = "undoScreens" => op.i \in 0 .. Len(op.plan)
         /\ pc = "layers" => op.i \in 1 .. (Len(LayerOrder) + 1)
         /\ pc = "undoLayers" => op.i \in 0 .. Len(LayerOrder)
         /\ pc \in {"commit", "layers"} => ~op.marker

\* No widget is in two slots, and there are widgets left for one more plan.
Books ==
    /\ Injective(active)
    /\ 2 * Cardinality(InUse) <= WidgetCount
    /\ op.recovering => InUse = {}

\* The panels before the call hold screens that ActiveScreens knows, and all
\* of them unless one was lost; a rebuilt panel holds the screens of the plan,
\* except that a popover of a layer rebuilt later may have cost the overlay
\* layer some.
Panels ==
    /\ \A l \in Layers : /\ OnTop(panel[l]) /\ OnTop(Old[l])
                         /\ WidgetsIn(Old[l]) \subseteq ActiveIn(l, active)
                         /\ ~op.marker /\ l \notin lost
                              => WidgetsIn(Old[l]) = ActiveIn(l, active)
    /\ \A l \in Rebuilt :
         /\ WidgetsIn(panel[l]) \subseteq WidgetsIn(PlanChildren(op.plan, l))
         /\ (l = OverlayLayer => pc = "layers" /\ ~op.dropped)
              => Documented(panel[l]) = PlanChildren(op.plan, l)
    /\ op.recovering => ~op.dropped

\* Whoever has a popover is on the screen, so clearing its layer closes it.
Owners ==
    /\ \A e \in ToSet(hostLocal) : /\ \E l \in PopoverLayers : e.owner \in WidgetsIn(panel[l])
                                   /\ e.key < nextKey
    /\ Ordered(hostLocal)

\* Registered popovers hang in the overlay layer, before the call unless one
\* was lost, and after the layer was rebuilt; as long as nothing failed, no
\* others.
Popovers ==
    /\ OverlayLayer \in Rebuilt => Keys(hostLocal) \subseteq Up(panel[OverlayLayer])
    /\ health # "failed" /\ ~op.marker /\ ~op.recovering /\ OverlayLayer \notin lost
          => Keys(hostLocal) \subseteq Up(Old[OverlayLayer])
    /\ faults = 0 => /\ Up(panel[OverlayLayer]) \subseteq Keys(hostLocal)
                     /\ pc \in {"idle", "commit", "layers"} /\ ~op.marker /\ ~op.recovering

\* The hosts of the plan hold the new values, or those they go back to, if
\* they are on the screen in a layer that lost nothing.
Fields ==
    ~op.marker =>
      /\ \A j \in Written : host[op.plan[j].widget] = Committed(op.plan[j])
      /\ \A j \in DOMAIN op.plan \ Written :
            op.plan[j].inst.layer \notin lost /\ op.plan[j].widget \in InUse
              => host[op.plan[j].widget] = Held(op.plan[j].prior)
      /\ \A l \in Layers \ lost : \A w \in ActiveIn(l, active) \ InPlan : Whole(w)

\* OnlyTopModalTakesInput of what was there before the call.
Input ==
    health # "failed" /\ ~op.marker /\ ~op.recovering /\ ModalLayer \notin lost =>
        LET modals == Documented(Old[ModalLayer])
        IN  /\ \A l \in Layers : layerOn[l] = (modals = <<>> \/ l = ModalLayer)
            /\ \A n \in DOMAIN modals : widgetOn[modals[n].id] = (n = Len(modals))

\* What is remembered of the screen is what undoing the call would show in
\* the layers that lost nothing.
Before ==
    pc # "idle" /\ ~op.marker /\ ~op.recovering =>
        \A l \in Layers \ lost : op.before[l] = Picture(Old[l], Resting)

IInv == Typed /\ PlanOK /\ Books /\ Panels /\ Owners /\ Popovers /\ Fields /\ Input /\ Before


-----------------------------------------------------------------------------
LEMMA OpMoves ==
    ASSUME Shaped(op), NEW i, NEW m, op' = [op EXCEPT !.i = i, !.marker = m]
    PROVE  /\ Shaped(op)' /\ op'.i = i /\ op'.marker = m
           /\ op'.doc = op.doc /\ op'.plan = op.plan /\ op'.previous = op.previous
           /\ op'.recovering = op.recovering /\ op'.dropped = op.dropped
           /\ op'.before = op.before
  BY DEF Shaped

LEMMA NoOpFacts ==
    /\ Shaped(NoOp) /\ NoOp.plan = <<>> /\ NoOp.i = 0 /\ NoOp.marker = FALSE /\ NoOp.recovering = FALSE
    /\ NoOp.doc = NoDocument /\ NoOp.previous = [l \in Layers |-> <<>>]
    /\ NoOp.dropped = FALSE
    /\ DOMAIN NoOp.plan = {}
  BY DEF Shaped, NoOp

LEMMA PlanChildrenFacts ==
    ASSUME NEW plan \in Seq(Entries), NEW l
    PROVE  LET q == PlanChildren(plan, l)
               mine == Planned(plan, l)
           IN  /\ q \in Seq(Children) /\ mine \in Seq(Entries)
               /\ DOMAIN q = DOMAIN mine /\ DOMAIN q = 1 .. Len(q) /\ Len(q) = Len(mine)
               /\ \A n \in DOMAIN q : /\ IsScreen(q[n]) /\ q[n].id = mine[n].widget
                                      /\ mine[n].inst.layer = l
                                      /\ \E j \in DOMAIN plan : mine[n] = plan[j]
               /\ \A j \in DOMAIN plan : plan[j].inst.layer = l => \E n \in DOMAIN q : mine[n] = plan[j]
<1> DEFINE places == {i \in DOMAIN plan : plan[i].inst.layer = l}
           mine == Planned(plan, l)
           N == Cardinality(places)
           q == PlanChildren(plan, l)
<1>1. places \subseteq DOMAIN plan /\ \A i \in DOMAIN plan : i \in places <=> plan[i].inst.layer = l
  OBVIOUS
<1>2. mine = Selected(plan, places)
  BY DEF Planned
<1> HIDE DEF places, mine
<1> DEFINE sel == Selected(plan, places)
<1>a. /\ N \in Nat /\ sel \in Seq(Entries) /\ DOMAIN sel = 1 .. N
      /\ \A n \in 1 .. N : Nth(places, n) \in places /\ sel[n] = plan[Nth(places, n)]
      /\ \A i \in places : \E n \in 1 .. N : sel[n] = plan[i]
  BY <1>1, SelectionKeepsOrder
<1>3. /\ N \in Nat /\ mine \in Seq(Entries) /\ DOMAIN mine = 1 .. N
      /\ \A n \in 1 .. N : Nth(places, n) \in places /\ mine[n] = plan[Nth(places, n)]
      /\ \A i \in places : \E n \in 1 .. N : mine[n] = plan[i]
  BY <1>2, <1>a
<1> HIDE DEF N
<1>4. \A n \in 1 .. N : mine[n].widget \in Widgets
  <2>1. \A n \in 1 .. N : mine[n] \in Entries
    BY <1>3
  <2> QED
    BY <2>1 DEF Entries
<1>5. q = [n \in 1 .. N |-> Screen(mine[n].widget)]
  BY <1>3 DEF PlanChildren, mine
<1>6. \A n \in 1 .. N : /\ Screen(mine[n].widget) \in Children
                        /\ IsScreen(Screen(mine[n].widget)) /\ Screen(mine[n].widget).id = mine[n].widget
  BY <1>4, LocalsTyped
<1>7. q \in Seq(Children) /\ Len(q) = N /\ DOMAIN q = 1 .. N /\ Len(mine) = N
  <2>1. N \in Nat /\ Len(mine) = N
    BY <1>3
  <2> HIDE DEF q
  <2>2. \A n \in 1 .. N : Screen(mine[n].widget) \in Children
    BY <1>6
  <2>3. DOMAIN q = 1 .. N /\ \A n \in 1 .. N : q[n] \in Children
    BY <1>5, <2>2
  <2>4. q \in Seq(Children) /\ Len(q) = N
    BY <1>5, <2>1, <2>2
  <2> QED
    BY <2>1, <2>3, <2>4
<1> HIDE DEF q
<1>8. \A n \in 1 .. N : /\ IsScreen(q[n]) /\ q[n].id = mine[n].widget
                        /\ mine[n].inst.layer = l
                        /\ \E j \in DOMAIN plan : mine[n] = plan[j]
  BY <1>1, <1>3, <1>5, <1>6
<1>9. \A j \in DOMAIN plan : plan[j].inst.layer = l => \E n \in 1 .. N : mine[n] = plan[j]
  BY <1>1, <1>3
<1> QED
  BY <1>3, <1>7, <1>8, <1>9 DEF q, mine

LEMMA PlanWidgets ==
    ASSUME NEW plan \in Seq(Entries), NEW l
    PROVE  WidgetsIn(PlanChildren(plan, l))
             = {plan[j].widget : j \in {i \in DOMAIN plan : plan[i].inst.layer = l}}
<1> DEFINE q == PlanChildren(plan, l)
           mine == Planned(plan, l)
<1>1. /\ DOMAIN q = DOMAIN mine
      /\ \A n \in DOMAIN q : /\ IsScreen(q[n]) /\ q[n].id = mine[n].widget
                             /\ mine[n].inst.layer = l
                             /\ \E j \in DOMAIN plan : mine[n] = plan[j]
      /\ \A j \in DOMAIN plan : plan[j].inst.layer = l => \E n \in DOMAIN q : mine[n] = plan[j]
  BY PlanChildrenFacts
<1> HIDE DEF q, mine
<1>2. WidgetsIn(q) = {q[n].id : n \in DOMAIN q}
  BY <1>1 DEF WidgetsIn, ToSet
<1>3. ASSUME NEW n \in DOMAIN q
      PROVE  \E j \in DOMAIN plan : plan[j].inst.layer = l /\ q[n].id = plan[j].widget
  <2>1. PICK j \in DOMAIN plan : mine[n] = plan[j]
    BY <1>1
  <2> QED
    BY <1>1, <2>1
<1>4. ASSUME NEW j \in DOMAIN plan, plan[j].inst.layer = l
      PROVE  \E n \in DOMAIN q : q[n].id = plan[j].widget
  <2>1. PICK n \in DOMAIN q : mine[n] = plan[j]
    BY <1>1, <1>4
  <2> QED
    BY <1>1, <2>1
<1> QED
  BY <1>2, <1>3, <1>4 DEF q

(***************************************************************************)
(* A widget hangs in one layer only.                                       *)
(***************************************************************************)
LEMMA InALayer ==
    ASSUME Typed, PlanOK, Books, Panels, NEW l \in Layers, NEW w \in WidgetsIn(panel[l])
    PROVE  /\ w \in Widgets
           /\ \/ l \notin Rebuilt /\ w \in ActiveIn(l, active)
              \/ l \in Rebuilt /\ \E j \in DOMAIN op.plan : w = op.plan[j].widget /\ op.plan[j].inst.layer = l
<1>1. CASE l \notin Rebuilt
  <2>1. Old[l] = panel[l]
    BY <1>1 DEF Old
  <2>2. w \in ActiveIn(l, active)
    BY <2>1 DEF Panels
  <2>3. w \in Widgets
    BY <2>2 DEF ActiveIn, Typed
  <2> QED
    BY <1>1, <2>2, <2>3
<1>2. CASE l \in Rebuilt
  <2>1. op.plan \in Seq(Entries) /\ w \in WidgetsIn(PlanChildren(op.plan, l))
    BY <1>2 DEF Typed, Panels
  <2>2. PICK j \in DOMAIN op.plan : w = op.plan[j].widget /\ op.plan[j].inst.layer = l
    BY <2>1, PlanWidgets
  <2>3. w \in Widgets
    BY <2>1, <2>2, EntryFacts
  <2> QED
    BY <1>2, <2>2, <2>3
<1> QED
  BY <1>1, <1>2

LEMMA IdleHasNoPlan ==
    ASSUME Typed, PlanOK, pc = "idle"
    PROVE  /\ op = NoOp /\ DOMAIN op.plan = {} /\ InPlan = {} /\ Rebuilt = {} /\ Written = {}
           /\ op.marker = FALSE /\ op.recovering = FALSE
           /\ Old = panel /\ Resting = host
<1>1. op = NoOp /\ DOMAIN op.plan = {} /\ op.marker = FALSE /\ op.recovering = FALSE
  BY NoOpFacts DEF PlanOK
<1>2. InPlan = {} /\ Rebuilt = {} /\ Written = {}
  BY <1>1 DEF InPlan, Rebuilt, RebuiltPlaces, Written
<1>3. Old = panel /\ Resting = host
  BY <1>2 DEF Old, Resting, Typed
<1> QED
  BY <1>1, <1>2, <1>3

LEMMA OneLayer ==
    ASSUME Typed, PlanOK, Books, Panels, NEW l \in Layers, NEW k \in Layers, l # k,
           NEW w \in WidgetsIn(panel[l])
    PROVE  w \notin WidgetsIn(panel[k])
<1> SUFFICES ASSUME w \in WidgetsIn(panel[k]) PROVE FALSE
  OBVIOUS
<1>1. \A x \in Layers : w \in ActiveIn(x, active) => \E s \in Slots : s[1] = x /\ w = active[s] /\ w # NoWidget
  BY DEF ActiveIn
<1>2. \A j \in DOMAIN op.plan : Slot(op.plan[j].inst)[1] = op.plan[j].inst.layer
  BY EntryFacts DEF Typed
<1>3. /\ \/ l \notin Rebuilt /\ w \in ActiveIn(l, active)
         \/ l \in Rebuilt /\ \E j \in DOMAIN op.plan : w = op.plan[j].widget /\ op.plan[j].inst.layer = l
      /\ \/ k \notin Rebuilt /\ w \in ActiveIn(k, active)
         \/ k \in Rebuilt /\ \E j \in DOMAIN op.plan : w = op.plan[j].widget /\ op.plan[j].inst.layer = k
  BY InALayer
<1>4. CASE pc = "idle"
  <2>1. Rebuilt = {}
    BY <1>4, IdleHasNoPlan
  <2> QED
    BY <1>1, <1>3, <2>1 DEF Books, Injective
<1>5. CASE pc # "idle"
  <2>1. /\ \A i, j \in DOMAIN op.plan : i # j => op.plan[i].widget # op.plan[j].widget
        /\ \A j \in DOMAIN op.plan : \A s \in Slots :
              op.plan[j].widget = active[s] => s = Slot(op.plan[j].inst)
    BY <1>5 DEF PlanOK
  <2>2. CASE w \in ActiveIn(l, active) /\ w \in ActiveIn(k, active)
    BY <1>1, <2>2 DEF Books, Injective
  <2>3. CASE w \in ActiveIn(l, active) /\ \E j \in DOMAIN op.plan : w = op.plan[j].widget /\ op.plan[j].inst.layer = k
    BY <1>1, <1>2, <2>1, <2>3
  <2>4. CASE w \in ActiveIn(k, active) /\ \E j \in DOMAIN op.plan : w = op.plan[j].widget /\ op.plan[j].inst.layer = l
    BY <1>1, <1>2, <2>1, <2>4
  <2>5. CASE /\ \E j \in DOMAIN op.plan : w = op.plan[j].widget /\ op.plan[j].inst.layer = l
             /\ \E j \in DOMAIN op.plan : w = op.plan[j].widget /\ op.plan[j].inst.layer = k
    BY <2>1, <2>5
  <2> QED
    BY <1>3, <2>2, <2>3, <2>4, <2>5
<1> QED
  BY <1>4, <1>5

LEMMA FilledFacts ==
    /\ \A v \in V : /\ Filled(v) \in [Hosts -> HostStates]
                    /\ Filled(v) = Held([h \in Hosts |-> v])
    /\ \A prior \in [Hosts -> V] :
         /\ Held(prior) \in [Hosts -> HostStates]
         /\ [h \in Hosts |-> Held(prior)[h].snap] = prior
    /\ Blank \in V /\ Values \subseteq V
  BY DEF Filled, Held, HostStates, V

\* The state of a session that shows nothing.
Fresh ==
    /\ panel = EmptyPicture
    /\ active = [s \in Slots |-> NoWidget]
    /\ screenOf = [w \in Widgets |-> Blank]
    /\ host = [w \in Widgets |-> Filled(Blank)]
    /\ layerOn = [l \in Layers |-> TRUE]
    /\ widgetOn = [w \in Widgets |-> TRUE]
    /\ hostLocal = <<>>
    /\ nextKey = 1
    /\ lastDoc = NoDocument
    /\ pc = "idle"
    /\ op = NoOp
    /\ lost = {}
    /\ faults \in Nat

LEMMA FreshInvariant == Fresh => IInv
<1> SUFFICES ASSUME Fresh PROVE IInv
  OBVIOUS
<1>1. Typed
  <2>1. EmptyPicture \in [Layers -> Seq(Children)]
    BY EmptyPanel DEF EmptyPicture
  <2>2. NoOp.previous \in [Layers -> Seq(Children)] /\ NoOp.plan \in Seq(Entries)
    BY <2>1, NoOpFacts DEF EmptyPicture
  <2>3. <<>> \in Seq(Locals)
    OBVIOUS
  <2>4. Filled(Blank) \in [Hosts -> HostStates]
    BY FilledFacts
  <2>5. /\ Shaped(op) /\ op.plan \in Seq(Entries) /\ op.i \in Nat
        /\ op.previous \in [Layers -> Seq(Children)]
        /\ op.marker \in BOOLEAN /\ op.recovering \in BOOLEAN /\ op.dropped \in BOOLEAN
    <3>1. op = NoOp
      BY DEF Fresh
    <3>2. Shaped(op)
      BY <3>1, NoOpFacts, Zenon
    <3>3. op.plan \in Seq(Entries) /\ op.previous \in [Layers -> Seq(Children)]
      BY <2>2, <3>1, Zenon
    <3>4. op.i = 0 /\ op.marker \in BOOLEAN /\ op.recovering \in BOOLEAN
          /\ op.dropped \in BOOLEAN
      BY <3>1, NoOpFacts, Zenon
    <3> QED
      BY <3>2, <3>3, <3>4
  <2>6. /\ panel \in [Layers -> Seq(Children)]
        /\ active \in [Slots -> Widgets \cup {NoWidget}]
        /\ screenOf \in [Widgets -> Screens \cup {Blank}]
        /\ host \in [Widgets -> [Hosts -> HostStates]]
        /\ widgetOn \in [Widgets -> BOOLEAN]
    BY <2>1, <2>4 DEF Fresh
  <2> QED
    BY <2>3, <2>5, <2>6 DEF Fresh, Typed
<1>2. PlanOK
  BY DEF Fresh, PlanOK
<1>3. op = NoOp /\ DOMAIN op.plan = {} /\ InPlan = {} /\ Rebuilt = {} /\ Old = panel
  BY <1>1, <1>2, IdleHasNoPlan DEF Fresh
<1>4. \A s \in Slots : active[s] = NoWidget
  BY DEF Fresh
<1>5. InUse = {}
  BY <1>4 DEF InUse
<1>6. Books
  <2>1. Cardinality({}) = 0
    BY FS_EmptySet
  <2> QED
    BY <1>4, <1>5, <2>1, Numbers DEF Books, Injective
<1>7. \A l \in Layers : ActiveIn(l, active) = {}
  BY <1>4 DEF ActiveIn
<1>8. \A l \in Layers : panel[l] = <<>>
  BY DEF Fresh, EmptyPicture
<1>9. Panels
  BY <1>3, <1>7, <1>8, EmptyPanel, NoOpFacts DEF Panels
<1>10. hostLocal = <<>> /\ ToSet(hostLocal) = {} /\ Keys(hostLocal) = {}
  BY DEF Fresh, ToSet, Keys
<1>11. Owners
  BY <1>10 DEF Owners, Ordered
<1>12. Popovers
  <2>1. Up(panel[OverlayLayer]) = {}
    BY <1>8, LayerFacts, EmptyPanel
  <2> QED
    BY <1>3, <1>10, <2>1, NoOpFacts DEF Popovers, Fresh
<1>13. Fields
  <2>1. Written = {}
    BY <1>1, <1>2, IdleHasNoPlan DEF Fresh
  <2> QED
    BY <1>3, <1>7, <2>1 DEF Fields
<1>14. Input
  <2>1. Documented(Old[ModalLayer]) = <<>>
    BY <1>3, <1>8, LayerFacts, EmptyPanel
  <2>2. \A l \in Layers : layerOn[l] = TRUE
    BY DEF Fresh
  <2>3. DOMAIN <<>> = {}
    OBVIOUS
  <2> QED
    BY <2>1, <2>2, <2>3, Zenon DEF Input
<1>15. Before
  BY DEF Before, Fresh
<1> QED
  BY <1>1, <1>2, <1>6, <1>9, <1>11, <1>12, <1>13, <1>14, <1>15 DEF IInv

LEMMA InitInvariant == Init => IInv
<1>1. Init => Fresh
  BY DEF Init, Fresh
<1> QED
  BY <1>1, FreshInvariant

(***************************************************************************)
(* The steps of a call that touch only the fields of the plan's screens.   *)
(***************************************************************************)
FieldsOnly ==
    /\ UNCHANGED <<panel, active, screenOf, layerOn, widgetOn, hostLocal, nextKey, lastDoc, health>>
    /\ pc # "idle" /\ pc' # "idle"
    /\ Rebuilt = {} /\ Rebuilt' = {}
    /\ op'.doc = op.doc /\ op'.plan = op.plan /\ op'.previous = op.previous
    /\ op'.recovering = op.recovering /\ op'.dropped = op.dropped /\ op'.before = op.before
    /\ op.marker => op'.marker
    /\ lost \subseteq lost'
    /\ \A w \in Widgets \ InPlan : host'[w] = host[w]

LEMMA FieldsOnlyKeeps ==
    ASSUME IInv, Typed', FieldsOnly,
           faults' = 0 => faults = 0 /\ pc' \in {"commit", "layers"} /\ ~op'.marker
    PROVE  Books' /\ Panels' /\ Owners' /\ Popovers' /\ Input' /\ Before'
<1>1. /\ panel' = panel /\ active' = active /\ screenOf' = screenOf /\ layerOn' = layerOn
      /\ widgetOn' = widgetOn /\ hostLocal' = hostLocal /\ nextKey' = nextKey
      /\ lastDoc' = lastDoc /\ health' = health
      /\ Rebuilt = {} /\ Rebuilt' = {}
      /\ op'.plan = op.plan /\ op'.recovering = op.recovering /\ op'.dropped = op.dropped
      /\ op'.before = op.before
      /\ op.marker => op'.marker
      /\ lost \subseteq lost'
  BY DEF FieldsOnly
<1>2. Old' = panel /\ Old = panel
  BY <1>1 DEF Old, IInv, Typed
<1>3. InUse' = InUse /\ InPlan' = InPlan
  BY <1>1 DEF InUse, InPlan
<1>4. Books'
  BY <1>1, <1>3 DEF Books, IInv, Injective
<1>5. Panels'
  <2>1. Panels
    BY DEF IInv
  <2> QED
    BY <1>1, <1>2, <2>1 DEF Panels
<1>6. Owners'
  <2>1. Owners
    BY DEF IInv
  <2> QED
    BY <1>1, <2>1 DEF Owners
<1>7. Popovers'
  <2>1. Popovers
    BY DEF IInv
  <2> QED
    BY <1>1, <1>2, <2>1 DEF Popovers
<1>8. Input'
  <2>1. Input
    BY DEF IInv
  <2> QED
    BY <1>1, <1>2, <2>1 DEF Input
<1>9. Resting' = Resting
  <2>1. \A w \in Widgets : w \notin InPlan => host'[w] = host[w]
    BY DEF FieldsOnly
  <2>2. \A w : EntryOf(w)' = EntryOf(w)
    BY <1>1 DEF EntryOf
  <2> QED
    BY <1>1, <1>3, <2>1, <2>2 DEF Resting
<1>11. Before'
  <2>1. Before /\ pc # "idle"
    BY DEF IInv, FieldsOnly
  <2>2. \A l \in Layers : Picture(Old[l], Resting)' = Picture(Old[l], Resting)
    BY <1>1, <1>2, <1>9 DEF Picture, Look
  <2> QED
    BY <1>1, <2>1, <2>2 DEF Before
<1> QED
  BY <1>4, <1>5, <1>6, <1>7, <1>8, <1>11

LEMMA OpSteps ==
    ASSUME Shaped(op), NEW i, op' = [op EXCEPT !.i = i]
    PROVE  /\ Shaped(op)' /\ op'.i = i /\ op'.marker = op.marker
           /\ op'.doc = op.doc /\ op'.plan = op.plan /\ op'.previous = op.previous
           /\ op'.recovering = op.recovering /\ op'.dropped = op.dropped
           /\ op'.before = op.before
  BY DEF Shaped

\* The call under way, at its entry number op.i.
LEMMA AtAnEntry ==
    ASSUME IInv, pc # "idle", op.i \in DOMAIN op.plan
    PROVE  LET p == op.plan[op.i]
           IN  /\ p.widget \in Widgets /\ p.prior \in [Hosts -> V] /\ p.inst.value \in V
               /\ p.widget \in InPlan
               /\ \A j \in DOMAIN op.plan : j # op.i => op.plan[j].widget # p.widget
               /\ Committed(p) \in [Hosts -> HostStates]
               /\ Held(p.prior) \in [Hosts -> HostStates]
               /\ host[p.widget] \in [Hosts -> HostStates]
<1> DEFINE p == op.plan[op.i]
<1>1. op.plan \in Seq(Entries)
  BY DEF IInv, Typed
<1>2. p.widget \in Widgets /\ p.prior \in [Hosts -> V] /\ p.inst.value \in Values
  BY <1>1, EntryFacts
<1>3. p.widget \in InPlan
  BY DEF InPlan
<1>4. \A j \in DOMAIN op.plan : j # op.i => op.plan[j].widget # p.widget
  BY DEF IInv, PlanOK
<1>5. Committed(p) \in [Hosts -> HostStates] /\ Held(p.prior) \in [Hosts -> HostStates]
  BY <1>2, FilledFacts DEF Committed
<1>6. host[p.widget] \in [Hosts -> HostStates]
  BY <1>2 DEF IInv, Typed
<1> QED
  BY <1>2, <1>3, <1>4, <1>5, <1>6, FilledFacts

(***************************************************************************)
(* A step that changes the fields of the screen at op.i, if any, and goes  *)
(* on to another entry.                                                    *)
(***************************************************************************)
\* What is written are entries of the plan.
LEMMA WrittenAre ==
    ASSUME Typed', PlanOK'
    PROVE  Written' \subseteq DOMAIN op'.plan
<1>1. DOMAIN op'.plan = 1 .. Len(op'.plan) /\ Len(op'.plan) \in Nat
  BY EntryFacts DEF Typed
<1> QED
  BY <1>1 DEF Written, PlanOK

LEMMA FieldStep ==
    ASSUME IInv, pc \in {"commit", "undoScreens"},
           pc' \in {"commit", "undoScreens", "layers", "refused"},
           UNCHANGED <<panel, active, screenOf, layerOn, widgetOn, hostLocal, nextKey, lastDoc, health>>,
           Shaped(op)', op'.doc = op.doc, op'.plan = op.plan, op'.previous = op.previous,
           op'.recovering = op.recovering, op'.dropped = op.dropped, op'.before = op.before,
           lost \subseteq lost', lost' \subseteq Layers,
           op'.i \in Nat, op'.marker \in BOOLEAN, op.marker => op'.marker,
           pc' = "commit" => op'.i \in 1 .. (Len(op.plan) + 1),
           pc' = "undoScreens" => op'.i \in 0 .. Len(op.plan),
           pc' = "layers" => op'.i = 1,
           pc' \in {"commit", "layers"} => ~op'.marker,
           faults' \in Nat,
           faults' = 0 => faults = 0 /\ pc' \in {"commit", "layers"} /\ ~op'.marker,
           NEW new \in [Hosts -> HostStates],
           \/ host' = host /\ Written' = Written
           \/ /\ op.i \in DOMAIN op.plan
              /\ host' = [host EXCEPT ![op.plan[op.i].widget] = new]
              /\ ~op'.marker =>
                   /\ Written' \cup {op.i} = Written \cup {op.i}
                   /\ op.i \in Written' => new = Committed(op.plan[op.i])
                   /\ op.plan[op.i].inst.layer \notin lost' /\ op.plan[op.i].widget \in InUse
                        => \/ op.i \in Written'
                           \/ new = Held(op.plan[op.i].prior)
    PROVE  IInv'
<1>1. /\ Typed /\ PlanOK /\ Fields
  BY DEF IInv
<1>2. pc # "idle" /\ pc' # "idle" /\ RebuiltPlaces = {} /\ RebuiltPlaces' = {}
  <2>1. CASE pc' = "layers"
    <3>1. 1 .. (1 - 1) = {}
      OBVIOUS
    <3> QED
      BY <2>1, <3>1 DEF RebuiltPlaces
  <2>2. CASE pc' # "layers"
    BY <2>2 DEF RebuiltPlaces
  <2> QED
    BY <2>1, <2>2 DEF RebuiltPlaces
<1>3. Rebuilt = {} /\ Rebuilt' = {}
  BY <1>2 DEF Rebuilt
<1>4. host' \in [Widgets -> [Hosts -> HostStates]]
  <2>1. CASE host' = host
    BY <1>1, <2>1 DEF Typed
  <2>2. CASE /\ op.i \in DOMAIN op.plan
             /\ host' = [host EXCEPT ![op.plan[op.i].widget] = new]
    BY <1>1, <2>2 DEF Typed
  <2> QED
    BY <2>1, <2>2
<1>5. \A w \in Widgets \ InPlan : host'[w] = host[w]
  <2>1. op.i \in DOMAIN op.plan => op.plan[op.i].widget \in InPlan
    BY DEF InPlan
  <2> QED
    BY <1>1, <2>1 DEF Typed
<1>6. Typed'
  BY <1>1, <1>4 DEF Typed
<1>7. FieldsOnly
  BY <1>2, <1>3, <1>5 DEF FieldsOnly
<1>8. Books' /\ Panels' /\ Owners' /\ Popovers' /\ Input' /\ Before'
  BY <1>6, <1>7, FieldsOnlyKeeps
<1>9. PlanOK'
  <2>1. Target' = Target
    BY DEF Target
  <2>2. Len(LayerOrder) \in Nat
    BY LayerFacts
  <2> QED
    BY <1>1, <1>2, <2>1, <2>2 DEF PlanOK
<1>10. InUse' = InUse /\ InPlan' = InPlan
  BY DEF InUse, InPlan
<1>11. Fields'
  <2> SUFFICES ASSUME ~op'.marker
               PROVE  /\ \A j \in Written' : host'[op.plan[j].widget] = Committed(op.plan[j])
                      /\ \A j \in DOMAIN op.plan \ Written' :
                            op.plan[j].inst.layer \notin lost' /\ op.plan[j].widget \in InUse
                              => host'[op.plan[j].widget] = Held(op.plan[j].prior)
                      /\ \A l \in Layers \ lost' : \A w \in ActiveIn(l, active) \ InPlan : Whole(w)'
    BY <1>10 DEF Fields, Committed
  <2>1. /\ \A j \in Written : host[op.plan[j].widget] = Committed(op.plan[j])
        /\ \A j \in DOMAIN op.plan \ Written :
              op.plan[j].inst.layer \notin lost /\ op.plan[j].widget \in InUse
                => host[op.plan[j].widget] = Held(op.plan[j].prior)
        /\ \A l \in Layers \ lost : \A w \in ActiveIn(l, active) \ InPlan : Whole(w)
    BY <1>1 DEF Fields
  <2>2. ASSUME NEW l \in Layers \ lost', NEW w \in ActiveIn(l, active) \ InPlan
        PROVE  Whole(w)'
    <3>1. w \in Widgets /\ l \in Layers \ lost
      BY <1>1 DEF ActiveIn, Typed
    <3>2. host'[w] = host[w]
      BY <1>5, <3>1
    <3> QED
      BY <2>1, <3>1, <3>2 DEF Whole
  <2>3. ASSUME NEW j \in DOMAIN op.plan
        PROVE  /\ j \in Written' => host'[op.plan[j].widget] = Committed(op.plan[j])
               /\ j \notin Written' /\ op.plan[j].inst.layer \notin lost'
                    /\ op.plan[j].widget \in InUse
                      => host'[op.plan[j].widget] = Held(op.plan[j].prior)
    <3>1. CASE host' = host /\ Written' = Written
      BY <2>1, <3>1
    <3>2. CASE /\ op.i \in DOMAIN op.plan
               /\ host' = [host EXCEPT ![op.plan[op.i].widget] = new]
               /\ Written' \cup {op.i} = Written \cup {op.i}
               /\ op.i \in Written' => new = Committed(op.plan[op.i])
               /\ op.plan[op.i].inst.layer \notin lost' /\ op.plan[op.i].widget \in InUse
                    => \/ op.i \in Written'
                       \/ new = Held(op.plan[op.i].prior)
      <4>1. op.plan[op.i].widget \in Widgets /\ op.plan[j].widget \in Widgets
        BY <1>1, <3>2, EntryFacts DEF Typed
      <4>2. CASE j = op.i
        BY <1>1, <3>2, <4>1, <4>2 DEF Typed
      <4>3. CASE j # op.i
        <5>1. op.plan[j].widget # op.plan[op.i].widget
          BY <1>2, <3>2, <4>3, AtAnEntry
        <5>2. host'[op.plan[j].widget] = host[op.plan[j].widget]
          BY <1>1, <3>2, <4>1, <5>1 DEF Typed
        <5>3. j \in Written' <=> j \in Written
          BY <3>2, <4>3
        <5> QED
          BY <2>1, <5>2, <5>3
      <4> QED
        BY <4>2, <4>3
    <3> QED
      BY <3>1, <3>2
  <2>4. Written' \subseteq DOMAIN op.plan
    BY <1>6, <1>9, WrittenAre
  <2> QED
    BY <2>2, <2>3, <2>4
<1> QED
  BY <1>6, <1>8, <1>9, <1>11 DEF IInv

-----------------------------------------------------------------------------
(***************************************************************************)
(* The steps of a call keep the invariant: fields first, then layers.      *)
(***************************************************************************)
LEMMA CommitScreenFieldsKeeps ==
    ASSUME IInv, CommitScreenFields
    PROVE  IInv'
<1> DEFINE p == op.plan[op.i]
<1>1. /\ pc = "commit" /\ pc' = pc /\ op.i \in 1 .. Len(op.plan) /\ op.i \in Nat
      /\ DOMAIN op.plan = 1 .. Len(op.plan) /\ Len(op.plan) \in Nat
      /\ ~op.marker /\ op.marker \in BOOLEAN /\ Shaped(op) /\ faults \in Nat
  BY EntryFacts DEF CommitScreenFields, IInv, Typed, PlanOK
<1>2. /\ Shaped(op)' /\ op'.i = op.i + 1 /\ op'.marker = op.marker
      /\ op'.doc = op.doc /\ op'.plan = op.plan /\ op'.previous = op.previous
      /\ op'.recovering = op.recovering /\ op'.dropped = op.dropped
      /\ op'.before = op.before
  <2>1. op' = [op EXCEPT !.i = op.i + 1]
    BY DEF CommitScreenFields
  <2> QED
    BY <1>1, <2>1, OpSteps
<1>3. Committed(p) \in [Hosts -> HostStates]
  BY <1>1, AtAnEntry
<1>4. Written' \cup {op.i} = Written \cup {op.i} /\ op.i \in Written'
  BY <1>1, <1>2 DEF Written
<1>5. host' = [host EXCEPT ![op.plan[op.i].widget] = Committed(p)]
  BY DEF CommitScreenFields
<1>6. /\ UNCHANGED <<panel, active, screenOf, layerOn, widgetOn, hostLocal, nextKey, lastDoc, health>>
      /\ faults' = faults
      /\ lost' = lost /\ lost \subseteq Layers
  BY DEF CommitScreenFields, IInv, Typed
<1>7. op'.i \in 1 .. (Len(op.plan) + 1) /\ op'.i \in Nat
  BY <1>1, <1>2
<1> HIDE DEF p
<1>8. ~op'.marker =>
         /\ Written' \cup {op.i} = Written \cup {op.i}
         /\ Committed(p) = IF op.i \in Written' THEN Committed(op.plan[op.i])
                           ELSE Held(op.plan[op.i].prior)
  BY <1>4 DEF p
<1> QED
  BY <1>1, <1>2, <1>3, <1>5, <1>6, <1>7, <1>8, FieldStep

\* A replay that stops nowhere restores every host.
LEMMA BrokenFacts ==
    ASSUME NEW hosts, hosts \subseteq Hosts, NEW stop \in Stops(hosts)
    PROVE  /\ Broken(stop) \in Nat
           /\ Broken(stop) = 0 => \A h \in hosts : stop[h] = MutationCount
<1> DEFINE bad == {h \in DOMAIN stop : stop[h] < MutationCount}
<1>1. DOMAIN stop = hosts /\ \A h \in hosts : stop[h] \in 0 .. MutationCount
  BY DEF Stops
<1>2. bad \subseteq Hosts
  BY <1>1
<1>3. IsFiniteSet(bad)
  BY <1>2, Numbers, FS_Subset
<1>4. Cardinality(bad) \in Nat /\ (Cardinality(bad) = 0 => bad = {})
  BY <1>3, FS_CardinalityType, FS_EmptySet
<1>5. Broken(stop) = Cardinality(bad)
  BY DEF Broken
<1>6. ASSUME bad = {}, NEW h \in hosts PROVE stop[h] = MutationCount
  BY <1>1, <1>6, Numbers
<1> QED
  BY <1>4, <1>5, <1>6

LEMMA RestoredFacts ==
    ASSUME NEW hostState \in HostStates, NEW prior \in V, NEW n \in 0 .. MutationCount
    PROVE  /\ Restored(hostState, prior, n) \in HostStates
           /\ Restored(hostState, prior, MutationCount)
                = [shown |-> [m \in Mutations |-> prior], snap |-> prior]
<1>1. hostState.shown \in [Mutations -> V] /\ hostState.snap \in V
  BY DEF HostStates, V
<1>2. \A m \in Mutations : (IF m <= n THEN prior ELSE hostState.shown[m]) \in V
  BY <1>1
<1>3. Restored(hostState, prior, n) \in HostStates
  BY <1>1, <1>2 DEF Restored, HostStates, V
<1>4. \A m \in Mutations : m <= MutationCount
  BY Numbers DEF Mutations
<1>5. Restored(hostState, prior, MutationCount)
        = [shown |-> [m \in Mutations |-> prior], snap |-> prior]
  BY <1>4 DEF Restored
<1> QED
  BY <1>3, <1>5

LEMMA UndoScreenKeeps ==
    ASSUME IInv, UndoScreen
    PROVE  IInv'
<1>0. /\ UNCHANGED <<panel, active, screenOf, layerOn, widgetOn, hostLocal, nextKey, lastDoc, health>>
      /\ pc = "undoScreens" /\ Shaped(op) /\ op.marker \in BOOLEAN /\ faults \in Nat /\ op.i \in Nat
      /\ op.i \in 0 .. Len(op.plan) /\ Len(op.plan) \in Nat /\ DOMAIN op.plan = 1 .. Len(op.plan)
      /\ faults # 0
      /\ lost' = lost /\ lost \subseteq Layers
  BY EntryFacts DEF UndoScreen, IInv, Typed, PlanOK, Popovers
<1>1. CASE op.i = 0
  <2>1. pc' = "refused" /\ host' = host /\ op' = op /\ faults' = faults
    BY <1>1 DEF UndoScreen
  <2>2. Written' = Written
    <3>1. 1 .. 0 = {}
      OBVIOUS
    <3> QED
      BY <1>0, <1>1, <2>1, <3>1 DEF Written
  <2>3. Shaped(op)'
    BY <1>0, <2>1 DEF Shaped
  <2>4. Filled(Blank) \in [Hosts -> HostStates]
    BY FilledFacts
  <2> QED
    BY <1>0, <2>1, <2>2, <2>3, <2>4, FieldStep
<1>2. CASE op.i # 0
  <2> DEFINE p == op.plan[op.i]
  <2>1. PICK stop \in Stops(Hosts) :
          /\ faults' = faults + Broken(stop)
          /\ host' = [host EXCEPT ![p.widget] = RollbackFieldPlans(p.widget, p.prior, stop)]
          /\ op' = [op EXCEPT !.i = op.i - 1, !.marker = op.marker \/ Broken(stop) > 0]
    BY <1>2 DEF UndoScreen, Spend
  <2>2. pc' = pc
    BY <1>2 DEF UndoScreen
  <2> DEFINE new == RollbackFieldPlans(p.widget, p.prior, stop)
             m == op.marker \/ Broken(stop) > 0
  <2>3. op.i \in DOMAIN op.plan /\ op.i - 1 \in 0 .. Len(op.plan) /\ op.i - 1 \in Nat
    BY <1>0, <1>2
  <2>4. /\ p.widget \in Widgets /\ p.prior \in [Hosts -> V]
        /\ host[p.widget] \in [Hosts -> HostStates]
    BY <1>0, <2>3, AtAnEntry
  <2>5. Broken(stop) \in Nat /\ (Broken(stop) = 0 => \A h \in Hosts : stop[h] = MutationCount)
    BY BrokenFacts
  <2>6. DOMAIN stop = Hosts /\ \A h \in Hosts : stop[h] \in 0 .. MutationCount
    BY DEF Stops
  <2>7. new = [h \in Hosts |-> Restored(host[p.widget][h], p.prior[h], stop[h])]
    BY <2>6 DEF RollbackFieldPlans
  <2>8. new \in [Hosts -> HostStates]
    <3>1. \A h \in Hosts : Restored(host[p.widget][h], p.prior[h], stop[h]) \in HostStates
      BY <2>4, <2>6, RestoredFacts
    <3> QED
      BY <2>7, <3>1
  <2>9. m \in BOOLEAN
    BY <1>0
  <2> HIDE DEF new, m
  <2>10. /\ Shaped(op)' /\ op'.i = op.i - 1 /\ op'.marker = m
         /\ op'.doc = op.doc /\ op'.plan = op.plan /\ op'.previous = op.previous
         /\ op'.recovering = op.recovering /\ op'.dropped = op.dropped
         /\ op'.before = op.before
    <3>1. op' = [op EXCEPT !.i = op.i - 1, !.marker = m]
      BY <2>1 DEF m
    <3> QED
      BY <1>0, <3>1, OpMoves
  <2>11. ASSUME ~m PROVE new = Held(p.prior)
    <3>1. Broken(stop) = 0
      BY <2>5, <2>11 DEF m
    <3>2. \A h \in Hosts : Restored(host[p.widget][h], p.prior[h], stop[h])
                             = [shown |-> [k \in Mutations |-> p.prior[h]], snap |-> p.prior[h]]
      <4> SUFFICES ASSUME NEW h \in Hosts
                   PROVE  Restored(host[p.widget][h], p.prior[h], stop[h])
                             = [shown |-> [k \in Mutations |-> p.prior[h]], snap |-> p.prior[h]]
        OBVIOUS
      <4>1. stop[h] = MutationCount /\ MutationCount \in 0 .. MutationCount
        BY <2>5, <3>1, Numbers
      <4>2. host[p.widget][h] \in HostStates /\ p.prior[h] \in V
        BY <2>4
      <4>3. Restored(host[p.widget][h], p.prior[h], MutationCount)
              = [shown |-> [k \in Mutations |-> p.prior[h]], snap |-> p.prior[h]]
        BY ONLY <4>1, <4>2, RestoredFacts
      <4> QED
        BY <4>1, <4>3
    <3> QED
      BY <2>7, <3>2 DEF Held
  <2>12. Written' \cup {op.i} = Written \cup {op.i} /\ op.i \notin Written'
    BY <1>0, <2>2, <2>3, <2>10 DEF Written
  <2>13. faults' \in Nat /\ faults' # 0
    BY <1>0, <2>1, <2>5
  <2>14. op.marker => op'.marker
    BY <2>10 DEF m
  <2>15. host' = [host EXCEPT ![op.plan[op.i].widget] = new]
    BY <2>1 DEF new
  <2>16. ~op'.marker =>
                   /\ Written' \cup {op.i} = Written \cup {op.i}
                   /\ new = IF op.i \in Written' THEN Committed(op.plan[op.i])
                            ELSE Held(op.plan[op.i].prior)
    BY <2>10, <2>11, <2>12
  <2> QED
    BY <1>0, <2>2, <2>3, <2>8, <2>9, <2>10, <2>13, <2>14, <2>15, <2>16, FieldStep
<1> QED
  BY <1>1, <1>2

LEMMA CentralStyleFailsKeeps ==
    ASSUME IInv, CentralStyleFails
    PROVE  IInv'
<1> DEFINE p == op.plan[op.i]
<1>1. /\ pc = "commit" /\ pc' = "undoScreens" /\ op.i \in 1 .. Len(op.plan) /\ op.i \in Nat
      /\ DOMAIN op.plan = 1 .. Len(op.plan) /\ Len(op.plan) \in Nat
      /\ ~op.marker /\ op.marker \in BOOLEAN /\ Shaped(op) /\ faults \in Nat
      /\ op' = op /\ faults' = faults + 1
  BY EntryFacts DEF CentralStyleFails, IInv, Typed, PlanOK, Spend
<1>2. Shaped(op)'
  BY <1>1 DEF Shaped
<1>3. Committed(p) \in [Hosts -> HostStates]
  BY <1>1, AtAnEntry
<1>4. Written' \cup {op.i} = Written \cup {op.i} /\ op.i \in Written'
  BY <1>1, <1>2 DEF Written
<1>5. host' = [host EXCEPT ![op.plan[op.i].widget] = Committed(p)]
  BY DEF CentralStyleFails
<1>6. /\ UNCHANGED <<panel, active, screenOf, layerOn, widgetOn, hostLocal, nextKey, lastDoc, health>>
      /\ lost' = lost /\ lost \subseteq Layers
  BY DEF CentralStyleFails, IInv, Typed
<1>7. faults' \in Nat /\ faults' # 0 /\ op.i \in 0 .. Len(op.plan)
  BY <1>1
<1> QED
  BY <1>1, <1>2, <1>3, <1>4, <1>5, <1>6, <1>7, FieldStep

LEMMA StartLayersKeeps ==
    ASSUME IInv, StartLayers
    PROVE  IInv'
<1>1. /\ pc = "commit" /\ pc' = "layers" /\ op.i = Len(op.plan) + 1
      /\ DOMAIN op.plan = 1 .. Len(op.plan) /\ Len(op.plan) \in Nat
      /\ ~op.marker /\ op.marker \in BOOLEAN /\ Shaped(op) /\ faults \in Nat
      /\ faults' = faults /\ host' = host
  <2>1. Typed /\ PlanOK
    BY DEF IInv
  <2>2. pc = "commit" /\ pc' = "layers" /\ op.i > Len(op.plan) /\ faults' = faults /\ host' = host
    BY DEF StartLayers
  <2>3. /\ op.plan \in Seq(Entries) /\ op.i \in 1 .. (Len(op.plan) + 1) /\ ~op.marker
        /\ op.marker \in BOOLEAN /\ Shaped(op) /\ faults \in Nat
    BY <2>1, <2>2 DEF Typed, PlanOK
  <2>4. DOMAIN op.plan = 1 .. Len(op.plan) /\ Len(op.plan) \in Nat
    BY <2>3, EntryFacts
  <2> QED
    BY <2>2, <2>3, <2>4
<1>2. /\ Shaped(op)' /\ op'.i = 1 /\ op'.marker = op.marker
      /\ op'.doc = op.doc /\ op'.plan = op.plan /\ op'.previous = op.previous
      /\ op'.recovering = op.recovering /\ op'.dropped = op.dropped
      /\ op'.before = op.before
  <2>1. op' = [op EXCEPT !.i = 1]
    BY DEF StartLayers
  <2> QED
    BY <1>1, <2>1, OpSteps
<1>3. Written' = Written
  BY <1>1, <1>2 DEF Written
<1>4. /\ UNCHANGED <<panel, active, screenOf, layerOn, widgetOn, hostLocal, nextKey, lastDoc, health>>
      /\ lost' = lost /\ lost \subseteq Layers
  BY DEF StartLayers, IInv, Typed
<1>5. Filled(Blank) \in [Hosts -> HostStates]
  BY FilledFacts
<1>6. op'.i \in Nat
  BY <1>2
<1>7. Popovers
  BY DEF IInv
<1> QED
  BY <1>1, <1>2, <1>3, <1>4, <1>5, <1>6, <1>7, FieldStep DEF Popovers

LEMMA CommitScreenFieldsFailsKeeps ==
    ASSUME IInv, CommitScreenFieldsFails
    PROVE  IInv'
<1> DEFINE p == op.plan[op.i]
           was == host[p.widget]
<1>1. /\ pc = "commit" /\ pc' = "undoScreens" /\ op.i \in 1 .. Len(op.plan) /\ op.i \in Nat
      /\ DOMAIN op.plan = 1 .. Len(op.plan) /\ Len(op.plan) \in Nat
      /\ op.marker \in BOOLEAN /\ ~op.marker /\ Shaped(op) /\ faults \in Nat
  BY EntryFacts DEF CommitScreenFieldsFails, IInv, Typed, PlanOK
<1>2. \E h \in Hosts, m \in Mutations, unhealed \in SUBSET (1 .. (MutationCount - 1)) :
        \E stop \in Stops(1 .. (h - 1)) :
          /\ unhealed \subseteq 1 .. (m - 1)
          /\ faults' = faults + (Broken(stop) + Cardinality(unhealed) + 1)
          /\ host' = [host EXCEPT ![p.widget] = HalfCommitted(p, h, m, unhealed, stop)]
          /\ op' = [op EXCEPT !.i = op.i - 1,
                              !.marker = op.marker \/ Broken(stop) + Cardinality(unhealed) > 0]
  BY Zenon DEF CommitScreenFieldsFails, Spend
<1>3. PICK h \in Hosts, m \in Mutations, unhealed \in SUBSET (1 .. (MutationCount - 1)) :
        \E stop \in Stops(1 .. (h - 1)) :
          /\ unhealed \subseteq 1 .. (m - 1)
          /\ faults' = faults + (Broken(stop) + Cardinality(unhealed) + 1)
          /\ host' = [host EXCEPT ![p.widget] = HalfCommitted(p, h, m, unhealed, stop)]
          /\ op' = [op EXCEPT !.i = op.i - 1,
                              !.marker = op.marker \/ Broken(stop) + Cardinality(unhealed) > 0]
  BY <1>2, Zenon
<1>b. PICK stop \in Stops(1 .. (h - 1)) :
          /\ unhealed \subseteq 1 .. (m - 1)
          /\ faults' = faults + (Broken(stop) + Cardinality(unhealed) + 1)
          /\ host' = [host EXCEPT ![p.widget] = HalfCommitted(p, h, m, unhealed, stop)]
          /\ op' = [op EXCEPT !.i = op.i - 1,
                              !.marker = op.marker \/ Broken(stop) + Cardinality(unhealed) > 0]
  BY <1>3, Zenon
<1> DEFINE half(g) == [shown |-> Committed(p)[g].shown, snap |-> was[g].snap]
           torn(g) == [shown |-> [n \in Mutations |-> IF n \in unhealed THEN p.inst.value
                                                      ELSE IF n < m THEN p.prior[g]
                                                      ELSE was[g].shown[n]],
                       snap |-> was[g].snap]
           new == [g \in Hosts |-> IF g < h THEN Restored(half(g), p.prior[g], stop[g])
                                   ELSE IF g = h THEN torn(g) ELSE was[g]]
           broken == Broken(stop) + Cardinality(unhealed)
           mark == op.marker \/ broken > 0
<1>4. /\ p.widget \in Widgets /\ p.prior \in [Hosts -> V] /\ p.inst.value \in V
      /\ was \in [Hosts -> HostStates] /\ Committed(p) \in [Hosts -> HostStates]
  BY <1>1, AtAnEntry
<1>5. Hosts \subseteq Nat /\ h \in Nat /\ m \in Nat /\ Mutations \subseteq Nat
  BY Numbers DEF Hosts, Mutations
<1>6. /\ DOMAIN stop = 1 .. (h - 1) /\ 1 .. (h - 1) \subseteq Hosts
      /\ \A g \in 1 .. (h - 1) : stop[g] \in 0 .. MutationCount
  BY Numbers DEF Stops, Hosts
<1>7. \A g \in Hosts : g < h => g \in 1 .. (h - 1)
  BY <1>5 DEF Hosts
<1>8. \A s \in HostStates : /\ s.shown \in [Mutations -> V] /\ s.snap \in V
                            /\ s = [shown |-> s.shown, snap |-> s.snap]
  BY DEF HostStates, V
<1>9. host' = [host EXCEPT ![p.widget] = new]
  <2>1. HalfCommitted(p, h, m, unhealed, stop) = new
    BY DEF HalfCommitted
  <2> QED
    BY <1>b, <2>1
<1>10. new \in [Hosts -> HostStates]
  <2> SUFFICES ASSUME NEW g \in Hosts
               PROVE  /\ g < h => Restored(half(g), p.prior[g], stop[g]) \in HostStates
                      /\ torn(g) \in HostStates
                      /\ was[g] \in HostStates
    OBVIOUS
  <2>1. /\ Committed(p)[g].shown \in [Mutations -> V] /\ was[g].snap \in V /\ was[g] \in HostStates
        /\ was[g].shown \in [Mutations -> V] /\ p.prior[g] \in V
    BY <1>4, <1>8
  <2>2. half(g) \in HostStates
    BY <2>1 DEF HostStates, V
  <2>3. torn(g) \in HostStates
    <3>1. \A n \in Mutations : (IF n \in unhealed THEN p.inst.value
                                ELSE IF n < m THEN p.prior[g] ELSE was[g].shown[n]) \in V
      BY <1>4, <2>1
    <3> QED
      BY <2>1, <3>1 DEF HostStates, V
  <2> HIDE DEF half, torn
  <2>4. g < h => Restored(half(g), p.prior[g], stop[g]) \in HostStates
    BY <1>6, <1>7, <2>1, <2>2, RestoredFacts
  <2> QED
    BY <2>1, <2>3, <2>4
<1>11. /\ Broken(stop) \in Nat
       /\ Broken(stop) = 0 => \A g \in 1 .. (h - 1) : stop[g] = MutationCount
  BY <1>6, BrokenFacts
<1>12. Cardinality(unhealed) \in Nat /\ (Cardinality(unhealed) = 0 => unhealed = {})
  <2>1. IsFiniteSet(1 .. (MutationCount - 1))
    BY Numbers, FS_Interval
  <2>2. IsFiniteSet(unhealed)
    BY <2>1, FS_Subset
  <2> QED
    BY <2>2, FS_CardinalityType, FS_EmptySet
<1>13. broken \in Nat /\ (broken = 0 => Broken(stop) = 0 /\ Cardinality(unhealed) = 0)
  BY <1>11, <1>12
<1>14. faults' \in Nat /\ faults' # 0
  <2>1. faults' = faults + (Broken(stop) + Cardinality(unhealed) + 1)
    BY <1>b
  <2> QED
    BY <1>1, <1>11, <1>12, <2>1
<1>15. ASSUME ~mark, p.inst.layer \notin lost, p.widget \in InUse
       PROVE  new = Held(p.prior)
  <2>1. broken = 0
    BY <1>13, <1>15
  <2>2. unhealed = {} /\ \A g \in 1 .. (h - 1) : stop[g] = MutationCount
    BY <1>11, <1>12, <1>13, <2>1
  <2>3. was = Held(p.prior)
    <3>1. op.i \notin Written
      BY <1>1 DEF Written
    <3> QED
      BY <1>1, <1>15, <3>1 DEF IInv, Fields
  <2>4. \A g \in Hosts : was[g] = [shown |-> [k \in Mutations |-> p.prior[g]], snap |-> p.prior[g]]
    BY <2>3 DEF Held
  <2>5. ASSUME NEW g \in Hosts, g < h
        PROVE  Restored(half(g), p.prior[g], stop[g])
                 = [shown |-> [k \in Mutations |-> p.prior[g]], snap |-> p.prior[g]]
    <3>1. stop[g] = MutationCount /\ MutationCount \in 0 .. MutationCount
      BY <1>7, <2>2, <2>5, Numbers
    <3>2. half(g) \in HostStates /\ p.prior[g] \in V
      <4>1. Committed(p)[g].shown \in [Mutations -> V] /\ was[g].snap \in V
        BY <1>4, <1>8
      <4> QED
        BY <1>4, <4>1 DEF HostStates, V
    <3> HIDE DEF half
    <3>3. Restored(half(g), p.prior[g], MutationCount)
            = [shown |-> [k \in Mutations |-> p.prior[g]], snap |-> p.prior[g]]
      BY ONLY <3>1, <3>2, RestoredFacts
    <3> QED
      BY <3>1, <3>3
  <2>6. ASSUME NEW g \in Hosts
        PROVE  torn(g) = [shown |-> [k \in Mutations |-> p.prior[g]], snap |-> p.prior[g]]
    <3> DEFINE x == was[g]
    <3>a. x = [shown |-> [k \in Mutations |-> p.prior[g]], snap |-> p.prior[g]]
      BY <2>4
    <3> HIDE DEF x
    <3>b. x.snap = p.prior[g] /\ x.shown = [k \in Mutations |-> p.prior[g]]
      BY <3>a
    <3>1. was[g].snap = p.prior[g] /\ \A n \in Mutations : was[g].shown[n] = p.prior[g]
      BY <3>b DEF x
    <3>2. \A n \in Mutations : n \notin unhealed
      BY <2>2
    <3>3. [n \in Mutations |-> IF n \in unhealed THEN p.inst.value
                               ELSE IF n < m THEN p.prior[g] ELSE was[g].shown[n]]
            = [k \in Mutations |-> p.prior[g]]
      BY <3>1, <3>2
    <3> QED
      BY <3>1, <3>3
  <2> HIDE DEF half, torn
  <2> QED
    BY <2>4, <2>5, <2>6 DEF Held
<1>16. mark \in BOOLEAN /\ (op.marker => mark)
  BY <1>1
<1>17. op' = [op EXCEPT !.i = op.i - 1, !.marker = mark]
  BY <1>b
<1> HIDE DEF new, mark, broken
<1>18. /\ Shaped(op)' /\ op'.i = op.i - 1 /\ op'.marker = mark
       /\ op'.doc = op.doc /\ op'.plan = op.plan /\ op'.previous = op.previous
       /\ op'.recovering = op.recovering /\ op'.dropped = op.dropped
       /\ op'.before = op.before
  BY <1>1, <1>17, OpMoves
<1>19. /\ UNCHANGED <<panel, active, screenOf, layerOn, widgetOn, hostLocal, nextKey, lastDoc, health>>
      /\ lost' = lost /\ lost \subseteq Layers
  BY DEF CommitScreenFieldsFails, IInv, Typed
<1>20. Written' \cup {op.i} = Written \cup {op.i} /\ op.i \notin Written'
  BY <1>1, <1>18 DEF Written
<1>21. op'.i \in 0 .. Len(op.plan) /\ op'.i \in Nat
  BY <1>1, <1>18
<1>22. ~op'.marker =>
         /\ Written' \cup {op.i} = Written \cup {op.i}
         /\ op.i \notin Written'
         /\ op.plan[op.i].inst.layer \notin lost' /\ op.plan[op.i].widget \in InUse
              => new = Held(op.plan[op.i].prior)
  BY <1>15, <1>18, <1>19, <1>20
<1>23. op.i \in DOMAIN op.plan /\ host' = [host EXCEPT ![op.plan[op.i].widget] = new]
  BY <1>1, <1>9
<1> HIDE DEF p, was
<1> QED
  BY <1>1, <1>10, <1>14, <1>16, <1>18, <1>19, <1>21, <1>22, <1>23, FieldStep

LEMMA HostInvalidatedKeeps ==
    ASSUME IInv, HostInvalidated
    PROVE  IInv'
<1> DEFINE p == op.plan[op.i]
           was == host[p.widget]
<1>1. /\ pc = "commit" /\ pc' = "undoScreens" /\ op.i \in 1 .. Len(op.plan) /\ op.i \in Nat
      /\ DOMAIN op.plan = 1 .. Len(op.plan) /\ Len(op.plan) \in Nat
      /\ op.marker \in BOOLEAN /\ ~op.marker /\ Shaped(op) /\ faults \in Nat
      /\ faults' = faults + 1
  BY EntryFacts DEF HostInvalidated, IInv, Typed, PlanOK, Spend
<1>2. PICK h \in Hosts :
        /\ host' = [host EXCEPT ![p.widget] =
              [g \in Hosts |-> IF g < h THEN [was[g] EXCEPT !.shown = Committed(p)[g].shown]
                               ELSE was[g]]]
        /\ lost' = IF h > 1 /\ p.widget \in WidgetsIn(panel[p.inst.layer])
                   THEN lost \cup {p.inst.layer} ELSE lost
  BY DEF HostInvalidated
<1> DEFINE new == [g \in Hosts |-> IF g < h THEN [was[g] EXCEPT !.shown = Committed(p)[g].shown]
                                   ELSE was[g]]
<1>3. /\ p.widget \in Widgets /\ was \in [Hosts -> HostStates]
      /\ Committed(p) \in [Hosts -> HostStates]
  BY <1>1, AtAnEntry
<1>4. Slot(p.inst) \in Slots /\ Slot(p.inst)[1] = p.inst.layer /\ p.inst.layer \in Layers
  BY <1>1, EntryFacts DEF IInv, Typed
<1>5. new \in [Hosts -> HostStates]
  <2> SUFFICES ASSUME NEW g \in Hosts
               PROVE  [was[g] EXCEPT !.shown = Committed(p)[g].shown] \in HostStates
                      /\ was[g] \in HostStates
    OBVIOUS
  <2>1. was[g] \in HostStates /\ Committed(p)[g] \in HostStates
    BY <1>3
  <2> QED
    BY <2>1 DEF HostStates
<1>6. ASSUME p.inst.layer \notin lost', p.widget \in InUse
      PROVE  new = Held(p.prior)
  <2>1. p.inst.layer \notin lost
    BY <1>2, <1>6
  <2>2. op.i \notin Written /\ Rebuilt = {}
    BY <1>1 DEF Written, Rebuilt, RebuiltPlaces
  <2>3. was = Held(p.prior)
    BY <1>1, <1>6, <2>1, <2>2 DEF IInv, Fields
  <2>4. p.widget \in ActiveIn(p.inst.layer, active)
    <3>1. PICK s \in Slots : p.widget = active[s] /\ active[s] # NoWidget
      BY <1>6 DEF InUse
    <3>2. s = Slot(p.inst)
      BY <1>1, <3>1 DEF IInv, PlanOK
    <3> QED
      BY <1>4, <3>1, <3>2 DEF ActiveIn
  <2>5. p.widget \in WidgetsIn(panel[p.inst.layer])
    <3>1. Old[p.inst.layer] = panel[p.inst.layer]
      BY <1>4, <2>2 DEF Old
    <3> QED
      BY <1>1, <1>4, <2>1, <2>4, <3>1 DEF IInv, Panels
  <2>6. ~(h > 1)
    BY <1>2, <1>6, <2>5
  <2>7. \A g \in Hosts : ~(g < h)
    BY <2>6, Numbers DEF Hosts
  <2>8. new = was
    BY <1>3, <2>7
  <2> QED
    BY <2>3, <2>8
<1>7. host' = [host EXCEPT ![op.plan[op.i].widget] = new]
  BY <1>2
<1> HIDE DEF new
<1>8. /\ Shaped(op)' /\ op'.i = op.i - 1 /\ op'.marker = op.marker
      /\ op'.doc = op.doc /\ op'.plan = op.plan /\ op'.previous = op.previous
      /\ op'.recovering = op.recovering /\ op'.dropped = op.dropped
      /\ op'.before = op.before
  <2>1. op' = [op EXCEPT !.i = op.i - 1]
    BY DEF HostInvalidated
  <2> QED
    BY <1>1, <2>1, OpSteps
<1>9. UNCHANGED <<panel, active, screenOf, layerOn, widgetOn, hostLocal, nextKey, lastDoc, health>>
  BY DEF HostInvalidated
<1>10. lost \subseteq lost' /\ lost' \subseteq Layers
  BY <1>2, <1>4 DEF IInv, Typed
<1>11. Written' \cup {op.i} = Written \cup {op.i} /\ op.i \notin Written'
  BY <1>1, <1>8 DEF Written
<1>12. op'.i \in 0 .. Len(op.plan) /\ op'.i \in Nat /\ op.i \in DOMAIN op.plan
  BY <1>1, <1>8
<1>13. ~op'.marker =>
         /\ Written' \cup {op.i} = Written \cup {op.i}
         /\ op.i \notin Written'
         /\ op.plan[op.i].inst.layer \notin lost' /\ op.plan[op.i].widget \in InUse
              => new = Held(op.plan[op.i].prior)
  BY <1>6, <1>11
<1>14. faults' \in Nat /\ faults' # 0
  BY <1>1
<1> HIDE DEF p, was
<1> QED
  BY <1>1, <1>5, <1>7, <1>8, <1>9, <1>10, <1>12, <1>13, <1>14, FieldStep

LEMMA NothingCloses ==
    ASSUME hostLocal \in Seq(Locals), NEW st \in OverlayStates, NEW owners, NEW failing,
           \A e \in ToSet(hostLocal) : e.owner \notin owners
    PROVE  CloseAll(st, owners, failing) = st
<1> DEFINE q == PopoversOf(owners)
           step == Close(failing)
<1>1. q = <<>> /\ q \in Seq(1 .. MaxPopovers)
  BY PopoversFacts
<1>2. step \in [1 .. MaxPopovers -> [OverlayStates -> OverlayStates]]
  BY DetachedTyped DEF Close
<1> HIDE DEF q, step
<1>3. PICK f : OnTheWay(f, OverlayStates, step, q, st)
  BY <1>1, <1>2, ThroughSteps
<1>4. Through(step, q, st) = st
  BY <1>1, <1>3 DEF OnTheWay
<1> QED
  BY <1>4 DEF CloseAll, q, step

(***************************************************************************)
(* What clearing a layer does to the popovers, during a call.              *)
(***************************************************************************)
Cleared(l, failing, st) ==
    /\ st.locals \in Seq(Locals) /\ st.children \in Seq(Children)
    /\ OnTop(st.children) /\ Ordered(st.locals)
    /\ WidgetsIn(st.children) \subseteq WidgetsIn(panel[OverlayLayer])
    /\ (OverlayLayer \notin Rebuilt \/ (op.recovering /\ l \notin Rebuilt))
          => Documented(st.children) = Documented(panel[OverlayLayer])
    /\ Keys(hostLocal) \subseteq Up(panel[OverlayLayer]) => Keys(st.locals) \subseteq Up(st.children)
    /\ failing = {} /\ Up(panel[OverlayLayer]) \subseteq Keys(hostLocal)
          => Up(st.children) \subseteq Keys(st.locals)
    /\ Once(panel[OverlayLayer]) => Once(st.children)
    /\ ToSet(st.locals) \subseteq ToSet(hostLocal)
    /\ \A e \in ToSet(st.locals) : e.owner \notin WidgetsIn(panel[l])
    /\ l = OverlayLayer => st.locals = hostLocal /\ st.children = panel[OverlayLayer]

LEMMA ClearingFacts ==
    ASSUME IInv, pc # "idle", NEW l \in Layers, NEW failing, NEW st, st = AfterClearing(l, failing)
    PROVE  Cleared(l, failing, st)
<1>1. Typed /\ PlanOK /\ Books /\ Panels /\ Owners
  BY DEF IInv
<1>2. /\ hostLocal \in Seq(Locals) /\ panel[OverlayLayer] \in Seq(Children)
      /\ Overlay \in OverlayStates /\ Overlay.locals = hostLocal
      /\ Overlay.children = panel[OverlayLayer]
  <2>1. hostLocal \in Seq(Locals) /\ panel[OverlayLayer] \in Seq(Children)
    BY <1>1, LayerFacts DEF Typed
  <2> QED
    BY <2>1 DEF Overlay, OverlayStates
<1>3. OnTop(panel[OverlayLayer]) /\ Ordered(hostLocal)
  BY <1>1, LayerFacts DEF Panels, Owners
\* Whoever has no popover there takes none with him.
<1>4. ASSUME \A e \in ToSet(hostLocal) : e.owner \notin WidgetsIn(panel[l])
      PROVE  Cleared(l, failing, st)
  <2>1. st = Overlay
    BY <1>2, <1>4, NothingCloses DEF AfterClearing
  <2> QED
    BY <1>2, <1>3, <1>4, <2>1 DEF Cleared
<1>5. CASE l = OverlayLayer
  <2>1. ASSUME NEW e \in ToSet(hostLocal) PROVE e.owner \notin WidgetsIn(panel[l])
    <3>1. PICK k \in PopoverLayers : e.owner \in WidgetsIn(panel[k])
      BY <1>1 DEF Owners
    <3>2. k \in Layers /\ k # l
      BY <1>5, LayerFacts
    <3> QED
      BY <1>1, <3>1, <3>2, OneLayer
  <2> QED
    BY <1>4, <2>1
<1>6. CASE op.recovering /\ l \notin Rebuilt
  <2>1. Old[l] = panel[l]
    BY <1>6 DEF Old
  <2>2. WidgetsIn(panel[l]) \subseteq ActiveIn(l, active)
    BY <1>1, <2>1 DEF Panels
  <2>3. ActiveIn(l, active) \subseteq InUse /\ InUse = {}
    BY <1>1, <1>6 DEF ActiveIn, InUse, Books
  <2>4. WidgetsIn(panel[l]) = {}
    BY <2>2, <2>3
  <2> QED
    BY <1>4, <2>4
<1>7. CASE l # OverlayLayer /\ ~(op.recovering /\ l \notin Rebuilt)
  <2>1. SoundOverlay(Overlay)
    BY <1>2, <1>3 DEF SoundOverlay
  <2>2. /\ SoundOverlay(st)
        /\ Keeps(Overlay, st, failing = {})
        /\ ToSet(st.locals) \subseteq ToSet(Overlay.locals)
        /\ \A e \in ToSet(st.locals) \cap ToSet(hostLocal) : e.owner \notin WidgetsIn(panel[l])
    BY <1>2, <2>1, CloseAllFacts DEF AfterClearing
  <2>3. st.locals \in Seq(Locals) /\ st.children \in Seq(Children) /\ OnTop(st.children)
        /\ Ordered(st.locals)
    BY <2>2 DEF SoundOverlay, OverlayStates
  <2>4. ASSUME OverlayLayer \notin Rebuilt
        PROVE  WidgetsIn(panel[OverlayLayer]) \subseteq ActiveIn(OverlayLayer, active)
    <3>1. Old[OverlayLayer] = panel[OverlayLayer]
      BY <2>4, LayerFacts DEF Old
    <3> QED
      BY <1>1, <3>1, LayerFacts DEF Panels
  <2>5. /\ WidgetsIn(st.children) \subseteq WidgetsIn(panel[OverlayLayer])
        /\ OverlayLayer \notin Rebuilt
             => Documented(st.children) = Documented(panel[OverlayLayer])
        /\ Keys(hostLocal) \subseteq Up(panel[OverlayLayer]) => Keys(st.locals) \subseteq Up(st.children)
        /\ failing = {} /\ Up(panel[OverlayLayer]) \subseteq Keys(hostLocal)
            => Up(st.children) \subseteq Keys(st.locals)
        /\ Once(panel[OverlayLayer]) => Once(st.children)
    BY <1>2, <2>2, <2>4 DEF Keeps
  <2> QED
    BY <1>2, <1>7, <2>2, <2>3, <2>5 DEF Cleared
<1> QED
  BY <1>5, <1>6, <1>7

LEMMA HoldsThePlan ==
    ASSUME NEW plan \in Seq(Entries), NEW l, NEW children \in Seq(Children),
           Documented(children) = PlanChildren(plan, l)
    PROVE  WidgetsIn(children) = WidgetsIn(PlanChildren(plan, l))
<1> DEFINE q == PlanChildren(plan, l)
<1>1. \A n \in DOMAIN q : IsScreen(q[n])
  BY PlanChildrenFacts
<1> HIDE DEF q
<1>2. WidgetsIn(q) = {q[n].id : n \in DOMAIN q}
  BY <1>1 DEF WidgetsIn, ToSet
<1>3. WidgetsIn(children) = {q[n].id : n \in DOMAIN q}
  BY DocumentedFacts DEF q
<1> QED
  BY <1>2, <1>3 DEF q

LEMMA SameDocument ==
    ASSUME NEW a \in Seq(Children), NEW b \in Seq(Children), Documented(a) = Documented(b)
    PROVE  WidgetsIn(a) = WidgetsIn(b)
  BY DocumentedFacts

(***************************************************************************)
(* A step that clears the panel of layer l and fills it again.             *)
(***************************************************************************)
LayersOnly ==
    /\ UNCHANGED <<active, screenOf, host, layerOn, widgetOn, nextKey, lastDoc, health>>
    /\ pc \in {"layers", "undoLayers"} /\ pc' \in {"layers", "undoLayers"}
    /\ op'.doc = op.doc /\ op'.plan = op.plan
    /\ op'.recovering = op.recovering /\ op'.before = op.before
    /\ Shaped(op)' /\ op'.i \in Nat /\ op'.marker \in BOOLEAN
    /\ op'.previous \in [Layers -> Seq(Children)]
    /\ op.marker => op'.marker
    /\ op'.dropped \in BOOLEAN /\ (op'.recovering => ~op'.dropped)
    /\ lost \subseteq lost' /\ lost' \subseteq Layers
    /\ pc' = "layers" => op'.i \in 1 .. (Len(LayerOrder) + 1) /\ ~op'.marker
    /\ pc' = "undoLayers" => op'.i \in 0 .. Len(LayerOrder)

Refilled(l, st, new) ==
    /\ panel' = [panel EXCEPT ![OverlayLayer] = st.children, ![l] = new]
    /\ hostLocal' = st.locals
    /\ new \in Seq(Children) /\ OnTop(new)
    /\ \A k \in Layers \ {l} : /\ k \in Rebuilt' <=> k \in Rebuilt
                               /\ op'.previous[k] = op.previous[k]
    /\ l \in Rebuilt' => /\ Documented(new) = PlanChildren(op.plan, l)
                         /\ op'.previous[l] = Old[l]
                         /\ l = OverlayLayer => Up(new) = Keys(hostLocal)
    /\ l \notin Rebuilt' => /\ WidgetsIn(new) \subseteq WidgetsIn(Old[l])
                            /\ op'.marker \/ l \in lost' \/ new = Old[l]
    /\ pc' = "layers" /\ ~op'.dropped
          => /\ pc = "layers" /\ ~op.dropped
             /\ Documented(st.children) = Documented(panel[OverlayLayer])

LEMMA LayerStep ==
    ASSUME IInv, NEW l \in Layers, NEW failing, NEW st, NEW new, Cleared(l, failing, st),
           LayersOnly, Refilled(l, st, new), faults' \in Nat,
           faults' = 0 => /\ faults = 0 /\ failing = {} /\ pc' = "layers" /\ l \in Rebuilt'
    PROVE  IInv'
<1>1. Typed /\ PlanOK /\ Books /\ Panels /\ Owners /\ Popovers /\ Fields /\ Input /\ Before
  BY DEF IInv
<1>2. /\ active' = active /\ screenOf' = screenOf /\ host' = host /\ layerOn' = layerOn
      /\ widgetOn' = widgetOn /\ nextKey' = nextKey /\ lastDoc' = lastDoc /\ health' = health
      /\ pc \in {"layers", "undoLayers"} /\ pc' \in {"layers", "undoLayers"}
      /\ op'.doc = op.doc /\ op'.plan = op.plan
      /\ op'.recovering = op.recovering /\ op'.before = op.before
      /\ op'.marker \in BOOLEAN /\ (op.marker => op'.marker)
      /\ op'.previous \in [Layers -> Seq(Children)]
      /\ lost \subseteq lost'
  BY DEF LayersOnly
<1>3. /\ st.locals \in Seq(Locals) /\ st.children \in Seq(Children)
      /\ OnTop(st.children) /\ Ordered(st.locals)
      /\ WidgetsIn(st.children) \subseteq WidgetsIn(panel[OverlayLayer])
      /\ OverlayLayer \notin Rebuilt
           => Documented(st.children) = Documented(panel[OverlayLayer])
  BY DEF Cleared
<1>4. panel \in [Layers -> Seq(Children)] /\ OverlayLayer \in Layers /\ ModalLayer \in Layers
      /\ PopoverLayers \subseteq Layers /\ OverlayLayer \notin PopoverLayers
  BY <1>1, LayerFacts DEF Typed
<1>5. /\ panel' \in [Layers -> Seq(Children)] /\ panel'[l] = new
      /\ l # OverlayLayer => panel'[OverlayLayer] = st.children
      /\ \A k \in Layers : k # l /\ k # OverlayLayer => panel'[k] = panel[k]
  BY <1>3, <1>4 DEF Refilled
<1>6. Typed'
  BY <1>1, <1>2, <1>3, <1>5 DEF Typed, LayersOnly, Refilled
<1>7. /\ op.plan \in Seq(Entries) /\ op'.plan = op.plan
      /\ pc' = "layers" /\ ~op'.dropped
           => /\ pc = "layers" /\ ~op.dropped
              /\ Documented(st.children) = Documented(panel[OverlayLayer])
  BY <1>1, <1>2 DEF Typed, Refilled
<1>8. \A k \in Layers : Old[k] \in Seq(Children) /\ OnTop(Old[k]) /\ OnTop(panel[k])
  BY <1>1 DEF Panels, Old, Typed
\* The old children of a layer stay what they were, but for a child lost.
<1>9. ASSUME NEW k \in Layers
      PROVE  /\ OnTop(panel'[k]) /\ OnTop(Old'[k])
             /\ WidgetsIn(Old'[k]) \subseteq WidgetsIn(Old[k])
             /\ Old'[k] \in Seq(Children)
             /\ op'.marker \/ k \in lost' \/ Documented(Old'[k]) = Documented(Old[k])
             /\ k \in Rebuilt' =>
                  /\ WidgetsIn(panel'[k]) \subseteq WidgetsIn(PlanChildren(op.plan, k))
                  /\ (k = OverlayLayer => pc' = "layers" /\ ~op'.dropped)
                       => Documented(panel'[k]) = PlanChildren(op.plan, k)
  <2>1. CASE k = l
    <3>1. Old'[l] = IF l \in Rebuilt' THEN op'.previous[l] ELSE new
      BY <1>5 DEF Old
    <3>2. /\ new \in Seq(Children) /\ OnTop(new)
          /\ l \in Rebuilt' => Documented(new) = PlanChildren(op.plan, l) /\ op'.previous[l] = Old[l]
          /\ l \notin Rebuilt' => /\ WidgetsIn(new) \subseteq WidgetsIn(Old[l])
                                  /\ op'.marker \/ l \in lost' \/ new = Old[l]
      BY DEF Refilled
    <3>3. l \in Rebuilt' => WidgetsIn(new) = WidgetsIn(PlanChildren(op.plan, l))
      BY <1>7, <3>2, HoldsThePlan
    <3> QED
      BY <1>5, <1>8, <2>1, <3>1, <3>2, <3>3
  <2>2. CASE k # l
    <3>1. /\ k \in Rebuilt' <=> k \in Rebuilt
          /\ op'.previous[k] = op.previous[k]
      BY <2>2 DEF Refilled
    <3>2. /\ Old'[k] = IF k \in Rebuilt THEN op.previous[k] ELSE panel'[k]
          /\ Old[k] = IF k \in Rebuilt THEN op.previous[k] ELSE panel[k]
      BY <3>1 DEF Old
    <3>3. k \in Rebuilt =>
            /\ WidgetsIn(panel[k]) \subseteq WidgetsIn(PlanChildren(op.plan, k))
            /\ (k = OverlayLayer => pc = "layers" /\ ~op.dropped)
                 => Documented(panel[k]) = PlanChildren(op.plan, k)
      BY <1>1 DEF Panels
    <3>4. CASE k # OverlayLayer
      BY <1>5, <1>8, <2>2, <3>1, <3>2, <3>3, <3>4
    <3>5. CASE k = OverlayLayer
      <4>1. panel'[k] = st.children
        BY <1>5, <2>2, <3>5
      <4>2. WidgetsIn(panel'[k]) \subseteq WidgetsIn(panel[k])
        BY <1>3, <3>5, <4>1
      <4>3. k \notin Rebuilt => Documented(panel'[k]) = Documented(panel[k])
        BY <1>3, <3>5, <4>1
      <4>4. k \in Rebuilt' =>
              /\ WidgetsIn(panel'[k]) \subseteq WidgetsIn(PlanChildren(op.plan, k))
              /\ (k = OverlayLayer => pc' = "layers" /\ ~op'.dropped)
                   => Documented(panel'[k]) = PlanChildren(op.plan, k)
        BY <1>7, <3>1, <3>3, <3>5, <4>1, <4>2
      <4> QED
        BY <1>3, <1>8, <3>1, <3>2, <4>1, <4>2, <4>3, <4>4
    <3> QED
      BY <3>4, <3>5
  <2> QED
    BY <2>1, <2>2
<1>10. \A k \in Rebuilt : k \in Layers
  BY LayerFacts DEF Rebuilt, RebuiltPlaces, IInv, Typed, PlanOK
<1>11. \A k \in Rebuilt' : k \in Layers
  <2>1. Len(LayerOrder) \in Nat /\ \A j \in 1 .. Len(LayerOrder) : LayerOrder[j] \in Layers
    BY LayerFacts
  <2>2. RebuiltPlaces' \subseteq 1 .. Len(LayerOrder)
    BY <1>2, <2>1 DEF RebuiltPlaces, LayersOnly
  <2> QED
    BY <2>1, <2>2 DEF Rebuilt
<1>12. Panels'
  <2>1. ASSUME NEW k \in Layers
        PROVE  /\ OnTop(panel'[k]) /\ OnTop(Old'[k])
               /\ WidgetsIn(Old'[k]) \subseteq ActiveIn(k, active)
               /\ ~op'.marker /\ k \notin lost' => WidgetsIn(Old'[k]) = ActiveIn(k, active)
    <3>1. /\ WidgetsIn(Old[k]) \subseteq ActiveIn(k, active)
          /\ ~op.marker /\ k \notin lost => WidgetsIn(Old[k]) = ActiveIn(k, active)
      BY <1>1 DEF Panels
    <3>2. ~op'.marker /\ k \notin lost' => WidgetsIn(Old'[k]) = WidgetsIn(Old[k])
      BY <1>8, <1>9, SameDocument
    <3> QED
      BY <1>2, <1>9, <3>1, <3>2
  <2>2. op'.recovering => ~op'.dropped
    BY DEF LayersOnly
  <2> QED
    BY <1>2, <1>9, <1>11, <2>1, <2>2 DEF Panels
<1>13. Owners'
  <2>1. ASSUME NEW e \in ToSet(hostLocal')
        PROVE  /\ \E k \in PopoverLayers : e.owner \in WidgetsIn(panel'[k])
               /\ e.key < nextKey
    <3>1. e \in ToSet(hostLocal) /\ e.owner \notin WidgetsIn(panel[l])
      BY DEF Cleared, Refilled
    <3>2. PICK k \in PopoverLayers : e.owner \in WidgetsIn(panel[k])
      BY <1>1, <3>1 DEF Owners
    <3>3. panel'[k] = panel[k]
      BY <1>4, <1>5, <3>1, <3>2
    <3> QED
      BY <1>1, <3>1, <3>2, <3>3 DEF Owners
  <2>2. Ordered(hostLocal')
    BY <1>3 DEF Refilled
  <2> QED
    BY <1>2, <2>1, <2>2 DEF Owners
<1>14. Popovers'
  <2>1. hostLocal' = st.locals
    BY DEF Refilled
  <2>2. /\ OverlayLayer \in Rebuilt => Keys(hostLocal) \subseteq Up(panel[OverlayLayer])
        /\ health # "failed" /\ ~op.marker /\ ~op.recovering /\ OverlayLayer \notin lost
              => Keys(hostLocal) \subseteq Up(Old[OverlayLayer])
        /\ faults = 0 => /\ Up(panel[OverlayLayer]) \subseteq Keys(hostLocal)
                         /\ ~op.marker /\ ~op.recovering
    BY <1>1 DEF Popovers
  <2>3. /\ Keys(hostLocal) \subseteq Up(panel[OverlayLayer]) => Keys(st.locals) \subseteq Up(st.children)
        /\ failing = {} /\ Up(panel[OverlayLayer]) \subseteq Keys(hostLocal)
              => Up(st.children) \subseteq Keys(st.locals)
        /\ l = OverlayLayer => st.locals = hostLocal /\ st.children = panel[OverlayLayer]
        /\ ToSet(st.locals) \subseteq ToSet(hostLocal)
    BY DEF Cleared
  <2>a. Keys(st.locals) \subseteq Keys(hostLocal)
    BY <2>3 DEF Keys, ToSet
  <2>4. CASE l = OverlayLayer
    <3>1. hostLocal' = hostLocal /\ panel'[OverlayLayer] = new
      BY <1>5, <2>1, <2>3, <2>4
    <3>2. OverlayLayer \in Rebuilt' => Up(new) = Keys(hostLocal) /\ op'.previous[OverlayLayer] = Old[OverlayLayer]
      BY <2>4 DEF Refilled
    <3>3. OverlayLayer \notin Rebuilt' =>
            op'.marker \/ OverlayLayer \in lost' \/ new = Old[OverlayLayer]
      BY <2>4 DEF Refilled
    <3>4. Old'[OverlayLayer] = IF OverlayLayer \in Rebuilt' THEN op'.previous[OverlayLayer] ELSE new
      BY <1>4, <3>1 DEF Old
    <3>5. ~op'.marker /\ OverlayLayer \notin lost' => Old'[OverlayLayer] = Old[OverlayLayer]
      BY <3>2, <3>3, <3>4
    <3>6. faults' = 0 => pc' = "layers" /\ ~op'.marker /\ ~op'.recovering
      BY <1>2, <2>2 DEF LayersOnly
    <3> QED
      BY <1>2, <2>2, <2>4, <3>1, <3>2, <3>5, <3>6 DEF Popovers
  <2>5. CASE l # OverlayLayer
    <3>1. panel'[OverlayLayer] = st.children
      BY <1>5, <2>5
    <3>2. /\ OverlayLayer \in Rebuilt' <=> OverlayLayer \in Rebuilt
          /\ op'.previous[OverlayLayer] = op.previous[OverlayLayer]
      BY <1>4, <2>5 DEF Refilled
    <3>3. /\ Old'[OverlayLayer] = IF OverlayLayer \in Rebuilt THEN op.previous[OverlayLayer] ELSE st.children
          /\ Old[OverlayLayer] = IF OverlayLayer \in Rebuilt THEN op.previous[OverlayLayer]
                                 ELSE panel[OverlayLayer]
      BY <1>4, <3>1, <3>2 DEF Old
    <3>4. OverlayLayer \in Rebuilt' => Keys(hostLocal') \subseteq Up(panel'[OverlayLayer])
      BY <2>1, <2>2, <2>3, <3>1, <3>2
    <3>5. health' # "failed" /\ ~op'.marker /\ ~op'.recovering /\ OverlayLayer \notin lost'
             => Keys(hostLocal') \subseteq Up(Old'[OverlayLayer])
      BY <1>2, <2>1, <2>2, <2>3, <2>a, <3>3
    <3>6. faults' = 0 => Up(panel'[OverlayLayer]) \subseteq Keys(hostLocal')
      BY <2>1, <2>2, <2>3, <3>1
    <3>7. faults' = 0 => pc' = "layers" /\ ~op'.marker /\ ~op'.recovering
      BY <1>2, <2>2 DEF LayersOnly
    <3> QED
      BY <3>4, <3>5, <3>6, <3>7 DEF Popovers
  <2> QED
    BY <2>4, <2>5
<1>15. PlanOK'
  <2>1. Target' = Target
    BY <1>2 DEF Target
  <2>2. Len(LayerOrder) \in Nat
    BY LayerFacts
  <2> QED
    BY <1>1, <1>2, <2>1, <2>2 DEF PlanOK, LayersOnly
<1>16. InUse' = InUse /\ InPlan' = InPlan /\ Written' = DOMAIN op.plan /\ Written = DOMAIN op.plan
  BY <1>2 DEF InUse, InPlan, Written
<1>17. Books'
  BY <1>1, <1>2, <1>16 DEF Books, Injective
<1>18. Fields'
  BY <1>1, <1>2, <1>16 DEF Fields, Committed, Whole
<1>19. Input'
  <2>1. ~op'.marker /\ ModalLayer \notin lost'
          => Documented(Old'[ModalLayer]) = Documented(Old[ModalLayer])
    BY <1>4, <1>9
  <2>2. CASE ~(health' # "failed" /\ ~op'.marker /\ ~op'.recovering /\ ModalLayer \notin lost')
    BY <2>2 DEF Input
  <2>3. CASE health' # "failed" /\ ~op'.marker /\ ~op'.recovering /\ ModalLayer \notin lost'
    <3> DEFINE modals == Documented(Old[ModalLayer])
    <3>1. /\ \A k \in Layers : layerOn[k] = (modals = <<>> \/ k = ModalLayer)
          /\ \A n \in DOMAIN modals : widgetOn[modals[n].id] = (n = Len(modals))
      BY <1>1, <1>2, <2>3 DEF Input
    <3>2. Documented(Old[ModalLayer])' = modals
      BY <2>1, <2>3
    <3> HIDE DEF modals
    <3> QED
      BY <1>2, <3>1, <3>2 DEF Input
  <2> QED
    BY <2>2, <2>3
<1>20. Before'
  <2>1. Resting' = Resting
    <3>1. \A w : EntryOf(w)' = EntryOf(w)
      BY <1>2 DEF EntryOf
    <3> QED
      BY <1>2, <1>16, <3>1 DEF Resting
  <2>2. CASE ~(~op'.marker /\ ~op'.recovering)
    BY <2>2 DEF Before
  <2>3. CASE ~op'.marker /\ ~op'.recovering
    <3>1. \A k \in Layers \ lost' : op.before[k] = Picture(Old[k], Resting)
      BY <1>1, <1>2, <2>3 DEF Before
    <3>2. \A k \in Layers \ lost' : Picture(Old[k], Resting)' = Picture(Old[k], Resting)
      BY <1>2, <1>9, <2>1, <2>3 DEF Picture, Look
    <3> QED
      BY <1>2, <3>1, <3>2 DEF Before
  <2> QED
    BY <2>2, <2>3
<1> QED
  BY <1>6, <1>12, <1>13, <1>14, <1>15, <1>17, <1>18, <1>19, <1>20 DEF IInv

LEMMA OpReturns ==
    ASSUME Shaped(op), NEW i, NEW l \in Layers, NEW old, op.previous \in [Layers -> Seq(Children)],
           old \in Seq(Children), NEW dropped,
           op' = [op EXCEPT !.i = i, !.previous[l] = old, !.dropped = dropped]
    PROVE  /\ Shaped(op)' /\ op'.i = i /\ op'.marker = op.marker
           /\ op'.doc = op.doc /\ op'.plan = op.plan
           /\ op'.previous \in [Layers -> Seq(Children)] /\ op'.previous[l] = old
           /\ \A k \in Layers \ {l} : op'.previous[k] = op.previous[k]
           /\ op'.recovering = op.recovering /\ op'.before = op.before /\ op'.dropped = dropped
<1>1. op' = [op EXCEPT !.i = i, !.previous = [op.previous EXCEPT ![l] = old],
                       !.dropped = dropped]
  BY DEF Shaped
<1>2. op'.previous = [op.previous EXCEPT ![l] = old]
  BY <1>1 DEF Shaped
<1>3. op'.previous \in [Layers -> Seq(Children)] /\ op'.previous[l] = old
      /\ \A k \in Layers \ {l} : op'.previous[k] = op.previous[k]
  BY <1>2
<1>4. /\ Shaped(op)' /\ op'.i = i /\ op'.marker = op.marker
      /\ op'.doc = op.doc /\ op'.plan = op.plan
      /\ op'.recovering = op.recovering /\ op'.before = op.before /\ op'.dropped = dropped
  BY <1>1 DEF Shaped
<1> QED
  BY <1>3, <1>4

\* The layers below the one at op.i, and those up to it.
LEMMA LayersBelow ==
    ASSUME NEW i \in 1 .. Len(LayerOrder)
    PROVE  /\ LayerOrder[i] \in Layers
           /\ LayerOrder[i] \notin {LayerOrder[j] : j \in 1 .. (i - 1)}
           /\ {LayerOrder[j] : j \in 1 .. i} = {LayerOrder[j] : j \in 1 .. (i - 1)} \cup {LayerOrder[i]}
           /\ 1 .. ((i + 1) - 1) = 1 .. i
<1>1. LayerOrder[i] \in Layers
  BY LayerFacts
<1>2. Len(LayerOrder) \in Nat
  BY LayerFacts
<1>3. ASSUME NEW j \in 1 .. (i - 1) PROVE LayerOrder[j] # LayerOrder[i]
  BY <1>2, LayerFacts
<1>4. 1 .. i = 1 .. (i - 1) \cup {i}
  BY <1>2
<1>5. 1 .. ((i + 1) - 1) = 1 .. i
  BY <1>2
<1> QED
  BY <1>1, <1>3, <1>4, <1>5

LEMMA CommitLayerKeeps ==
    ASSUME IInv, CommitLayer
    PROVE  IInv'
<1> DEFINE l == LayerOrder[op.i]
           parts == Participants(l, PlanChildren(op.plan, l), hostLocal)
<1>1. Typed /\ PlanOK /\ Panels /\ Owners
  BY DEF IInv
<1>2. /\ pc = "layers" /\ pc' = pc /\ op.i \in 1 .. Len(LayerOrder) /\ op.i \in Nat
      /\ Len(LayerOrder) \in Nat /\ DOMAIN LayerOrder = 1 .. Len(LayerOrder)
      /\ Shaped(op) /\ op.marker \in BOOLEAN /\ ~op.marker /\ faults \in Nat
      /\ op.plan \in Seq(Entries) /\ hostLocal \in Seq(Locals) /\ Ordered(hostLocal)
      /\ op.previous \in [Layers -> Seq(Children)] /\ panel \in [Layers -> Seq(Children)]
  BY <1>1, LayerFacts DEF CommitLayer, Typed, PlanOK, Owners
<1>3. l \in Layers
  BY <1>2, LayersBelow
<1>4. PICK failing \in MayFail(PopoversOf(WidgetsIn(panel[l]))) :
        /\ Fails("attach", Cardinality(failing))
        /\ faults' = faults + Cardinality(failing)
        /\ hostLocal' = AfterClearing(l, failing).locals
        /\ panel' = [panel EXCEPT ![OverlayLayer] = AfterClearing(l, failing).children, ![l] = parts]
        /\ op' = [op EXCEPT !.i = op.i + 1, !.previous[l] = panel[l],
                            !.dropped = op.dropped \/ Documented(AfterClearing(l, failing).children)
                                                       # Documented(panel[OverlayLayer])]
  BY DEF CommitLayer, Spend
<1> DEFINE st == AfterClearing(l, failing)
           dropped == op.dropped \/ Documented(st.children) # Documented(panel[OverlayLayer])
<1>5. Rebuilt = {LayerOrder[j] : j \in 1 .. (op.i - 1)}
  BY <1>2 DEF Rebuilt, RebuiltPlaces
<1>6. l \notin Rebuilt
  BY <1>2, <1>5, LayersBelow
<1>8. Cleared(l, failing, st)
  BY <1>2, <1>3, ClearingFacts
<1>7. /\ dropped \in BOOLEAN
      /\ ~dropped => ~op.dropped /\ Documented(st.children) = Documented(panel[OverlayLayer])
      /\ op.recovering => ~dropped
  <2>1. op.dropped \in BOOLEAN /\ (op.recovering => ~op.dropped)
    BY <1>1 DEF Typed, Panels
  <2> QED
    BY <1>6, <1>8, <2>1 DEF Cleared
<1> HIDE DEF l, st, dropped
<1>9. /\ Shaped(op)' /\ op'.i = op.i + 1 /\ op'.marker = op.marker
      /\ op'.doc = op.doc /\ op'.plan = op.plan
      /\ op'.previous \in [Layers -> Seq(Children)] /\ op'.previous[l] = panel[l]
      /\ \A k \in Layers \ {l} : op'.previous[k] = op.previous[k]
      /\ op'.recovering = op.recovering /\ op'.before = op.before /\ op'.dropped = dropped
  <2>1. panel[l] \in Seq(Children)
    BY <1>2, <1>3
  <2>2. op' = [op EXCEPT !.i = op.i + 1, !.previous[l] = panel[l], !.dropped = dropped]
    BY <1>4 DEF dropped, st
  <2> QED
    BY <1>2, <1>3, <2>1, <2>2, OpReturns
<1>10. Rebuilt' = Rebuilt \cup {l}
  <2>1. Rebuilt' = {LayerOrder[j] : j \in 1 .. ((op.i + 1) - 1)}
    BY <1>2, <1>9 DEF Rebuilt, RebuiltPlaces
  <2>2. 1 .. ((op.i + 1) - 1) = 1 .. op.i
    BY <1>2
  <2>3. Rebuilt' = {LayerOrder[j] : j \in 1 .. op.i}
    BY <2>1, <2>2
  <2>4. {LayerOrder[j] : j \in 1 .. op.i} = {LayerOrder[j] : j \in 1 .. (op.i - 1)} \cup {LayerOrder[op.i]}
    BY <1>2, LayersBelow
  <2> QED
    BY <1>5, <2>3, <2>4 DEF l
<1>11. Old[l] = panel[l]
  BY <1>3, <1>6 DEF Old
<1>12. /\ parts \in Seq(Children) /\ OnTop(parts)
       /\ Documented(parts) = PlanChildren(op.plan, l)
       /\ l = OverlayLayer => Up(parts) = Keys(hostLocal)
  <2> DEFINE docs == PlanChildren(op.plan, l)
  <2>1. docs \in Seq(Children) /\ \A n \in DOMAIN docs : IsScreen(docs[n])
    BY <1>2, PlanChildrenFacts
  <2> HIDE DEF docs
  <2>2. /\ Participants(l, docs, hostLocal) \in Seq(Children)
        /\ OnTop(Participants(l, docs, hostLocal))
        /\ Documented(Participants(l, docs, hostLocal)) = docs
        /\ Up(Participants(l, docs, hostLocal)) = IF l = OverlayLayer THEN Keys(hostLocal) ELSE {}
    BY <1>2, <2>1, ParticipantsFacts
  <2> QED
    BY <2>2 DEF docs
<1> HIDE DEF parts
<1>13. Refilled(l, st, parts)
  <2>1. panel' = [panel EXCEPT ![OverlayLayer] = st.children, ![l] = parts] /\ hostLocal' = st.locals
    BY <1>4 DEF st
  <2> QED
    BY <1>2, <1>7, <1>9, <1>10, <1>11, <1>12, <2>1 DEF Refilled
<1>14. LayersOnly
  <2>1. /\ UNCHANGED <<active, screenOf, host, layerOn, widgetOn, nextKey, lastDoc, health>>
        /\ lost' = lost /\ lost \subseteq Layers
    BY <1>1 DEF CommitLayer, Typed
  <2>2. op'.i \in 1 .. (Len(LayerOrder) + 1) /\ op'.i \in Nat
    BY <1>2, <1>9
  <2> QED
    BY <1>2, <1>7, <1>9, <2>1, <2>2 DEF LayersOnly
<1>15. Cardinality(failing) \in Nat /\ (Cardinality(failing) = 0 => failing = {})
  <2> DEFINE q == PopoversOf(WidgetsIn(panel[l]))
  <2>1. q \in Seq(1 .. MaxPopovers)
    BY <1>2, PopoversFacts
  <2>2. failing \subseteq ToSet(q)
    BY DEF MayFail, l
  <2> HIDE DEF q
  <2>3. failing \subseteq 1 .. MaxPopovers
    <3>1. DOMAIN q = 1 .. Len(q) /\ \A n \in 1 .. Len(q) : q[n] \in 1 .. MaxPopovers
      BY ONLY <2>1, InSeq
    <3> QED
      BY <2>2, <3>1 DEF ToSet
  <2>4. IsFiniteSet(1 .. MaxPopovers)
    BY Numbers, FS_Interval
  <2>5. IsFiniteSet(failing)
    BY <2>3, <2>4, FS_Subset
  <2> QED
    BY <2>5, FS_CardinalityType, FS_EmptySet
<1>16. faults' \in Nat /\ (faults' = 0 => faults = 0 /\ failing = {})
  BY <1>2, <1>4, <1>15
<1>17. l \in Rebuilt' /\ pc' = "layers"
  BY <1>2, <1>10
<1> QED
  BY <1>3, <1>8, <1>13, <1>14, <1>16, <1>17, LayerStep

LEMMA CommitLayerFailsKeeps ==
    ASSUME IInv, CommitLayerFails
    PROVE  IInv'
<1> DEFINE l == LayerOrder[op.i]
           st == AfterClearing(l, {})
<1>1. Typed /\ PlanOK /\ Panels /\ Owners
  BY DEF IInv
<1>2. /\ pc = "layers" /\ pc' = "undoLayers" /\ op.i \in 1 .. Len(LayerOrder) /\ op.i \in Nat
      /\ Len(LayerOrder) \in Nat /\ DOMAIN LayerOrder = 1 .. Len(LayerOrder)
      /\ Shaped(op) /\ op.marker \in BOOLEAN /\ ~op.marker /\ faults \in Nat
      /\ op.previous \in [Layers -> Seq(Children)] /\ panel \in [Layers -> Seq(Children)]
  BY <1>1, LayerFacts DEF CommitLayerFails, Typed, PlanOK
<1>3. l \in Layers
  BY <1>2, LayersBelow
<1>4. /\ faults' \in Nat /\ faults' # 0
      /\ hostLocal' = st.locals
      /\ op' = [op EXCEPT !.i = op.i - 1]
      /\ \/ /\ panel' = [panel EXCEPT ![OverlayLayer] = st.children, ![l] = panel[l]]
            /\ lost' = lost
         \/ \E n \in DOMAIN panel[l] :
              /\ panel' = [panel EXCEPT ![OverlayLayer] = st.children,
                                        ![l] = Without(panel[l], n)]
              /\ lost' = lost \cup {l}
  <2>1. PICK back \in PutBack(panel[l]) :
          /\ Spend(1 + back.cost)
          /\ hostLocal' = st.locals
          /\ panel' = [panel EXCEPT ![OverlayLayer] = st.children, ![l] = back.children]
          /\ lost' = IF back.cost = 0 THEN lost ELSE lost \cup {l}
    BY DEF CommitLayerFails
  <2>2. \/ back = [children |-> panel[l], cost |-> 0]
        \/ \E n \in DOMAIN panel[l] : back = [children |-> Without(panel[l], n), cost |-> 1]
    BY DEF PutBack
  <2>3. op' = [op EXCEPT !.i = op.i - 1]
    BY DEF CommitLayerFails
  <2> HIDE DEF l, st
  <2>4. CASE back = [children |-> panel[l], cost |-> 0]
    <3>1. back.children = panel[l] /\ back.cost = 0
      BY <2>4
    <3>2. faults' = faults + (1 + 0)
      BY <2>1, <3>1 DEF Spend
    <3> QED
      BY <1>2, <2>1, <2>3, <3>1, <3>2
  <2>5. CASE \E n \in DOMAIN panel[l] : back = [children |-> Without(panel[l], n), cost |-> 1]
    <3>1. PICK n \in DOMAIN panel[l] : back = [children |-> Without(panel[l], n), cost |-> 1]
      BY <2>5
    <3>2. back.children = Without(panel[l], n) /\ back.cost = 1
      BY <3>1
    <3>3. faults' = faults + (1 + 1)
      BY <2>1, <3>2 DEF Spend
    <3>4. /\ lost' = lost \cup {l}
          /\ panel' = [panel EXCEPT ![OverlayLayer] = st.children, ![l] = Without(panel[l], n)]
      BY <2>1, <3>2
    <3>5. faults' \in Nat /\ faults' # 0
      BY <1>2, <3>3
    <3> QED
      BY <2>1, <2>3, <3>4, <3>5
  <2> QED
    BY <2>2, <2>4, <2>5
<1>5. Rebuilt = {LayerOrder[j] : j \in 1 .. (op.i - 1)}
  BY <1>2 DEF Rebuilt, RebuiltPlaces
<1>6. l \notin Rebuilt
  BY <1>2, <1>5, LayersBelow
<1>8. Cleared(l, {}, st)
  BY <1>2, <1>3, ClearingFacts
<1> HIDE DEF l, st
<1>9. /\ Shaped(op)' /\ op'.i = op.i - 1 /\ op'.marker = op.marker
      /\ op'.doc = op.doc /\ op'.plan = op.plan /\ op'.previous = op.previous
      /\ op'.recovering = op.recovering /\ op'.before = op.before /\ op'.dropped = op.dropped
  BY <1>2, <1>4, OpSteps
<1>10. Rebuilt' = Rebuilt
  BY <1>2, <1>5, <1>9 DEF Rebuilt, RebuiltPlaces
<1>11. Old[l] = panel[l] /\ panel[l] \in Seq(Children) /\ OnTop(panel[l])
  BY <1>1, <1>2, <1>3, <1>6 DEF Old, Panels
<1>12. lost \subseteq lost' /\ lost' \subseteq Layers
  BY <1>1, <1>3, <1>4 DEF Typed
<1>13. LayersOnly
  <2>1. UNCHANGED <<active, screenOf, host, layerOn, widgetOn, nextKey, lastDoc, health>>
    BY DEF CommitLayerFails
  <2>2. op'.i \in 0 .. Len(LayerOrder) /\ op'.i \in Nat
    BY <1>2, <1>9
  <2>3. op.dropped \in BOOLEAN /\ (op.recovering => ~op.dropped)
    BY <1>1 DEF Typed, Panels
  <2> QED
    BY <1>2, <1>9, <1>12, <2>1, <2>2, <2>3 DEF LayersOnly
<1>14. CASE /\ panel' = [panel EXCEPT ![OverlayLayer] = st.children, ![l] = panel[l]]
            /\ lost' = lost
  <2>1. Refilled(l, st, panel[l])
    BY <1>2, <1>4, <1>6, <1>9, <1>10, <1>11, <1>14 DEF Refilled
  <2> QED
    BY <1>3, <1>4, <1>8, <1>13, <2>1, LayerStep
<1>15. ASSUME NEW n \in DOMAIN panel[l],
              panel' = [panel EXCEPT ![OverlayLayer] = st.children, ![l] = Without(panel[l], n)],
              lost' = lost \cup {l}
       PROVE  IInv'
  <2>1. /\ Without(panel[l], n) \in Seq(Children) /\ OnTop(Without(panel[l], n))
        /\ WidgetsIn(Without(panel[l], n)) \subseteq WidgetsIn(panel[l])
    BY <1>11, WithoutFacts
  <2>2. Refilled(l, st, Without(panel[l], n))
    BY <1>2, <1>4, <1>6, <1>9, <1>10, <1>11, <1>15, <2>1 DEF Refilled
  <2> QED
    BY <1>3, <1>4, <1>8, <1>13, <2>2, LayerStep
<1> QED
  BY <1>4, <1>14, <1>15

LEMMA RestoreLayerKeeps ==
    ASSUME IInv, RestoreLayer
    PROVE  IInv'
<1>1. Typed /\ PlanOK /\ Panels /\ Owners /\ Popovers
  BY DEF IInv
<1>2. /\ pc = "undoLayers" /\ op.i \in 0 .. Len(LayerOrder) /\ op.i \in Nat
      /\ Len(LayerOrder) \in Nat /\ DOMAIN LayerOrder = 1 .. Len(LayerOrder)
      /\ Shaped(op) /\ op.marker \in BOOLEAN /\ faults \in Nat
      /\ op.previous \in [Layers -> Seq(Children)] /\ panel \in [Layers -> Seq(Children)]
      /\ faults # 0
      /\ UNCHANGED <<active, screenOf, host, layerOn, widgetOn, nextKey, lastDoc, health>>
      /\ lost' = lost /\ lost \subseteq Layers
      /\ op.dropped \in BOOLEAN /\ (op.recovering => ~op.dropped)
  BY <1>1, LayerFacts DEF RestoreLayer, Typed, PlanOK, Popovers, Panels
<1>3. Rebuilt = {LayerOrder[j] : j \in 1 .. op.i}
  BY <1>2 DEF Rebuilt, RebuiltPlaces
<1>4. CASE op.i = 0
  <2>1. pc' = "undoScreens" /\ op' = [op EXCEPT !.i = Len(op.plan)] /\ UNCHANGED <<panel, hostLocal, faults>>
    BY <1>4 DEF RestoreLayer
  <2>2. Len(op.plan) \in Nat /\ DOMAIN op.plan = 1 .. Len(op.plan)
    BY <1>1, EntryFacts DEF Typed
  <2>3. /\ Shaped(op)' /\ op'.i = Len(op.plan) /\ op'.marker = op.marker
        /\ op'.doc = op.doc /\ op'.plan = op.plan /\ op'.previous = op.previous
        /\ op'.recovering = op.recovering /\ op'.before = op.before
        /\ op'.dropped = op.dropped
    BY <1>2, <2>1, OpSteps
  <2>4. Rebuilt = {} /\ Rebuilt' = {}
    <3>1. 1 .. 0 = {}
      OBVIOUS
    <3> QED
      BY <1>2, <1>3, <1>4, <2>1, <3>1 DEF Rebuilt, RebuiltPlaces
  <2>5. Typed'
    BY <1>1, <1>2, <2>1, <2>2, <2>3 DEF Typed
  <2>6. FieldsOnly
    BY <1>2, <2>1, <2>3, <2>4 DEF FieldsOnly
  <2>7. Books' /\ Panels' /\ Owners' /\ Popovers' /\ Input' /\ Before'
    BY <1>2, <2>1, <2>5, <2>6, FieldsOnlyKeeps
  <2>8. Written' = Written /\ InUse' = InUse /\ InPlan' = InPlan
    BY <1>2, <2>1, <2>2, <2>3 DEF Written, InUse, InPlan
  <2>9. PlanOK'
    <3>1. Target' = Target
      BY <1>2, <2>3 DEF Target
    <3>2. pc # "idle" /\ pc' = "undoScreens" /\ op'.i \in 0 .. Len(op.plan)
      BY <1>2, <2>1, <2>2, <2>3
    <3>3. screenOf' = screenOf /\ active' = active
      BY <1>2
    <3> QED
      BY <1>1, <2>3, <3>1, <3>2, <3>3 DEF PlanOK
  <2>10. Fields'
    <3>1. Fields
      BY DEF IInv
    <3> QED
      BY <1>2, <2>3, <2>8, <3>1 DEF Fields, Committed, Whole
  <2> QED
    BY <2>5, <2>7, <2>9, <2>10 DEF IInv
<1>5. CASE op.i # 0
  <2> DEFINE l == LayerOrder[op.i]
             st == AfterClearing(l, {})
             old == op.previous[l]
  <2>1. op.i \in 1 .. Len(LayerOrder)
    BY <1>2, <1>5
  <2>2. l \in Layers /\ l \in Rebuilt
    BY <1>3, <2>1, LayersBelow
  <2>3. /\ hostLocal' = st.locals /\ pc' = pc
        /\ \/ /\ panel' = [panel EXCEPT ![OverlayLayer] = st.children, ![l] = old]
              /\ op' = [op EXCEPT !.i = op.i - 1]
              /\ faults' = faults
           \/ \E n \in DOMAIN old :
                /\ faults' = faults + 1
                /\ panel' = [panel EXCEPT ![OverlayLayer] = st.children, ![l] = Without(old, n)]
                /\ op' = [op EXCEPT !.i = op.i - 1, !.marker = TRUE]
    BY <1>5 DEF RestoreLayer, Spend
  <2>5. Cleared(l, {}, st)
    BY <1>2, <2>2, ClearingFacts
  <2>6. Rebuilt = {LayerOrder[j] : j \in 1 .. (op.i - 1)} \cup {l}
    BY <1>3, <2>1, LayersBelow
  <2>7. l \notin {LayerOrder[j] : j \in 1 .. (op.i - 1)}
    BY <2>1, LayersBelow
  <2> HIDE DEF l, st, old
  <2>8. Old[l] = old /\ OnTop(old) /\ old \in Seq(Children)
    BY <1>1, <1>2, <2>2 DEF Old, Panels, old
  <2>9. op.i - 1 \in 0 .. Len(LayerOrder) /\ op.i - 1 \in Nat
    BY <1>2, <2>1
  <2>10. ASSUME /\ panel' = [panel EXCEPT ![OverlayLayer] = st.children, ![l] = old]
                /\ op' = [op EXCEPT !.i = op.i - 1]
                /\ faults' = faults
         PROVE  IInv'
    <3>1. /\ Shaped(op)' /\ op'.i = op.i - 1 /\ op'.marker = op.marker
          /\ op'.doc = op.doc /\ op'.plan = op.plan /\ op'.previous = op.previous
          /\ op'.recovering = op.recovering /\ op'.before = op.before
          /\ op'.dropped = op.dropped
      BY <1>2, <2>10, OpSteps
    <3>2. Rebuilt' = {LayerOrder[j] : j \in 1 .. (op.i - 1)}
      BY <1>2, <2>3, <3>1 DEF Rebuilt, RebuiltPlaces
    <3>3. Refilled(l, st, old)
      BY <1>2, <2>3, <2>6, <2>7, <2>8, <2>10, <3>1, <3>2 DEF Refilled
    <3>4. LayersOnly
      BY <1>2, <2>3, <2>9, <3>1 DEF LayersOnly
    <3> QED
      BY <1>2, <2>2, <2>5, <2>10, <3>3, <3>4, LayerStep
  <2>11. ASSUME NEW n \in DOMAIN old,
                faults' = faults + 1,
                panel' = [panel EXCEPT ![OverlayLayer] = st.children, ![l] = Without(old, n)],
                op' = [op EXCEPT !.i = op.i - 1, !.marker = TRUE]
         PROVE  IInv'
    <3>1. /\ Shaped(op)' /\ op'.i = op.i - 1 /\ op'.marker = TRUE
          /\ op'.doc = op.doc /\ op'.plan = op.plan /\ op'.previous = op.previous
          /\ op'.recovering = op.recovering /\ op'.before = op.before
          /\ op'.dropped = op.dropped
      BY <1>2, <2>11, OpMoves
    <3>2. Rebuilt' = {LayerOrder[j] : j \in 1 .. (op.i - 1)}
      BY <1>2, <2>3, <3>1 DEF Rebuilt, RebuiltPlaces
    <3>3. /\ Without(old, n) \in Seq(Children) /\ OnTop(Without(old, n))
          /\ WidgetsIn(Without(old, n)) \subseteq WidgetsIn(old)
      BY <2>8, WithoutFacts
    <3>4. Refilled(l, st, Without(old, n))
      BY <1>2, <2>3, <2>6, <2>7, <2>8, <2>11, <3>1, <3>2, <3>3 DEF Refilled
    <3>5. op'.marker \in BOOLEAN
      BY <2>11, <1>2 DEF Shaped
    <3>6. LayersOnly
      BY <1>2, <2>3, <2>9, <3>1, <3>5 DEF LayersOnly
    <3>7. faults' \in Nat /\ faults' # 0
      BY <1>2, <2>11
    <3> QED
      BY <2>2, <2>5, <3>4, <3>6, <3>7, LayerStep
  <2> QED
    BY <2>3, <2>10, <2>11
<1> QED
  BY <1>4, <1>5

PictureWith(children, hosts, screens) ==
    LET docs == Documented(children)
    IN  [n \in DOMAIN docs |-> [screen |-> screens[docs[n].id],
                                fields |-> [h \in Hosts |-> hosts[docs[n].id][h].shown]]]

LEMMA SamePicture ==
    ASSUME NEW children \in Seq(Children), NEW hosts, NEW hosts2, NEW screens, NEW screens2,
           \A w \in WidgetsIn(children) : hosts2[w] = hosts[w] /\ screens2[w] = screens[w]
    PROVE  PictureWith(children, hosts2, screens2) = PictureWith(children, hosts, screens)
<1> DEFINE docs == Documented(children)
<1>1. \A n \in DOMAIN docs : docs[n].id \in WidgetsIn(children)
  BY DocumentedFacts
<1> HIDE DEF docs
<1>2. \A n \in DOMAIN docs :
        [screen |-> screens2[docs[n].id], fields |-> [h \in Hosts |-> hosts2[docs[n].id][h].shown]]
        = [screen |-> screens[docs[n].id], fields |-> [h \in Hosts |-> hosts[docs[n].id][h].shown]]
  BY <1>1
<1>3. [n \in DOMAIN docs |-> [screen |-> screens2[docs[n].id],
                              fields |-> [h \in Hosts |-> hosts2[docs[n].id][h].shown]]]
      = [n \in DOMAIN docs |-> [screen |-> screens[docs[n].id],
                                fields |-> [h \in Hosts |-> hosts[docs[n].id][h].shown]]]
  BY <1>2
<1> QED
  BY <1>3 DEF PictureWith, docs

LEMMA ShownIs == Shown = [l \in Layers |-> PictureWith(panel[l], host, screenOf)]
  BY DEF Shown, PictureWith, Look

LEMMA ShownIsNext == Shown' = [l \in Layers |-> PictureWith(panel'[l], host', screenOf')]
<1>1. (Shown = [l \in Layers |-> PictureWith(panel[l], host, screenOf)])'
  BY ShownIs, PTL
<1> QED
  BY <1>1

\* The screens that hang in these panels look as they did.
LEMMA ShownSame ==
    ASSUME NEW old \in [Layers -> Seq(Children)], NEW these, these \subseteq Layers,
           \A l \in these : Documented(panel'[l]) = Documented(old[l]),
           \A l \in these : \A w \in WidgetsIn(old[l]) : host'[w] = host[w] /\ screenOf'[w] = screenOf[w]
    PROVE  \A l \in these : Shown'[l] = PictureWith(old[l], host, screenOf)
<1>1. ASSUME NEW l \in these
      PROVE  PictureWith(panel'[l], host', screenOf') = PictureWith(old[l], host, screenOf)
  <2> DEFINE children == old[l]
             h1 == host
             h2 == host'
             s1 == screenOf
             s2 == screenOf'
  <2>1. children \in Seq(Children) /\ \A w \in WidgetsIn(children) : h2[w] = h1[w] /\ s2[w] = s1[w]
    OBVIOUS
  <2>2. PictureWith(panel'[l], h2, s2) = PictureWith(children, h2, s2)
    BY DEF PictureWith
  <2> HIDE DEF children, h1, h2, s1, s2
  <2>3. PictureWith(children, h2, s2) = PictureWith(children, h1, s1)
    BY <2>1, SamePicture
  <2> QED
    BY <2>2, <2>3 DEF children, h1, h2, s1, s2
<1> QED
  BY <1>1, ShownIsNext

LEMMA TeardownKeeps ==
    ASSUME IInv, Teardown
    PROVE  IInv'
<1>1. Fresh'
  BY IdleHasNoPlan DEF Teardown, Fresh, IInv, Typed
<1>2. Fresh => IInv
  BY FreshInvariant
<1>3. (Fresh => IInv)'
  BY FreshInvariant, PTL
<1> QED
  BY <1>1, <1>3

LEMMA SameScreen ==
    ASSUME IInv, UNCHANGED <<panel, active, screenOf, host, layerOn, widgetOn, hostLocal,
                             nextKey, lastDoc, health, lost, pc, op>>,
           faults' \in Nat, faults' = 0 => faults = 0
    PROVE  IInv'
<1>1. Typed /\ PlanOK /\ Books /\ Panels /\ Owners /\ Popovers /\ Fields /\ Input /\ Before
  BY DEF IInv
<1>2. /\ panel' = panel /\ active' = active /\ screenOf' = screenOf /\ host' = host
      /\ layerOn' = layerOn /\ widgetOn' = widgetOn /\ hostLocal' = hostLocal
      /\ nextKey' = nextKey /\ lastDoc' = lastDoc /\ health' = health /\ lost' = lost
      /\ pc' = pc /\ op' = op
  OBVIOUS
<1>3. /\ Rebuilt' = Rebuilt /\ Old' = Old /\ Written' = Written /\ InPlan' = InPlan
      /\ InUse' = InUse /\ Target' = Target
  BY <1>2 DEF Rebuilt, RebuiltPlaces, Old, Written, InPlan, InUse, Target
<1>4. Resting' = Resting
  BY <1>2, <1>3 DEF Resting, EntryOf
<1>5. Typed' /\ PlanOK'
  BY <1>1, <1>2, <1>3 DEF Typed, PlanOK, Shaped
<1>6. Books' /\ Panels' /\ Owners' /\ Popovers'
  BY <1>1, <1>2, <1>3 DEF Books, Injective, Panels, Owners, Popovers
<1>7. Fields' /\ Input'
  BY <1>1, <1>2, <1>3 DEF Fields, Input, Whole, Committed
<1>8. Before'
  <2>1. \A l \in Layers : Picture(Old[l], Resting)' = Picture(Old[l], Resting)
    BY <1>2, <1>3, <1>4 DEF Picture, Look
  <2> QED
    BY <1>1, <1>2, <2>1 DEF Before
<1> QED
  BY <1>5, <1>6, <1>7, <1>8 DEF IInv

LEMMA PublishKeeps ==
    ASSUME IInv, Publish
    PROVE  IInv'
<1>1. faults \in Nat
  BY DEF IInv, Typed
<1> QED
  BY <1>1, SameScreen DEF Publish

(***************************************************************************)
(* Popovers open and close between two calls.                              *)
(***************************************************************************)
LEMMA BetweenCalls ==
    ASSUME IInv, pc = "idle"
    PROVE  /\ SoundOverlay(Overlay)
           /\ Overlay.locals = hostLocal /\ Overlay.children = panel[OverlayLayer]
           /\ KnownChildren(panel[OverlayLayer], active) = Documented(panel[OverlayLayer])
<1>1. Typed /\ PlanOK /\ Panels /\ Owners
  BY DEF IInv
<1>2. Old = panel
  BY <1>1, IdleHasNoPlan
<1>3. /\ hostLocal \in Seq(Locals) /\ panel[OverlayLayer] \in Seq(Children)
      /\ OnTop(panel[OverlayLayer]) /\ Ordered(hostLocal)
      /\ WidgetsIn(panel[OverlayLayer]) \subseteq ActiveIn(OverlayLayer, active)
  BY <1>1, <1>2, LayerFacts DEF Typed, Panels, Owners
<1> QED
  BY <1>3, KnownIsDocumented DEF SoundOverlay, Overlay, OverlayStates

LEMMA OverlayStep ==
    ASSUME IInv, pc = "idle", NEW children \in Seq(Children),
           UNCHANGED <<active, screenOf, host, layerOn, widgetOn, lastDoc, health, pc, op>>,
           panel' = [panel EXCEPT ![OverlayLayer] = children],
           OnTop(children), WidgetsIn(children) \subseteq WidgetsIn(panel[OverlayLayer]),
           lost \subseteq lost', lost' \subseteq Layers,
           OverlayLayer \notin lost' =>
                /\ Documented(children) = Documented(panel[OverlayLayer])
                /\ Keys(hostLocal) \subseteq Up(panel[OverlayLayer])
                     => Keys(hostLocal') \subseteq Up(children),
           hostLocal' \in Seq(Locals), Ordered(hostLocal'), nextKey' \in Nat \ {0},
           \A e \in ToSet(hostLocal') : /\ \E l \in PopoverLayers : e.owner \in WidgetsIn(panel[l])
                                        /\ e.key < nextKey',
           faults' \in Nat,
           faults' = 0 => /\ faults = 0
                          /\ Up(panel[OverlayLayer]) \subseteq Keys(hostLocal)
                                => Up(children) \subseteq Keys(hostLocal')
    PROVE  IInv' /\ \A l \in Layers \ lost' : Shown'[l] = Shown[l]
<1>1. Typed /\ PlanOK /\ Books /\ Panels /\ Owners /\ Popovers /\ Fields /\ Input /\ Before
  BY DEF IInv
<1>2. /\ active' = active /\ screenOf' = screenOf /\ host' = host
      /\ layerOn' = layerOn /\ widgetOn' = widgetOn
      /\ lastDoc' = lastDoc /\ health' = health /\ pc' = "idle" /\ op' = op
  OBVIOUS
<1>3. /\ op = NoOp /\ Rebuilt = {} /\ Old = panel /\ InPlan = {} /\ op.marker = FALSE
      /\ op.recovering = FALSE /\ DOMAIN op.plan = {}
  BY <1>1, IdleHasNoPlan
<1>4. /\ panel \in [Layers -> Seq(Children)] /\ OverlayLayer \in Layers /\ ModalLayer \in Layers
      /\ PopoverLayers \subseteq Layers /\ OverlayLayer \notin PopoverLayers
  BY <1>1, LayerFacts DEF Typed
<1>5. /\ panel' \in [Layers -> Seq(Children)] /\ panel'[OverlayLayer] = children
      /\ \A k \in Layers : k # OverlayLayer => panel'[k] = panel[k]
  BY <1>4
<1>6. Rebuilt' = {} /\ InPlan' = {} /\ InUse' = InUse
  BY <1>2, <1>3 DEF Rebuilt, RebuiltPlaces, InPlan, InUse
<1>7. Old' = panel'
  BY <1>5, <1>6 DEF Old
<1>8. Typed' /\ PlanOK'
  BY <1>1, <1>2, <1>3, <1>5 DEF Typed, PlanOK, Shaped
<1>9. Books'
  BY <1>1, <1>2, <1>6 DEF Books, Injective
<1>10. ASSUME NEW k \in Layers
       PROVE  /\ OnTop(panel'[k]) /\ WidgetsIn(panel'[k]) \subseteq WidgetsIn(panel[k])
              /\ k \notin lost' => /\ Documented(panel'[k]) = Documented(panel[k])
                                  /\ WidgetsIn(panel'[k]) = WidgetsIn(panel[k])
  <2>1. CASE k = OverlayLayer
    BY <1>4, <1>5, <2>1, SameDocument
  <2>2. CASE k # OverlayLayer
    BY <1>1, <1>5, <2>2 DEF Panels
  <2> QED
    BY <2>1, <2>2
<1>11. Panels'
  BY <1>1, <1>2, <1>3, <1>6, <1>7, <1>10 DEF Panels
<1>12. Owners'
  BY <1>4, <1>5 DEF Owners
<1>13. Popovers'
  <2>1. /\ health # "failed" /\ OverlayLayer \notin lost
              => Keys(hostLocal) \subseteq Up(panel[OverlayLayer])
        /\ faults = 0 => Up(panel[OverlayLayer]) \subseteq Keys(hostLocal)
    BY <1>1, <1>3 DEF Popovers
  <2> QED
    BY <1>2, <1>3, <1>5, <1>6, <1>7, <2>1 DEF Popovers
<1>14. Fields'
  <2>1. Written' = {} /\ DOMAIN op'.plan = {}
    BY <1>2, <1>3 DEF Written
  <2>2. \A l \in Layers : ActiveIn(l, active') = ActiveIn(l, active)
    BY <1>2
  <2>3. \A w : Whole(w)' <=> Whole(w)
    BY <1>2 DEF Whole
  <2>4. \A l \in Layers \ lost : \A w \in ActiveIn(l, active) : Whole(w)
    BY <1>1, <1>3 DEF Fields
  <2>5. \A l \in Layers \ lost' : \A w \in ActiveIn(l, active') : Whole(w)'
    BY <2>2, <2>3, <2>4
  <2> QED
    BY <2>1, <2>5 DEF Fields
<1>15. Input'
  <2>1. ModalLayer \notin lost' => Documented(Old[ModalLayer])' = Documented(Old[ModalLayer])
    BY <1>3, <1>4, <1>7, <1>10
  <2> QED
    BY <1>1, <1>2, <2>1 DEF Input
<1>16. Before'
  BY <1>2 DEF Before
<1>17. \A l \in Layers \ lost' : Shown'[l] = Shown[l]
  <2>1. \A l \in Layers \ lost' : Shown'[l] = PictureWith(panel[l], host, screenOf)
    <3> DEFINE these == Layers \ lost'
    <3>1. /\ these \subseteq Layers
          /\ \A l \in these : Documented(panel'[l]) = Documented(panel[l])
      BY <1>10
    <3> HIDE DEF these
    <3>2. \A l \in these : Shown'[l] = PictureWith(panel[l], host, screenOf)
      BY <1>2, <1>4, <3>1, ShownSame
    <3> QED
      BY <3>2 DEF these
  <2> QED
    BY <2>1, ShownIs
<1> QED
  BY <1>8, <1>9, <1>11, <1>12, <1>13, <1>14, <1>15, <1>16, <1>17 DEF IInv

LEMMA DetachHostLocalScreenKeeps ==
    ASSUME IInv, NEW key \in 1 .. MaxPopovers, DetachHostLocalScreen(key)
    PROVE  IInv' /\ lost \subseteq lost' /\ \A l \in Layers \ lost' : Shown'[l] = Shown[l]
<1>1. pc = "idle" /\ Owners /\ faults \in Nat /\ nextKey \in Nat \ {0}
  BY DEF DetachHostLocalScreen, IInv, Typed
<1>2. /\ SoundOverlay(Overlay)
      /\ Overlay.locals = hostLocal /\ Overlay.children = panel[OverlayLayer]
  BY <1>1, BetweenCalls
<1>3. \E ok \in BOOLEAN :
        LET st == Detached(Overlay, key, active, ok)
        IN  /\ hostLocal' = st.locals
            /\ \/ /\ faults' = IF ok THEN faults ELSE faults + 1
                  /\ panel' = [panel EXCEPT ![OverlayLayer] = st.children]
                  /\ lost' = lost
               \/ /\ ~ok
                  /\ faults' = faults + 2
                  /\ \E n \in DOMAIN st.children :
                       panel' = [panel EXCEPT ![OverlayLayer] = Without(st.children, n)]
                  /\ lost' = lost \cup {OverlayLayer}
  <2>1. CASE LET st == Detached(Overlay, key, active, TRUE)
             IN  /\ hostLocal' = st.locals
                 /\ panel' = [panel EXCEPT ![OverlayLayer] = st.children]
                 /\ UNCHANGED <<lost, faults>>
    BY <2>1
  <2>2. CASE LET st == Detached(Overlay, key, active, FALSE)
             IN  \E back \in PutBack(st.children) :
                   /\ Spend(1 + back.cost)
                   /\ hostLocal' = st.locals
                   /\ panel' = [panel EXCEPT ![OverlayLayer] = back.children]
                   /\ lost' = IF back.cost = 0 THEN lost ELSE lost \cup {OverlayLayer}
    <3> DEFINE was == Detached(Overlay, key, active, FALSE)
    <3>1. PICK back \in PutBack(was.children) :
            /\ faults' = faults + (1 + back.cost)
            /\ hostLocal' = was.locals
            /\ panel' = [panel EXCEPT ![OverlayLayer] = back.children]
            /\ lost' = IF back.cost = 0 THEN lost ELSE lost \cup {OverlayLayer}
      BY <2>2 DEF Spend
    <3> HIDE DEF was
    <3>2. \/ back = [children |-> was.children, cost |-> 0]
          \/ \E n \in DOMAIN was.children :
                back = [children |-> Without(was.children, n), cost |-> 1]
      BY DEF PutBack
    <3>3. /\ hostLocal' = was.locals
          /\ \/ /\ faults' = faults + 1
                /\ panel' = [panel EXCEPT ![OverlayLayer] = was.children]
                /\ lost' = lost
             \/ /\ faults' = faults + 2
                /\ \E n \in DOMAIN was.children :
                     panel' = [panel EXCEPT ![OverlayLayer] = Without(was.children, n)]
                /\ lost' = lost \cup {OverlayLayer}
      <4>1. CASE back = [children |-> was.children, cost |-> 0]
        <5>1. back.children = was.children /\ back.cost = 0
          BY <4>1
        <5>2. faults' = faults + 1
          BY <1>1, <3>1, <5>1
        <5> QED
          BY <3>1, <5>1, <5>2
      <4>2. CASE \E n \in DOMAIN was.children :
                   back = [children |-> Without(was.children, n), cost |-> 1]
        <5>1. PICK n \in DOMAIN was.children :
                     back = [children |-> Without(was.children, n), cost |-> 1]
          BY <4>2
        <5>2. back.children = Without(was.children, n) /\ back.cost = 1
          BY <5>1
        <5>3. faults' = faults + 2 /\ lost' = lost \cup {OverlayLayer}
          BY <1>1, <3>1, <5>2
        <5> QED
          BY <3>1, <5>2, <5>3
      <4> QED
        BY <3>2, <4>1, <4>2
    <3> QED
      BY <3>3 DEF was
  <2> QED
    BY <2>1, <2>2 DEF DetachHostLocalScreen
<1>a. PICK ok \in BOOLEAN :
        LET st == Detached(Overlay, key, active, ok)
        IN  /\ hostLocal' = st.locals
            /\ \/ /\ faults' = IF ok THEN faults ELSE faults + 1
                  /\ panel' = [panel EXCEPT ![OverlayLayer] = st.children]
                  /\ lost' = lost
               \/ /\ ~ok
                  /\ faults' = faults + 2
                  /\ \E n \in DOMAIN st.children :
                       panel' = [panel EXCEPT ![OverlayLayer] = Without(st.children, n)]
                  /\ lost' = lost \cup {OverlayLayer}
  BY <1>3
<1> DEFINE st == Detached(Overlay, key, active, ok)
<1>4. /\ SoundOverlay(st)
      /\ Keeps(Overlay, st, ok)
      /\ ToSet(st.locals) = {e \in ToSet(hostLocal) : e.key # key}
  BY <1>2, DetachedFacts
<1> HIDE DEF st
<1>5. /\ st.locals \in Seq(Locals) /\ st.children \in Seq(Children)
      /\ OnTop(st.children) /\ Ordered(st.locals)
  BY <1>4 DEF SoundOverlay, OverlayStates
<1>b. WidgetsIn(panel[OverlayLayer]) \subseteq ActiveIn(OverlayLayer, active)
  <2>1. Old = panel
    BY <1>1, IdleHasNoPlan DEF IInv
  <2> QED
    BY <1>1, <2>1, LayerFacts DEF Panels, IInv
<1>6. /\ WidgetsIn(st.children) \subseteq WidgetsIn(panel[OverlayLayer])
      /\ Documented(st.children) = Documented(panel[OverlayLayer])
      /\ Keys(hostLocal) \subseteq Up(panel[OverlayLayer]) => Keys(st.locals) \subseteq Up(st.children)
      /\ ok /\ Up(panel[OverlayLayer]) \subseteq Keys(hostLocal)
            => Up(st.children) \subseteq Keys(st.locals)
  BY <1>2, <1>4, <1>b DEF Keeps
<1>7. /\ hostLocal' = st.locals
      /\ \/ /\ faults' = IF ok THEN faults ELSE faults + 1
            /\ panel' = [panel EXCEPT ![OverlayLayer] = st.children]
            /\ lost' = lost
         \/ /\ ~ok
            /\ faults' = faults + 2
            /\ \E n \in DOMAIN st.children :
                 panel' = [panel EXCEPT ![OverlayLayer] = Without(st.children, n)]
            /\ lost' = lost \cup {OverlayLayer}
  BY <1>a DEF st
<1>8. \A e \in ToSet(hostLocal') : /\ \E l \in PopoverLayers : e.owner \in WidgetsIn(panel[l])
                                   /\ e.key < nextKey
  BY <1>1, <1>4, <1>7 DEF Owners
<1>9. faults' \in Nat /\ (faults' = 0 => faults = 0 /\ ok)
  BY <1>1, <1>7
<1>10. /\ UNCHANGED <<active, screenOf, host, layerOn, widgetOn, lastDoc, health, pc, op>>
       /\ nextKey' = nextKey
  BY DEF DetachHostLocalScreen
<1>11. lost \subseteq lost' /\ lost' \subseteq Layers
  BY <1>7, LayerFacts DEF IInv, Typed
<1>12. CASE panel' = [panel EXCEPT ![OverlayLayer] = st.children]
  BY <1>1, <1>5, <1>6, <1>7, <1>8, <1>9, <1>10, <1>11, <1>12, OverlayStep
<1>13. CASE /\ faults' = faults + 2
            /\ \E n \in DOMAIN st.children :
                 panel' = [panel EXCEPT ![OverlayLayer] = Without(st.children, n)]
            /\ lost' = lost \cup {OverlayLayer}
  <2>1. PICK n \in DOMAIN st.children :
          panel' = [panel EXCEPT ![OverlayLayer] = Without(st.children, n)]
    BY <1>13
  <2> DEFINE children == Without(st.children, n)
  <2>2. /\ children \in Seq(Children) /\ OnTop(children)
        /\ WidgetsIn(children) \subseteq WidgetsIn(st.children)
    BY <1>5, WithoutFacts
  <2>3. faults' # 0 /\ OverlayLayer \in lost' /\ hostLocal' = st.locals
    BY <1>1, <1>7, <1>13
  <2>4. panel' = [panel EXCEPT ![OverlayLayer] = children]
        /\ WidgetsIn(children) \subseteq WidgetsIn(panel[OverlayLayer])
    BY <1>6, <2>1, <2>2
  <2> HIDE DEF children
  <2> QED
    BY <1>1, <1>5, <1>8, <1>9, <1>10, <1>11, <2>2, <2>3, <2>4, OverlayStep
<1> QED
  BY <1>7, <1>12, <1>13

LEMMA AttachHostLocalScreenKeeps ==
    ASSUME IInv, NEW w \in Widgets, AttachHostLocalScreen(w)
    PROVE  IInv' /\ lost \subseteq lost' /\ \A l \in Layers \ lost' : Shown'[l] = Shown[l]
<1> DEFINE locals == Append(hostLocal, [key |-> nextKey, owner |-> w])
           known == KnownChildren(panel[OverlayLayer], active)
           parts == Participants(OverlayLayer, known, locals)
<1>1. /\ pc = "idle" /\ Owners /\ Panels /\ faults \in Nat /\ nextKey \in Nat \ {0}
      /\ nextKey <= MaxPopovers /\ nextKey' = nextKey + 1
      /\ hostLocal \in Seq(Locals) /\ panel \in [Layers -> Seq(Children)]
      /\ UNCHANGED <<active, screenOf, host, layerOn, widgetOn, lastDoc, health, pc, op>>
  BY DEF AttachHostLocalScreen, IInv, Typed
<1>2. known = Documented(panel[OverlayLayer])
  BY <1>1, BetweenCalls
<1>3. PICK l \in PopoverLayers : w \in WidgetsIn(panel[l])
  BY DEF AttachHostLocalScreen
<1>4. OverlayLayer \in Layers /\ panel[OverlayLayer] \in Seq(Children) /\ OnTop(panel[OverlayLayer])
  BY <1>1, LayerFacts DEF Panels
<1>5. \/ /\ hostLocal' = locals
         /\ panel' = [panel EXCEPT ![OverlayLayer] = parts]
         /\ faults' = faults /\ lost' = lost
      \/ /\ hostLocal' = hostLocal
         /\ faults' \in Nat /\ faults' # 0
         /\ \E children :
              /\ panel' = [panel EXCEPT ![OverlayLayer] = children]
              /\ \/ children = panel[OverlayLayer] /\ lost' = lost
                 \/ /\ \E n \in DOMAIN panel[OverlayLayer] :
                         children = Without(panel[OverlayLayer], n)
                    /\ lost' = lost \cup {OverlayLayer}
  <2>1. \/ /\ hostLocal' = locals
           /\ panel' = [panel EXCEPT ![OverlayLayer] = parts]
           /\ faults' = faults /\ lost' = lost
        \/ \E back \in PutBack(panel[OverlayLayer]) :
             /\ faults' = faults + (1 + back.cost)
             /\ panel' = [panel EXCEPT ![OverlayLayer] = back.children]
             /\ lost' = IF back.cost = 0 THEN lost ELSE lost \cup {OverlayLayer}
             /\ hostLocal' = hostLocal
    BY DEF AttachHostLocalScreen, Spend
  <2>2. \A back \in PutBack(panel[OverlayLayer]) :
          \/ back = [children |-> panel[OverlayLayer], cost |-> 0]
          \/ \E n \in DOMAIN panel[OverlayLayer] :
                back = [children |-> Without(panel[OverlayLayer], n), cost |-> 1]
    BY DEF PutBack
  <2> HIDE DEF locals, parts
  <2>3. ASSUME NEW back \in PutBack(panel[OverlayLayer]),
               faults' = faults + (1 + back.cost),
               panel' = [panel EXCEPT ![OverlayLayer] = back.children],
               lost' = IF back.cost = 0 THEN lost ELSE lost \cup {OverlayLayer}
        PROVE  /\ faults' \in Nat /\ faults' # 0
               /\ panel' = [panel EXCEPT ![OverlayLayer] = back.children]
               /\ \/ back.children = panel[OverlayLayer] /\ lost' = lost
                  \/ /\ \E n \in DOMAIN panel[OverlayLayer] :
                          back.children = Without(panel[OverlayLayer], n)
                     /\ lost' = lost \cup {OverlayLayer}
    <3>1. CASE back = [children |-> panel[OverlayLayer], cost |-> 0]
      BY <1>1, <2>3, <3>1
    <3>2. CASE \E n \in DOMAIN panel[OverlayLayer] :
                 back = [children |-> Without(panel[OverlayLayer], n), cost |-> 1]
      BY <1>1, <2>3, <3>2
    <3> QED
      BY <2>2, <3>1, <3>2
  <2> QED
    BY <2>1, <2>3
<1>6. \A e \in ToSet(hostLocal) : /\ \E k \in PopoverLayers : e.owner \in WidgetsIn(panel[k])
                                  /\ e.key < nextKey /\ e.key < nextKey + 1
  <2>1. \A e \in Locals : e.key \in Nat
    BY LocalsTyped
  <2>2. \A e \in ToSet(hostLocal) : e \in Locals
    BY <1>1, InSeq DEF ToSet
  <2> QED
    BY <1>1, <2>1, <2>2 DEF Owners
<1>7. nextKey' \in Nat \ {0}
  BY <1>1
<1>a. lost \subseteq Layers
  BY DEF IInv, Typed
<1>8. ASSUME hostLocal' = hostLocal, faults' \in Nat, faults' # 0, NEW children,
             panel' = [panel EXCEPT ![OverlayLayer] = children],
             \/ children = panel[OverlayLayer] /\ lost' = lost
             \/ /\ \E n \in DOMAIN panel[OverlayLayer] : children = Without(panel[OverlayLayer], n)
                /\ lost' = lost \cup {OverlayLayer}
      PROVE  IInv' /\ lost \subseteq lost' /\ \A k \in Layers \ lost' : Shown'[k] = Shown[k]
  <2>1. Ordered(hostLocal)
    BY <1>1 DEF Owners
  <2>2. \A e \in ToSet(hostLocal') : /\ \E k \in PopoverLayers : e.owner \in WidgetsIn(panel[k])
                                     /\ e.key < nextKey'
    BY <1>1, <1>6, <1>8
  <2>3. /\ children \in Seq(Children) /\ OnTop(children)
        /\ WidgetsIn(children) \subseteq WidgetsIn(panel[OverlayLayer])
    <3>1. \A n \in DOMAIN panel[OverlayLayer] :
            LET rest == Without(panel[OverlayLayer], n)
            IN  rest \in Seq(Children) /\ OnTop(rest)
                /\ WidgetsIn(rest) \subseteq WidgetsIn(panel[OverlayLayer])
      BY <1>4, WithoutFacts
    <3> QED
      BY <1>4, <1>8, <3>1
  <2>4. /\ lost \subseteq lost' /\ lost' \subseteq Layers
        /\ OverlayLayer \notin lost' => children = panel[OverlayLayer]
    BY <1>4, <1>8, <1>a
  <2> QED
    BY <1>1, <1>4, <1>7, <1>8, <2>1, <2>2, <2>3, <2>4, OverlayStep
<1>9. ASSUME /\ hostLocal' = locals
             /\ panel' = [panel EXCEPT ![OverlayLayer] = parts]
             /\ faults' = faults /\ lost' = lost
      PROVE  IInv' /\ lost \subseteq lost' /\ \A k \in Layers \ lost' : Shown'[k] = Shown[k]
  <2> DEFINE entry == [key |-> nextKey, owner |-> w]
  <2>1. entry \in Locals /\ entry.key = nextKey /\ entry.owner = w
    BY <1>1, Numbers DEF Locals
  <2> HIDE DEF entry
  <2>2. locals = Append(hostLocal, entry)
    BY DEF entry
  <2>3. /\ locals \in Seq(Locals) /\ ToSet(locals) = ToSet(hostLocal) \cup {entry}
    BY <1>1, <2>1, <2>2, ToSetOfAppend
  <2>4. /\ Len(hostLocal) \in Nat /\ DOMAIN hostLocal = 1 .. Len(hostLocal)
        /\ DOMAIN locals = 1 .. (Len(hostLocal) + 1)
        /\ \A n \in DOMAIN hostLocal : locals[n] = hostLocal[n]
        /\ locals[Len(hostLocal) + 1] = entry
    BY <1>1, <2>1, <2>2
  <2> HIDE DEF locals
  <2>5. Ordered(locals)
    <3> SUFFICES ASSUME NEW i \in DOMAIN locals, NEW j \in DOMAIN locals, i < j
                 PROVE  locals[i].key < locals[j].key
      BY DEF Ordered
    <3>1. i \in DOMAIN hostLocal
      BY <2>4
    <3>2. CASE j \in DOMAIN hostLocal
      BY <1>1, <2>4, <3>1, <3>2 DEF Owners, Ordered
    <3>3. CASE j = Len(hostLocal) + 1
      <4>1. hostLocal[i].key < nextKey
        BY <1>6, <3>1 DEF ToSet
      <4> QED
        BY <2>1, <2>4, <3>1, <3>3, <4>1
    <3> QED
      BY <2>4, <3>2, <3>3
  <2>6. Keys(locals) = Keys(hostLocal) \cup {nextKey}
    <3>1. Keys(locals) = {e.key : e \in ToSet(locals)} /\ Keys(hostLocal) = {e.key : e \in ToSet(hostLocal)}
      BY DEF Keys, ToSet
    <3> QED
      BY <2>1, <2>3, <3>1
  <2>7. known \in Seq(Children) /\ \A n \in DOMAIN known : IsScreen(known[n])
    BY <1>2, <1>4, DocumentedFacts
  <2> HIDE DEF known
  <2>8. /\ parts \in Seq(Children) /\ OnTop(parts)
        /\ Documented(parts) = known /\ Up(parts) = Keys(locals)
    BY <2>3, <2>5, <2>7, ParticipantsFacts
  <2> HIDE DEF parts
  <2>9. \A e \in ToSet(hostLocal') : /\ \E k \in PopoverLayers : e.owner \in WidgetsIn(panel[k])
                                     /\ e.key < nextKey'
    BY <1>1, <1>3, <1>6, <1>9, <2>1, <2>3
  <2>10. WidgetsIn(parts) \subseteq WidgetsIn(panel[OverlayLayer])
    BY <1>2, <1>4, <2>8, SameDocument
  <2>11. Keys(hostLocal) \subseteq Up(panel[OverlayLayer]) => Keys(hostLocal') \subseteq Up(parts)
    BY <1>9, <2>8
  <2>12. faults' = 0 => /\ faults = 0
                        /\ Up(panel[OverlayLayer]) \subseteq Keys(hostLocal)
                              => Up(parts) \subseteq Keys(hostLocal')
    BY <1>9, <2>8
  <2> QED
    BY <1>1, <1>2, <1>7, <1>9, <1>a, <2>3, <2>5, <2>8, <2>9, <2>10, <2>11, <2>12, OverlayStep
<1> QED
  BY <1>5, <1>8, <1>9

(***************************************************************************)
(* A call starts: the candidates are made, every screen of the plan holds  *)
(* what it would go back to, unless its layer lost something before, and   *)
(* nothing shown is touched.                                               *)
(***************************************************************************)
Started(d, act, plan) ==
    /\ plan \in Seq(Entries) /\ Len(plan) = Len(d) /\ DOMAIN plan = DOMAIN d
    /\ \A j \in DOMAIN plan :
         /\ plan[j].inst = d[j]
         /\ screenOf'[plan[j].widget] = plan[j].inst.screen
         /\ plan[j].inst.layer \notin lost => host'[plan[j].widget] = Held(plan[j].prior)
         /\ \A s \in Slots : plan[j].widget = act[s] => s = Slot(plan[j].inst)
    /\ \A i, j \in DOMAIN plan : i # j => plan[i].widget # plan[j].widget
    /\ host' \in [Widgets -> [Hosts -> HostStates]]
    /\ screenOf' \in [Widgets -> Screens \cup {Blank}] /\ widgetOn' \in [Widgets -> BOOLEAN]
    /\ \A s \in Slots : act[s] # NoWidget =>
         /\ host'[act[s]] = host[act[s]] /\ screenOf'[act[s]] = screenOf[act[s]]
         /\ widgetOn'[act[s]] = widgetOn[act[s]]

LEMMA CallStarts ==
    ASSUME NEW d \in Documents, ~HasDuplicateSlot(d),
           NEW act \in [Slots -> Widgets \cup {NoWidget}], Injective(act), NEW children,
           \A l \in Layers : WidgetsIn(children[l]) \subseteq ActiveIn(l, act),
           2 * Cardinality({act[s] : s \in Slots} \ {NoWidget}) <= WidgetCount,
           host \in [Widgets -> [Hosts -> HostStates]],
           screenOf \in [Widgets -> Screens \cup {Blank}], widgetOn \in [Widgets -> BOOLEAN],
           \A s \in Slots : act[s] # NoWidget /\ s[1] \notin lost => Whole(act[s]),
           NEW free, free = FreeWidgets(act, children),
           NEW plan, plan = PlanFor(d, act, free),
           CreateCandidates(plan)
    PROVE  Started(d, act, plan)
<1> DEFINE made == Created(plan)
<1>1. Len(d) \in Nat /\ 2 * Len(d) <= WidgetCount /\ DOMAIN d = 1 .. Len(d)
      /\ \A i \in DOMAIN d : Slot(d[i]) \in Slots /\ d[i].screen \in Screens
  BY DocFacts
<1>2. /\ free \subseteq Widgets /\ free \subseteq Nat /\ IsFiniteSet(free)
      /\ Len(d) <= Cardinality(free)
      /\ \A s \in Slots : act[s] \notin free
  <2> DEFINE n == Len(d)
  <2>1. n \in Nat /\ 2 * n <= WidgetCount
    BY <1>1
  <2> HIDE DEF n
  <2>2. n <= Cardinality(free) /\ free \subseteq Widgets /\ free \subseteq Nat /\ IsFiniteSet(free)
        /\ \A s \in Slots : act[s] \notin free
    BY <2>1, EnoughFree
  <2> QED
    BY <2>2 DEF n
<1>4. /\ plan \in Seq(Entries) /\ Len(plan) = Len(d) /\ DOMAIN plan = DOMAIN d
      /\ \A i \in DOMAIN d :
           /\ plan[i].inst = d[i]
           /\ Reuses(d[i], act) =>
                /\ plan[i].fresh = FALSE /\ plan[i].widget = act[Slot(d[i])]
                /\ plan[i].prior = [h \in Hosts |-> host[plan[i].widget][h].snap]
           /\ ~Reuses(d[i], act) =>
                /\ plan[i].fresh = TRUE /\ plan[i].widget \in free
                /\ plan[i].prior = [h \in Hosts |-> Blank]
      /\ \A i, j \in DOMAIN d : i # j => plan[i].widget # plan[j].widget
      /\ \A i \in DOMAIN d : \A s \in Slots : plan[i].widget = act[s] => s = Slot(d[i])
  <2>1. IsPlan(plan, d, act, free)
    BY <1>2, PlanFacts
  <2> QED
    BY <2>1 DEF IsPlan
<1>5. \A j \in DOMAIN plan : plan[j].widget \in Widgets
  BY <1>4, EntryFacts
<1>6. made \subseteq free
  BY <1>4 DEF Created
<1>7. \A j \in DOMAIN plan : plan[j].fresh => plan[j].widget \in made
  BY DEF Created
<1>8. \A j \in DOMAIN plan : ~plan[j].fresh => plan[j].widget \notin made
  <2> SUFFICES ASSUME NEW j \in DOMAIN plan, ~plan[j].fresh PROVE plan[j].widget \notin made
    OBVIOUS
  <2>1. j \in DOMAIN d /\ plan[j].widget = act[Slot(d[j])]
    BY <1>4
  <2>2. plan[j].widget \notin free
    BY <1>1, <1>2, <2>1
  <2> QED
    BY <1>6, <2>2
<1>9. /\ host' = [w \in Widgets |-> IF w \in made THEN Filled(Blank) ELSE host[w]]
      /\ screenOf' = [w \in Widgets |->
                         IF w \in made
                         THEN plan[CHOOSE i \in DOMAIN plan : plan[i].widget = w].inst.screen
                         ELSE screenOf[w]]
      /\ widgetOn' = [w \in Widgets |-> widgetOn[w] \/ w \in made]
  BY DEF CreateCandidates
<1> HIDE DEF made
<1>10. \A w \in made : LET i == CHOOSE i \in DOMAIN plan : plan[i].widget = w
                       IN  i \in DOMAIN plan /\ plan[i].widget = w
  BY DEF made, Created
<1>11. host' \in [Widgets -> [Hosts -> HostStates]]
  BY <1>9, FilledFacts
<1>12. screenOf' \in [Widgets -> Screens \cup {Blank}]
  <2> SUFFICES ASSUME NEW w \in Widgets
               PROVE  screenOf'[w] \in Screens \cup {Blank}
    BY <1>9
  <2>1. CASE w \in made
    <3> DEFINE i == CHOOSE i \in DOMAIN plan : plan[i].widget = w
    <3>1. i \in DOMAIN plan
      BY <1>10, <2>1
    <3>2. screenOf'[w] = plan[i].inst.screen
      BY <1>9, <2>1
    <3> HIDE DEF i
    <3>3. plan[i].inst.screen \in Screens
      BY <1>4, <3>1, EntryFacts
    <3> QED
      BY <3>2, <3>3
  <2>2. CASE w \notin made
    BY <1>9, <2>2
  <2> QED
    BY <2>1, <2>2
<1>13. widgetOn' \in [Widgets -> BOOLEAN]
  BY <1>9
<1>14. ASSUME NEW s \in Slots, act[s] # NoWidget
       PROVE  /\ act[s] \in Widgets
              /\ host'[act[s]] = host[act[s]] /\ screenOf'[act[s]] = screenOf[act[s]]
              /\ widgetOn'[act[s]] = widgetOn[act[s]]
  <2>1. act[s] \in Widgets /\ act[s] \notin made
    BY <1>2, <1>6, <1>14
  <2>2. widgetOn'[act[s]] = (widgetOn[act[s]] \/ FALSE)
    BY <1>9, <2>1
  <2>3. widgetOn[act[s]] \in BOOLEAN
    BY <2>1
  <2> QED
    BY <1>9, <2>1, <2>2, <2>3
<1>15. ASSUME NEW j \in DOMAIN plan
       PROVE  /\ screenOf'[plan[j].widget] = plan[j].inst.screen
              /\ plan[j].inst.layer \notin lost => host'[plan[j].widget] = Held(plan[j].prior)
  <2>1. CASE plan[j].fresh
    <3>1. plan[j].widget \in made
      BY <1>7, <2>1
    <3> DEFINE i == CHOOSE i \in DOMAIN plan : plan[i].widget = plan[j].widget
    <3>2. i \in DOMAIN plan /\ plan[i].widget = plan[j].widget
      BY <1>10, <3>1
    <3>3. screenOf'[plan[j].widget] = plan[i].inst.screen
      BY <1>5, <1>9, <3>1
    <3> HIDE DEF i
    <3>4. i = j
      BY <1>4, <3>2
    <3>5. host'[plan[j].widget] = Filled(Blank)
      BY <1>5, <1>9, <3>1
    <3>6. plan[j].prior = [h \in Hosts |-> Blank]
      BY <1>4, <2>1
    <3>7. Filled(Blank) = Held([h \in Hosts |-> Blank])
      BY FilledFacts
    <3> QED
      BY <3>3, <3>4, <3>5, <3>6, <3>7
  <2>2. CASE ~plan[j].fresh
    <3>1. Reuses(d[j], act) /\ plan[j].inst = d[j]
      BY <1>4, <2>2
    <3>2. /\ plan[j].widget = act[Slot(d[j])] /\ Slot(d[j]) \in Slots
          /\ Slot(d[j])[1] = plan[j].inst.layer
          /\ plan[j].prior = [h \in Hosts |-> host[plan[j].widget][h].snap]
      BY <1>1, <1>4, <3>1 DEF Slot
    <3>3. act[Slot(d[j])] # NoWidget /\ screenOf[act[Slot(d[j])]] = d[j].screen
      BY <3>1 DEF Reuses
    <3>4. /\ host'[plan[j].widget] = host[plan[j].widget]
          /\ screenOf'[plan[j].widget] = screenOf[plan[j].widget]
      BY <1>14, <3>2, <3>3
    <3>5. plan[j].inst.layer \notin lost => Whole(plan[j].widget)
      BY <3>2, <3>3
    <3> QED
      BY <3>1, <3>2, <3>3, <3>4, <3>5 DEF Whole
  <2>3. plan[j].fresh \in BOOLEAN
    BY <1>4, InSeq DEF Entries
  <2> QED
    BY <2>1, <2>2
<1>16. ASSUME NEW j \in DOMAIN plan
       PROVE  /\ plan[j].inst = d[j]
              /\ \A s \in Slots : plan[j].widget = act[s] => s = Slot(plan[j].inst)
  <2>1. j \in DOMAIN d /\ plan[j].inst = d[j]
    BY <1>4
  <2>2. \A i \in DOMAIN d : \A s \in Slots : plan[i].widget = act[s] => s = Slot(d[i])
    BY <1>4
  <2> QED
    BY <2>1, <2>2
<1>17. \A i, j \in DOMAIN plan : i # j => plan[i].widget # plan[j].widget
  BY <1>4
<1>18. plan \in Seq(Entries) /\ Len(plan) = Len(d) /\ DOMAIN plan = DOMAIN d
  BY <1>4
<1> QED
  BY <1>11, <1>12, <1>13, <1>14, <1>15, <1>16, <1>17, <1>18 DEF Started

LEMMA PictureIs ==
    \A children, hosts : Picture(children, hosts) = PictureWith(children, hosts, screenOf)
  BY DEF Picture, PictureWith, Look

LEMMA BeforeIs ==
    Before <=> (pc # "idle" /\ ~op.marker /\ ~op.recovering =>
                  \A l \in Layers \ lost :
                     op.before[l] = PictureWith(Old[l], Resting, screenOf))
  BY PictureIs DEF Before

LEMMA BeforeNext ==
    (Before <=> (pc # "idle" /\ ~op.marker /\ ~op.recovering =>
                  \A l \in Layers \ lost :
                     op.before[l] = PictureWith(Old[l], Resting, screenOf)))'
  BY BeforeIs, PTL

\* A widget that holds what the plan would put back, or is not in it, rests.
LEMMA RestingIsHost ==
    \A w \in Widgets :
      (\A j \in DOMAIN op.plan : op.plan[j].widget = w => host[w] = Held(op.plan[j].prior))
         => Resting[w] = host[w]
<1> SUFFICES ASSUME NEW w \in Widgets,
                    \A j \in DOMAIN op.plan :
                       op.plan[j].widget = w => host[w] = Held(op.plan[j].prior)
             PROVE  Resting[w] = host[w]
  OBVIOUS
<1>1. w \in InPlan => EntryOf(w) \in DOMAIN op.plan /\ op.plan[EntryOf(w)].widget = w
  BY DEF InPlan, EntryOf
<1> HIDE DEF EntryOf
<1>2. w \in InPlan => Held(op.plan[EntryOf(w)].prior) = host[w]
  BY <1>1
<1> QED
  BY <1>2 DEF Resting

LEMMA RestingIsHostNext ==
    (\A w \in Widgets :
      (\A j \in DOMAIN op.plan : op.plan[j].widget = w => host[w] = Held(op.plan[j].prior))
         => Resting[w] = host[w])'
  BY RestingIsHost, PTL

LEMMA OpBegins ==
    ASSUME NEW d, NEW plan, NEW before,
           op' = [NoOp EXCEPT !.doc = d, !.plan = plan, !.i = 1, !.before = before]
    PROVE  /\ Shaped(op)' /\ op'.doc = d /\ op'.plan = plan /\ op'.i = 1 /\ op'.before = before
           /\ op'.previous = [l \in Layers |-> <<>>] /\ op'.marker = FALSE /\ op'.recovering = FALSE
           /\ op'.dropped = FALSE
  BY DEF Shaped, NoOp

\* The widgets in the panels of a call that has not started.
LEMMA IdleFacts ==
    ASSUME IInv, pc = "idle"
    PROVE  /\ \A l \in Layers : /\ WidgetsIn(panel[l]) \subseteq ActiveIn(l, active)
                                /\ l \notin lost => WidgetsIn(panel[l]) = ActiveIn(l, active)
                                /\ panel[l] \in Seq(Children) /\ OnTop(panel[l])
           /\ \A s \in Slots : active[s] # NoWidget /\ s[1] \notin lost => Whole(active[s])
           /\ 2 * Cardinality({active[s] : s \in Slots} \ {NoWidget}) <= WidgetCount
           /\ Injective(active) /\ active \in [Slots -> Widgets \cup {NoWidget}]
           /\ op = NoOp /\ op.marker = FALSE /\ op.recovering = FALSE /\ Old = panel
<1>1. Typed /\ PlanOK /\ Books /\ Panels /\ Fields
  BY DEF IInv
<1>2. /\ op = NoOp /\ InPlan = {} /\ Rebuilt = {}
      /\ op.marker = FALSE /\ op.recovering = FALSE /\ Old = panel
  BY <1>1, IdleHasNoPlan
<1>3. \A l \in Layers : /\ WidgetsIn(panel[l]) \subseteq ActiveIn(l, active)
                        /\ l \notin lost => WidgetsIn(panel[l]) = ActiveIn(l, active)
                        /\ panel[l] \in Seq(Children) /\ OnTop(panel[l])
  BY <1>1, <1>2 DEF Typed, Panels
<1>4. \A l \in Layers \ lost : \A w \in ActiveIn(l, active) : Whole(w)
  BY <1>1, <1>2 DEF Fields
<1>5. ASSUME NEW s \in Slots, active[s] # NoWidget, s[1] \notin lost
      PROVE  Whole(active[s])
  <2>1. s[1] \in Layers /\ active[s] \in ActiveIn(s[1], active)
    BY <1>5, SlotsInLayers DEF ActiveIn
  <2> QED
    BY <1>4, <1>5, <2>1
<1> QED
  BY <1>1, <1>2, <1>3, <1>5 DEF Books, InUse, Typed

LEMMA BeginKeeps ==
    ASSUME IInv, pc = "idle", NEW d \in Documents, ~HasDuplicateSlot(d), pc' = "commit",
           UNCHANGED <<panel, active, layerOn, hostLocal, nextKey, lastDoc, health, lost, faults>>,
           NEW plan, Started(d, active, plan),
           op' = [NoOp EXCEPT !.doc = d, !.plan = plan, !.i = 1, !.before = Shown]
    PROVE  IInv'
<1>1. Typed /\ PlanOK /\ Books /\ Panels /\ Owners /\ Popovers /\ Fields /\ Input /\ Before
  BY DEF IInv
<1>2. /\ \A l \in Layers : /\ WidgetsIn(panel[l]) \subseteq ActiveIn(l, active)
                           /\ l \notin lost => WidgetsIn(panel[l]) = ActiveIn(l, active)
                           /\ panel[l] \in Seq(Children) /\ OnTop(panel[l])
      /\ \A s \in Slots : active[s] # NoWidget /\ s[1] \notin lost => Whole(active[s])
      /\ op = NoOp /\ op.marker = FALSE /\ op.recovering = FALSE /\ Old = panel
  BY IdleFacts
<1>3. /\ Shaped(op)' /\ op'.doc = d /\ op'.plan = plan /\ op'.i = 1 /\ op'.before = Shown
      /\ op'.previous = [l \in Layers |-> <<>>] /\ op'.marker = FALSE /\ op'.recovering = FALSE
      /\ op'.dropped = FALSE
  BY OpBegins
<1>4. /\ plan \in Seq(Entries) /\ Len(plan) = Len(d) /\ DOMAIN plan = DOMAIN d
      /\ \A j \in DOMAIN plan :
           /\ plan[j].inst = d[j]
           /\ screenOf'[plan[j].widget] = plan[j].inst.screen
           /\ plan[j].inst.layer \notin lost => host'[plan[j].widget] = Held(plan[j].prior)
           /\ \A s \in Slots : plan[j].widget = active[s] => s = Slot(plan[j].inst)
      /\ \A i, j \in DOMAIN plan : i # j => plan[i].widget # plan[j].widget
      /\ host' \in [Widgets -> [Hosts -> HostStates]]
      /\ screenOf' \in [Widgets -> Screens \cup {Blank}] /\ widgetOn' \in [Widgets -> BOOLEAN]
      /\ \A s \in Slots : active[s] # NoWidget =>
           /\ host'[active[s]] = host[active[s]] /\ screenOf'[active[s]] = screenOf[active[s]]
           /\ widgetOn'[active[s]] = widgetOn[active[s]]
  BY DEF Started
<1>5. \A l \in Layers : \A w \in WidgetsIn(panel[l]) :
        host'[w] = host[w] /\ screenOf'[w] = screenOf[w] /\ widgetOn'[w] = widgetOn[w]
  <2> TAKE l \in Layers
  <2> TAKE w \in WidgetsIn(panel[l])
  <2>1. w \in ActiveIn(l, active)
    BY <1>2
  <2>2. PICK s \in Slots : w = active[s] /\ active[s] # NoWidget
    BY <2>1 DEF ActiveIn
  <2> QED
    BY <1>4, <2>2
<1>6. /\ panel' = panel /\ active' = active /\ layerOn' = layerOn /\ hostLocal' = hostLocal
      /\ nextKey' = nextKey /\ lastDoc' = lastDoc /\ health' = health /\ lost' = lost
      /\ faults' = faults
  OBVIOUS
<1>7. RebuiltPlaces' = {} /\ Rebuilt' = {} /\ Old' = panel /\ InUse' = InUse
  BY <1>1, <1>6 DEF RebuiltPlaces, Rebuilt, Old, InUse, Typed
<1>8. Written' = {}
  <2>1. 1 .. (1 - 1) = {}
    OBVIOUS
  <2> QED
    BY <1>3, <2>1 DEF Written
<1>9. Typed'
  <2>1. op'.marker \in BOOLEAN /\ op'.recovering \in BOOLEAN /\ op'.dropped \in BOOLEAN
    BY <1>3
  <2>2. op'.previous \in [Layers -> Seq(Children)]
    BY <1>3, EmptyPanel
  <2>3. op'.i \in Nat /\ op'.plan \in Seq(Entries)
    BY <1>3, <1>4
  <2> QED
    BY <1>1, <1>3, <1>4, <1>6, <2>1, <2>2, <2>3 DEF Typed
<1>10. PlanOK'
  <2>1. Target' = d
    BY <1>3 DEF Target
  <2>2. Len(plan) \in Nat /\ 1 \in 1 .. (Len(plan) + 1)
    BY <1>4, EntryFacts
  <2>3. /\ \A j \in DOMAIN op'.plan : /\ op'.plan[j].inst = Target'[j]
                                      /\ screenOf'[op'.plan[j].widget] = op'.plan[j].inst.screen
        /\ \A i, j \in DOMAIN op'.plan : i # j => op'.plan[i].widget # op'.plan[j].widget
        /\ \A j \in DOMAIN op'.plan : \A s \in Slots :
              op'.plan[j].widget = active'[s] => s = Slot(op'.plan[j].inst)
        /\ op'.i \in 1 .. (Len(op'.plan) + 1)
        /\ Len(op'.plan) = Len(Target')
    BY <1>3, <1>4, <1>6, <2>1, <2>2
  <2> QED
    BY <1>3, <2>1, <2>3 DEF PlanOK
<1>11. Books'
  BY <1>1, <1>3, <1>6, <1>7 DEF Books, Injective
<1>12. Panels'
  BY <1>2, <1>3, <1>6, <1>7 DEF Panels
<1>13. Owners'
  BY <1>1, <1>6 DEF Owners
<1>14. Popovers'
  <2>1. /\ health # "failed" /\ OverlayLayer \notin lost
              => Keys(hostLocal) \subseteq Up(panel[OverlayLayer])
        /\ faults = 0 => Up(panel[OverlayLayer]) \subseteq Keys(hostLocal)
    BY <1>1, <1>2 DEF Popovers
  <2> QED
    BY <1>3, <1>6, <1>7, <2>1 DEF Popovers
<1>15. Fields'
  <2>1. ASSUME NEW l \in Layers \ lost, NEW w \in ActiveIn(l, active)
        PROVE  Whole(w)'
    <3>1. PICK s \in Slots : s[1] = l /\ w = active[s] /\ active[s] # NoWidget
      BY DEF ActiveIn
    <3> QED
      BY <1>2, <1>4, <3>1 DEF Whole
  <2>2. \A j \in DOMAIN op'.plan :
           op'.plan[j].inst.layer \notin lost
              => host'[op'.plan[j].widget] = Held(op'.plan[j].prior)
    BY <1>3, <1>4
  <2> QED
    BY <1>6, <1>7, <1>8, <2>1, <2>2 DEF Fields
<1>16. Input'
  <2> DEFINE modals == Documented(panel[ModalLayer])
  <2>1. ModalLayer \in Layers
    BY LayerFacts
  <2>2. \A n \in DOMAIN modals : modals[n].id \in WidgetsIn(panel[ModalLayer])
    BY <1>2, <2>1, DocumentedFacts
  <2>3. \A n \in DOMAIN modals : widgetOn'[modals[n].id] = widgetOn[modals[n].id]
    BY <1>5, <2>1, <2>2
  <2>4. health # "failed" /\ ModalLayer \notin lost =>
          /\ \A l \in Layers : layerOn[l] = (modals = <<>> \/ l = ModalLayer)
          /\ \A n \in DOMAIN modals : widgetOn[modals[n].id] = (n = Len(modals))
    BY <1>1, <1>2 DEF Input
  <2>5. Documented(Old[ModalLayer])' = modals
    BY <1>7
  <2> HIDE DEF modals
  <2> QED
    BY <1>6, <2>3, <2>4, <2>5 DEF Input
<1>17. Before'
  <2>1. ASSUME NEW l \in Layers \ lost, NEW w \in WidgetsIn(panel[l])
        PROVE  Resting'[w] = host[w]
    <3>1. PICK s \in Slots : s[1] = l /\ w = active[s] /\ active[s] # NoWidget
      BY <1>2 DEF ActiveIn
    <3>2. w \in Widgets
      BY <1>1, <3>1 DEF Typed
    <3>3. ASSUME NEW j \in DOMAIN plan, plan[j].widget = w
          PROVE  host'[w] = Held(plan[j].prior)
      <4>1. s = Slot(plan[j].inst) /\ Slot(plan[j].inst)[1] = plan[j].inst.layer
        BY <1>4, <3>1, <3>3 DEF Slot
      <4> QED
        BY <1>4, <3>1, <3>3, <4>1
    <3>4. Resting'[w] = host'[w]
      BY <1>3, <3>2, <3>3, RestingIsHostNext
    <3> QED
      BY <1>5, <3>4
  <2>2. ASSUME NEW l \in Layers \ lost
        PROVE  PictureWith(panel[l], Resting', screenOf') = PictureWith(panel[l], host, screenOf)
    <3> DEFINE children == panel[l]
               h1 == host
               h2 == Resting'
               s1 == screenOf
               s2 == screenOf'
    <3>1. children \in Seq(Children) /\ \A w \in WidgetsIn(children) : h2[w] = h1[w] /\ s2[w] = s1[w]
      BY <1>2, <1>5, <2>1
    <3> HIDE DEF children, h1, h2, s1, s2
    <3>2. PictureWith(children, h2, s2) = PictureWith(children, h1, s1)
      BY <3>1, SamePicture
    <3> QED
      BY <3>2 DEF children, h1, h2, s1, s2
  <2>3. \A l \in Layers \ lost : op'.before[l] = PictureWith(Old'[l], Resting', screenOf')
    BY <1>3, <1>7, <2>2, ShownIs
  <2> QED
    BY <1>6, <2>3, BeforeNext
<1> QED
  BY <1>9, <1>10, <1>11, <1>12, <1>13, <1>14, <1>15, <1>16, <1>17 DEF IInv

LEMMA ReconcileKeeps ==
    ASSUME IInv, NEW d \in Documents, Reconcile(d)
    PROVE  IInv'
<1>1. pc = "idle" /\ faults \in Nat
      /\ UNCHANGED <<panel, active, layerOn, hostLocal, nextKey, lastDoc, health, lost>>
  BY DEF Reconcile, IInv, Typed
<1> DEFINE free == FreeWidgets(active, panel)
           plan == PlanFor(d, active, free)
<1>2. CASE UNCHANGED <<host, screenOf, widgetOn, pc, op, faults>>
  BY <1>1, <1>2, SameScreen
<1>3. CASE Spend(1) /\ UNCHANGED <<host, screenOf, widgetOn, pc, op>>
  <2>1. faults' \in Nat /\ faults' # 0
    BY <1>1, <1>3 DEF Spend
  <2> QED
    BY <1>1, <1>3, <2>1, SameScreen
<1>4. CASE /\ ~HasDuplicateSlot(d)
           /\ CreateCandidates(plan)
           /\ op' = [NoOp EXCEPT !.doc = d, !.plan = plan, !.i = 1, !.before = Shown]
           /\ pc' = "commit"
           /\ UNCHANGED faults
  <2>1. /\ \A l \in Layers : WidgetsIn(panel[l]) \subseteq ActiveIn(l, active)
        /\ \A s \in Slots : active[s] # NoWidget /\ s[1] \notin lost => Whole(active[s])
        /\ 2 * Cardinality({active[s] : s \in Slots} \ {NoWidget}) <= WidgetCount
        /\ Injective(active) /\ active \in [Slots -> Widgets \cup {NoWidget}]
    BY <1>1, IdleFacts
  <2>2. /\ host \in [Widgets -> [Hosts -> HostStates]]
        /\ screenOf \in [Widgets -> Screens \cup {Blank}] /\ widgetOn \in [Widgets -> BOOLEAN]
    BY DEF IInv, Typed
  <2>3. ~HasDuplicateSlot(d) /\ CreateCandidates(plan)
    BY <1>4
  <2> DEFINE a == active
             children == panel
  <2>4. free = FreeWidgets(a, children) /\ plan = PlanFor(d, a, free)
    OBVIOUS
  <2> HIDE DEF plan, free
  <2>5. Started(d, a, plan)
    BY <2>1, <2>2, <2>3, <2>4, CallStarts
  <2> QED
    BY <1>1, <1>4, <2>5, BeginKeeps
<1> QED
  BY <1>2, <1>3, <1>4 DEF Reconcile

\* The entries of one layer, in the order of the plan.
LEMMA PlannedOrder ==
    ASSUME NEW plan \in Seq(Entries), NEW l,
           \A i, j \in DOMAIN plan : i # j => plan[i].widget # plan[j].widget
    PROVE  LET mine == Planned(plan, l)
           IN  \A m, n \in DOMAIN mine : mine[m].widget = mine[n].widget => m = n
<1> DEFINE places == {i \in DOMAIN plan : plan[i].inst.layer = l}
           mine == Planned(plan, l)
           N == Cardinality(places)
           sel == Selected(plan, places)
<1>1. mine = sel
  BY DEF Planned
<1>2. places \subseteq DOMAIN plan
  OBVIOUS
<1> HIDE DEF places, mine
<1>3. /\ N \in Nat /\ DOMAIN sel = 1 .. N
      /\ \A n \in 1 .. N : Nth(places, n) \in DOMAIN plan /\ sel[n] = plan[Nth(places, n)]
      /\ \A m, n \in 1 .. N : m < n => Nth(places, m) < Nth(places, n)
  BY <1>2, SelectionKeepsOrder
<1> HIDE DEF N, sel
<1>4. DOMAIN plan \subseteq Nat
  BY EntryFacts
<1>5. ASSUME NEW m \in 1 .. N, NEW n \in 1 .. N, m < n
      PROVE  sel[m].widget # sel[n].widget
  <2>1. /\ Nth(places, m) \in DOMAIN plan /\ Nth(places, n) \in DOMAIN plan
        /\ Nth(places, m) < Nth(places, n) /\ Nth(places, m) \in Nat /\ Nth(places, n) \in Nat
    BY <1>3, <1>4, <1>5
  <2>2. Nth(places, m) # Nth(places, n)
    BY <2>1
  <2> QED
    BY <1>3, <2>1, <2>2
<1>6. ASSUME NEW m \in 1 .. N, NEW n \in 1 .. N, sel[m].widget = sel[n].widget
      PROVE  m = n
  <2>1. ~(m < n) /\ ~(n < m)
    BY <1>5, <1>6
  <2> QED
    BY <1>3, <2>1
<1> QED
  BY <1>1, <1>3, <1>6 DEF mine

\* ActiveScreens of a plan that is carried out.
CarriedOut(plan, act) ==
    /\ act \in [Slots -> Widgets \cup {NoWidget}]
    /\ \A j \in DOMAIN plan : act[Slot(plan[j].inst)] = plan[j].widget
    /\ \A s \in Slots : act[s] # NoWidget =>
         \E j \in DOMAIN plan : Slot(plan[j].inst) = s /\ act[s] = plan[j].widget
    /\ Injective(act)
    /\ {act[s] : s \in Slots} \ {NoWidget} = {plan[j].widget : j \in DOMAIN plan}
    /\ \A l \in Layers : ActiveIn(l, act) =
         {plan[j].widget : j \in {i \in DOMAIN plan : plan[i].inst.layer = l}}

LEMMA PlannedScreensFacts ==
    ASSUME NEW plan \in Seq(Entries), NEW act, act = PlannedScreens(plan),
           \A i, j \in DOMAIN plan : i # j => Slot(plan[i].inst) # Slot(plan[j].inst),
           \A i, j \in DOMAIN plan : i # j => plan[i].widget # plan[j].widget
    PROVE  CarriedOut(plan, act)
<1> DEFINE At(s) == CHOOSE i \in DOMAIN plan : Slot(plan[i].inst) = s
           Has(s) == \E i \in DOMAIN plan : Slot(plan[i].inst) = s
<1>1. \A j \in DOMAIN plan : /\ plan[j].widget \in Widgets /\ plan[j].widget # NoWidget
                             /\ Slot(plan[j].inst) \in Slots
                             /\ Slot(plan[j].inst)[1] = plan[j].inst.layer
  BY EntryFacts, Numbers
<1>2. act = [s \in Slots |-> IF Has(s) THEN plan[At(s)].widget ELSE NoWidget]
  BY DEF PlannedScreens
<1>3. \A s : Has(s) => At(s) \in DOMAIN plan /\ Slot(plan[At(s)].inst) = s
  OBVIOUS
<1>4. \A j \in DOMAIN plan : Has(Slot(plan[j].inst))
  OBVIOUS
<1>5. \A s : ~Has(s) => \A j \in DOMAIN plan : Slot(plan[j].inst) # s
  OBVIOUS
<1> HIDE DEF At, Has
<1>6. ASSUME NEW j \in DOMAIN plan
      PROVE  act[Slot(plan[j].inst)] = plan[j].widget
  <2>1. At(Slot(plan[j].inst)) = j
    BY <1>3, <1>4
  <2> QED
    BY <1>1, <1>2, <1>4, <2>1
<1>7. ASSUME NEW s \in Slots, act[s] # NoWidget
      PROVE  \E j \in DOMAIN plan : Slot(plan[j].inst) = s /\ act[s] = plan[j].widget
  <2>1. Has(s)
    BY <1>2, <1>7
  <2> QED
    BY <1>2, <1>3, <2>1
<1>8. act \in [Slots -> Widgets \cup {NoWidget}]
  <2>1. \A s \in Slots : (IF Has(s) THEN plan[At(s)].widget ELSE NoWidget) \in Widgets \cup {NoWidget}
    BY <1>1, <1>3
  <2> QED
    BY <1>2, <2>1
<1> HIDE DEF PlannedScreens
<1>9. Injective(act)
  <2> SUFFICES ASSUME NEW s \in Slots, NEW t \in Slots, act[s] = act[t], act[s] # NoWidget
               PROVE  s = t
    BY DEF Injective
  <2>1. PICK i \in DOMAIN plan : Slot(plan[i].inst) = s /\ act[s] = plan[i].widget
    BY <1>7
  <2>2. PICK j \in DOMAIN plan : Slot(plan[j].inst) = t /\ act[t] = plan[j].widget
    BY <1>7
  <2>3. i = j
    BY <2>1, <2>2
  <2> QED
    BY <2>1, <2>2, <2>3
<1>10. {act[s] : s \in Slots} \ {NoWidget} = {plan[j].widget : j \in DOMAIN plan}
  <2>1. ASSUME NEW w \in {act[s] : s \in Slots} \ {NoWidget}
        PROVE  w \in {plan[j].widget : j \in DOMAIN plan}
    <3>1. PICK s \in Slots : w = act[s] /\ act[s] # NoWidget
      OBVIOUS
    <3> QED
      BY <1>7, <3>1
  <2>2. ASSUME NEW j \in DOMAIN plan
        PROVE  plan[j].widget \in {act[s] : s \in Slots} \ {NoWidget}
    BY <1>1, <1>6
  <2> QED
    BY <2>1, <2>2
<1>11. ASSUME NEW l \in Layers
       PROVE  ActiveIn(l, act) = {plan[j].widget : j \in {i \in DOMAIN plan : plan[i].inst.layer = l}}
  <2>1. ASSUME NEW w \in ActiveIn(l, act)
        PROVE  w \in {plan[j].widget : j \in {i \in DOMAIN plan : plan[i].inst.layer = l}}
    <3>1. PICK s \in Slots : s[1] = l /\ w = act[s] /\ act[s] # NoWidget
      BY DEF ActiveIn
    <3>2. PICK j \in DOMAIN plan : Slot(plan[j].inst) = s /\ act[s] = plan[j].widget
      BY <1>7, <3>1
    <3> QED
      BY <1>1, <3>1, <3>2
  <2>2. ASSUME NEW j \in DOMAIN plan, plan[j].inst.layer = l
        PROVE  plan[j].widget \in ActiveIn(l, act)
    BY <1>1, <1>6, <2>2 DEF ActiveIn
  <2> QED
    BY <2>1, <2>2
<1> QED
  BY <1>6, <1>7, <1>8, <1>9, <1>10, <1>11 DEF CarriedOut

\* A plan takes no more widgets than it has entries.
LEMMA PlanSize ==
    ASSUME NEW plan \in Seq(Entries)
    PROVE  Cardinality({plan[j].widget : j \in DOMAIN plan}) <= Len(plan)
           /\ Cardinality({plan[j].widget : j \in DOMAIN plan}) \in Nat
<1> DEFINE N == Len(plan)
           S == {plan[j].widget : j \in DOMAIN plan}
           f == [j \in 1 .. N |-> plan[j].widget]
<1>1. N \in Nat /\ DOMAIN plan = 1 .. N
  BY EntryFacts
<1>2. IsFiniteSet(1 .. N) /\ Cardinality(1 .. N) = N
  BY <1>1, FS_Interval
<1>3. f \in Surjection(1 .. N, S)
  BY <1>1 DEF Surjection
<1> HIDE DEF S, f
<1>4. IsFiniteSet(S) /\ Cardinality(S) <= Cardinality(1 .. N)
  BY <1>2, <1>3, FS_Surjection
<1> QED
  BY <1>2, <1>4, FS_CardinalityType DEF S

\* Between two calls the invariant comes down to this.
Settled ==
    /\ pc = "idle" /\ op = NoOp
    /\ panel \in [Layers -> Seq(Children)]
    /\ active \in [Slots -> Widgets \cup {NoWidget}]
    /\ screenOf \in [Widgets -> Screens \cup {Blank}]
    /\ host \in [Widgets -> [Hosts -> HostStates]]
    /\ widgetOn \in [Widgets -> BOOLEAN]
    /\ hostLocal \in Seq(Locals)
    /\ nextKey \in Nat \ {0}
    /\ lastDoc \in Documents \cup {NoDocument}
    /\ lastDoc # NoDocument => ~HasDuplicateSlot(lastDoc)
    /\ faults \in Nat
    /\ lost \subseteq Layers
    /\ Injective(active)
    /\ 2 * Cardinality(InUse) <= WidgetCount
    /\ \A l \in Layers : /\ OnTop(panel[l])
                         /\ WidgetsIn(panel[l]) \subseteq ActiveIn(l, active)
                         /\ l \notin lost => WidgetsIn(panel[l]) = ActiveIn(l, active)
    /\ Owners
    /\ health # "failed" /\ OverlayLayer \notin lost
          => Keys(hostLocal) \subseteq Up(panel[OverlayLayer])
    /\ faults = 0 => Up(panel[OverlayLayer]) \subseteq Keys(hostLocal)
    /\ \A l \in Layers \ lost : \A w \in ActiveIn(l, active) : Whole(w)
    /\ health # "failed" /\ ModalLayer \notin lost =>
         LET modals == Documented(panel[ModalLayer])
         IN  /\ \A l \in Layers : layerOn[l] = (modals = <<>> \/ l = ModalLayer)
             /\ \A n \in DOMAIN modals : widgetOn[modals[n].id] = (n = Len(modals))

LEMMA SettledInvariant == Settled => IInv
<1> SUFFICES ASSUME Settled PROVE IInv
  OBVIOUS
<1>1. op = NoOp /\ pc = "idle"
  BY DEF Settled
<1>2. Typed
  <2>1. NoOp.previous \in [Layers -> Seq(Children)] /\ NoOp.plan \in Seq(Entries)
    BY EmptyPanel, NoOpFacts
  <2>2. /\ Shaped(op) /\ op.plan \in Seq(Entries) /\ op.i \in Nat
        /\ op.previous \in [Layers -> Seq(Children)]
        /\ op.marker \in BOOLEAN /\ op.recovering \in BOOLEAN /\ op.dropped \in BOOLEAN
    <3>2. Shaped(op)
      BY <1>1, NoOpFacts, Zenon
    <3>3. op.plan \in Seq(Entries) /\ op.previous \in [Layers -> Seq(Children)]
      BY <2>1, <1>1, Zenon
    <3>4. op.i = 0 /\ op.marker \in BOOLEAN /\ op.recovering \in BOOLEAN /\ op.dropped \in BOOLEAN
      BY <1>1, NoOpFacts, Zenon
    <3> QED
      BY <3>2, <3>3, <3>4
  <2> QED
    BY <2>2 DEF Settled, Typed
<1>3. PlanOK
  BY <1>1 DEF PlanOK
<1>4. /\ op = NoOp /\ DOMAIN op.plan = {} /\ InPlan = {} /\ Rebuilt = {} /\ Old = panel
      /\ Written = {}
      /\ op.marker = FALSE /\ op.recovering = FALSE
  BY <1>1, <1>2, <1>3, IdleHasNoPlan
<1>5. Books
  BY <1>4 DEF Settled, Books
<1>6. Panels
  BY <1>4 DEF Settled, Panels
<1>7. Owners
  BY DEF Settled
<1>8. Popovers
  BY <1>1, <1>4 DEF Settled, Popovers
<1>9. Fields
  <2>1. \A l \in Layers \ lost : \A w \in ActiveIn(l, active) : Whole(w)
    BY DEF Settled
  <2> QED
    BY <1>4, <2>1 DEF Fields
<1>10. Input
  BY <1>4 DEF Settled, Input
<1>11. Before
  BY <1>1 DEF Before
<1> QED
  BY <1>2, <1>3, <1>5, <1>6, <1>7, <1>8, <1>9, <1>10, <1>11 DEF IInv

LEMMA SettledNext == Settled' => IInv'
<1>1. (Settled => IInv)'
  BY SettledInvariant, PTL
<1> QED
  BY <1>1

\* What Collect leaves of the widgets.
LEMMA Collected ==
    ASSUME NEW act, NEW children, NEW free, free = FreeWidgets(act, children),
           host \in [Widgets -> [Hosts -> HostStates]],
           screenOf \in [Widgets -> Screens \cup {Blank}],
           host' = [w \in Widgets |-> IF w \in free THEN Filled(Blank) ELSE host[w]],
           screenOf' = [w \in Widgets |-> IF w \in free THEN Blank ELSE screenOf[w]]
    PROVE  /\ host' \in [Widgets -> [Hosts -> HostStates]]
           /\ screenOf' \in [Widgets -> Screens \cup {Blank}]
           /\ \A s \in Slots : act[s] \notin free
           /\ \A w \in Widgets : w \notin free => host'[w] = host[w] /\ screenOf'[w] = screenOf[w]
<1>1. \A s \in Slots : act[s] \notin free
  BY DEF FreeWidgets
<1>2. host' \in [Widgets -> [Hosts -> HostStates]]
  BY FilledFacts
<1> QED
  BY <1>1, <1>2

LEMMA FinishFacts ==
    ASSUME IInv, FinishCommit
    PROVE  /\ Rebuilt = Layers /\ lastDoc' = Target /\ CarriedOut(op.plan, active')
           /\ host' \in [Widgets -> [Hosts -> HostStates]]
           /\ screenOf' \in [Widgets -> Screens \cup {Blank}]
           /\ \A j \in DOMAIN op.plan :
                /\ op.plan[j].widget \in Widgets /\ op.plan[j].inst.value \in Values
                /\ op.plan[j].widget \notin FreeWidgets(active', panel)
                /\ host'[op.plan[j].widget] = Filled(op.plan[j].inst.value)
                /\ screenOf'[op.plan[j].widget] = op.plan[j].inst.screen
           /\ lost' = IF op.dropped THEN {OverlayLayer} ELSE {}
           /\ \A l \in Layers :
                /\ l \notin lost' => Documented(panel[l]) = PlanChildren(op.plan, l)
                /\ WidgetsIn(panel[l]) \subseteq WidgetsIn(PlanChildren(op.plan, l))
                /\ panel[l] \in Seq(Children) /\ OnTop(panel[l])
<1> DEFINE plan == op.plan
           act == active'
           free == FreeWidgets(active', panel)
<1>1. Typed /\ PlanOK /\ Books /\ Panels /\ Owners /\ Popovers /\ Fields /\ Input /\ Before
  BY DEF IInv
<1>2. /\ pc = "layers" /\ op.i > Len(LayerOrder) /\ ~op.marker /\ pc' = "idle" /\ op' = NoOp
      /\ op.i \in 1 .. (Len(LayerOrder) + 1) /\ Len(LayerOrder) \in Nat
      /\ panel' = panel /\ hostLocal' = hostLocal /\ nextKey' = nextKey /\ faults' = faults
      /\ active' = PlannedScreens(plan)
      /\ layerOn' = LayerInteractive(plan)
      /\ host' = [w \in Widgets |-> IF w \in free THEN Filled(Blank) ELSE host[w]]
      /\ screenOf' = [w \in Widgets |-> IF w \in free THEN Blank ELSE screenOf[w]]
      /\ widgetOn' = [w \in Widgets |-> w \in free \/ TopModalInteractive(plan, w)]
      /\ \/ op.recovering /\ lastDoc' = lastDoc
         \/ ~op.recovering /\ lastDoc' = op.doc
      /\ lost' = IF op.dropped THEN {OverlayLayer} ELSE {}
  BY <1>1, LayerFacts DEF FinishCommit, PlanOK
<1>3. Rebuilt = Layers
  <2>1. op.i = Len(LayerOrder) + 1
    BY <1>2
  <2>2. RebuiltPlaces = 1 .. Len(LayerOrder)
    BY <1>2, <2>1 DEF RebuiltPlaces
  <2> QED
    BY <2>2, LayerFacts DEF Rebuilt
<1>4. /\ op.doc \in Documents /\ Target \in Documents /\ ~HasDuplicateSlot(Target)
      /\ Len(plan) = Len(Target) /\ plan \in Seq(Entries)
      /\ \A j \in DOMAIN plan : plan[j].inst = Target[j]
      /\ \A i, j \in DOMAIN plan : i # j => plan[i].widget # plan[j].widget
  BY <1>1, <1>2 DEF PlanOK, Typed
<1>5. \A i, j \in DOMAIN plan : i # j => Slot(plan[i].inst) # Slot(plan[j].inst)
  <2>1. DOMAIN plan = DOMAIN Target
    BY <1>4, EntryFacts, DocFacts
  <2> QED
    BY <1>4, <2>1 DEF HasDuplicateSlot
<1>6. lastDoc' = Target
  BY <1>2 DEF Target
<1> HIDE DEF plan
<1>7. CarriedOut(plan, act)
  <2> DEFINE a == active'
  <2>1. a = PlannedScreens(plan)
    BY <1>2
  <2> HIDE DEF a
  <2>2. CarriedOut(plan, a)
    BY <1>4, <1>5, <2>1, PlannedScreensFacts
  <2> QED
    BY <2>2 DEF a
<1>8. \A j \in DOMAIN plan : act[Slot(plan[j].inst)] = plan[j].widget
  BY <1>7 DEF CarriedOut
<1>9. \A l \in Layers :
        /\ l \notin lost' => Documented(panel[l]) = PlanChildren(plan, l)
        /\ WidgetsIn(panel[l]) \subseteq WidgetsIn(PlanChildren(plan, l))
        /\ panel[l] \in Seq(Children) /\ OnTop(panel[l])
  <2>1. OverlayLayer \notin lost' => ~op.dropped
    BY <1>2
  <2> QED
    BY <1>1, <1>2, <1>3, <2>1 DEF Panels, plan, Typed
<1>10. /\ host' \in [Widgets -> [Hosts -> HostStates]]
       /\ screenOf' \in [Widgets -> Screens \cup {Blank}]
       /\ \A s \in Slots : act[s] \notin free
       /\ \A w \in Widgets : w \notin free => host'[w] = host[w] /\ screenOf'[w] = screenOf[w]
  <2> DEFINE fr == free
             a == active'
             ch == panel
  <2>1. fr = FreeWidgets(a, ch)
    OBVIOUS
  <2>2. /\ host \in [Widgets -> [Hosts -> HostStates]]
        /\ screenOf \in [Widgets -> Screens \cup {Blank}]
    BY <1>1 DEF Typed
  <2>3. /\ host' = [w \in Widgets |-> IF w \in fr THEN Filled(Blank) ELSE host[w]]
        /\ screenOf' = [w \in Widgets |-> IF w \in fr THEN Blank ELSE screenOf[w]]
    BY <1>2
  <2> HIDE DEF fr, a
  <2>4. /\ host' \in [Widgets -> [Hosts -> HostStates]]
        /\ screenOf' \in [Widgets -> Screens \cup {Blank}]
        /\ \A s \in Slots : a[s] \notin fr
        /\ \A w \in Widgets : w \notin fr => host'[w] = host[w] /\ screenOf'[w] = screenOf[w]
    BY <2>1, <2>2, <2>3, Collected
  <2> QED
    BY <2>4 DEF fr, a
<1> HIDE DEF free, act
<1>11. \A j \in DOMAIN plan : /\ plan[j].widget \notin free /\ plan[j].widget \in Widgets
                              /\ plan[j].inst.value \in Values /\ Slot(plan[j].inst) \in Slots
  <2>1. \A j \in DOMAIN plan : /\ plan[j].widget \in Widgets
                               /\ plan[j].inst.value \in Values /\ Slot(plan[j].inst) \in Slots
    BY <1>4, EntryFacts
  <2> QED
    BY <1>8, <1>10, <2>1
<1>12. ASSUME NEW j \in DOMAIN plan
       PROVE  /\ host'[plan[j].widget] = Filled(plan[j].inst.value)
              /\ screenOf'[plan[j].widget] = plan[j].inst.screen
  <2>1. host[plan[j].widget] = Committed(plan[j])
    BY <1>1, <1>2 DEF Fields, Written, plan
  <2>2. screenOf[plan[j].widget] = plan[j].inst.screen
    BY <1>1, <1>2 DEF PlanOK, plan
  <2> QED
    BY <1>10, <1>11, <2>1, <2>2 DEF Committed
<1>13. CarriedOut(op.plan, active') /\ Rebuilt = Layers /\ lastDoc' = Target
  BY <1>3, <1>6, <1>7 DEF plan, act
<1> QED
  BY <1>2, <1>9, <1>10, <1>11, <1>12, <1>13 DEF plan, free

LEMMA FinishCommitKeeps ==
    ASSUME IInv, FinishCommit
    PROVE  IInv'
<1> DEFINE plan == op.plan
           act == active'
           free == FreeWidgets(active', panel)
<1>1. Typed /\ PlanOK /\ Books /\ Panels /\ Owners /\ Popovers /\ Fields /\ Input /\ Before
  BY DEF IInv
<1>2. /\ pc = "layers" /\ pc' = "idle" /\ op' = NoOp
      /\ panel' = panel /\ hostLocal' = hostLocal /\ nextKey' = nextKey /\ faults' = faults
      /\ layerOn' = LayerInteractive(plan)
      /\ widgetOn' = [w \in Widgets |-> w \in free \/ TopModalInteractive(plan, w)]
  BY DEF FinishCommit
<1>3. /\ Rebuilt = Layers /\ lastDoc' = Target /\ CarriedOut(plan, active')
      /\ host' \in [Widgets -> [Hosts -> HostStates]]
      /\ screenOf' \in [Widgets -> Screens \cup {Blank}]
      /\ \A j \in DOMAIN plan :
           /\ plan[j].widget \in Widgets /\ plan[j].inst.value \in Values
           /\ plan[j].widget \notin free
           /\ host'[plan[j].widget] = Filled(plan[j].inst.value)
      /\ lost' = IF op.dropped THEN {OverlayLayer} ELSE {}
      /\ \A l \in Layers :
           /\ l \notin lost' => Documented(panel[l]) = PlanChildren(plan, l)
           /\ WidgetsIn(panel[l]) \subseteq WidgetsIn(PlanChildren(plan, l))
           /\ panel[l] \in Seq(Children) /\ OnTop(panel[l])
  BY FinishFacts
<1>4. /\ Target \in Documents /\ ~HasDuplicateSlot(Target)
      /\ Len(plan) = Len(Target) /\ plan \in Seq(Entries)
      /\ \A i, j \in DOMAIN plan : i # j => plan[i].widget # plan[j].widget
  BY <1>1, <1>2 DEF PlanOK, Typed
<1> HIDE DEF plan
<1>7. /\ act \in [Slots -> Widgets \cup {NoWidget}]
      /\ Injective(act)
      /\ {act[s] : s \in Slots} \ {NoWidget} = {plan[j].widget : j \in DOMAIN plan}
      /\ \A l \in Layers : ActiveIn(l, act) =
           {plan[j].widget : j \in {i \in DOMAIN plan : plan[i].inst.layer = l}}
  BY <1>3 DEF CarriedOut
<1>8. 2 * Cardinality(InUse') <= WidgetCount
  <2>1. /\ Cardinality({plan[j].widget : j \in DOMAIN plan}) <= Len(plan)
        /\ Cardinality({plan[j].widget : j \in DOMAIN plan}) \in Nat
    BY <1>4, PlanSize
  <2>2. InUse' = {plan[j].widget : j \in DOMAIN plan}
    BY <1>7 DEF InUse
  <2>3. 2 * Len(plan) <= WidgetCount /\ Len(plan) \in Nat
    BY <1>4, DocFacts
  <2> HIDE DEF act
  <2> QED
    BY <2>1, <2>2, <2>3, Numbers
<1>10. ASSUME NEW l \in Layers
       PROVE  /\ WidgetsIn(panel[l]) \subseteq ActiveIn(l, act)
              /\ l \notin lost' => WidgetsIn(panel[l]) = ActiveIn(l, act)
  <2> DEFINE q == PlanChildren(plan, l)
             mine == Planned(plan, l)
  <2>1. /\ DOMAIN q = DOMAIN mine
        /\ \A n \in DOMAIN q : /\ IsScreen(q[n]) /\ q[n].id = mine[n].widget
                               /\ mine[n].inst.layer = l
                               /\ \E j \in DOMAIN plan : mine[n] = plan[j]
        /\ \A j \in DOMAIN plan : plan[j].inst.layer = l => \E n \in DOMAIN q : mine[n] = plan[j]
    BY <1>4, PlanChildrenFacts
  <2>2. /\ WidgetsIn(q) = {q[n].id : n \in DOMAIN q}
        /\ l \notin lost' => WidgetsIn(panel[l]) = {q[n].id : n \in DOMAIN q}
    <3>1. WidgetsIn(q) = {q[n].id : n \in DOMAIN q}
      BY <2>1 DEF WidgetsIn, ToSet
    <3>2. l \notin lost' => WidgetsIn(panel[l]) = {q[n].id : n \in DOMAIN q}
      BY <1>3, DocumentedFacts
    <3> QED
      BY <3>1, <3>2
  <2>4. WidgetsIn(panel[l]) \subseteq WidgetsIn(q)
    BY <1>3
  <2> HIDE DEF q, mine
  <2>3. {q[n].id : n \in DOMAIN q} = {plan[j].widget : j \in {i \in DOMAIN plan : plan[i].inst.layer = l}}
    BY <2>1
  <2> QED
    BY <1>7, <2>2, <2>3, <2>4
<1> HIDE DEF free, act
<1>13. \A w \in InUse' : Whole(w)'
  <2> SUFFICES ASSUME NEW w \in InUse' PROVE Whole(w)'
    OBVIOUS
  <2>1. PICK j \in DOMAIN plan : w = plan[j].widget
    BY <1>7 DEF InUse, act
  <2>3. host'[w] = Filled(plan[j].inst.value)
    BY <1>3, <2>1
  <2>4. /\ Filled(plan[j].inst.value) = Held([h \in Hosts |-> plan[j].inst.value])
        /\ [h \in Hosts |-> plan[j].inst.value] \in [Hosts -> V]
    BY <1>3, <2>1, FilledFacts
  <2>5. [h \in Hosts |-> Held([x \in Hosts |-> plan[j].inst.value])[h].snap]
          = [h \in Hosts |-> plan[j].inst.value]
    BY <2>4, FilledFacts
  <2> QED
    BY <2>3, <2>4, <2>5 DEF Whole
<1>14. widgetOn' \in [Widgets -> BOOLEAN]
  BY <1>2
<1> DEFINE modals == Documented(panel[ModalLayer])
<1>15. ASSUME ModalLayer \notin lost'
       PROVE  /\ \A l \in Layers : layerOn'[l] = (modals = <<>> \/ l = ModalLayer)
              /\ \A n \in DOMAIN modals : widgetOn'[modals[n].id] = (n = Len(modals))
  <2> DEFINE mine == Planned(plan, ModalLayer)
             tops == Modals(plan)
  <2>1. ModalLayer \in Layers
    BY LayerFacts
  <2>2. /\ modals \in Seq(Children) /\ mine \in Seq(Entries)
        /\ DOMAIN modals = DOMAIN mine /\ Len(modals) = Len(mine) /\ DOMAIN modals = 1 .. Len(modals)
        /\ \A n \in DOMAIN modals : /\ modals[n].id = mine[n].widget
                                    /\ \E j \in DOMAIN plan : mine[n] = plan[j]
    BY <1>3, <1>4, <1>15, <2>1, PlanChildrenFacts
  <2>3. \A m, n \in DOMAIN mine : mine[m].widget = mine[n].widget => m = n
    BY <1>4, PlannedOrder
  <2>4. tops = [n \in DOMAIN mine |-> mine[n].widget]
    BY DEF Modals
  <2> HIDE DEF modals, mine, tops
  <2>5. Len(modals) \in Nat /\ tops \in Seq(Widgets) /\ Len(tops) = Len(modals) /\ DOMAIN tops = DOMAIN mine
    <3>1. \A n \in DOMAIN mine : mine[n].widget \in Widgets
      BY <1>3, <2>2
    <3> QED
      BY <2>2, <2>4, <3>1
  <2>6. (tops = <<>>) <=> (modals = <<>>)
    BY <2>2, <2>5
  <2>7. ASSUME NEW n \in DOMAIN modals
        PROVE  widgetOn'[modals[n].id] = (n = Len(modals))
    <3> DEFINE w == modals[n].id
    <3>1. w = tops[n] /\ w \in ToSet(tops) /\ w \in Widgets /\ w \notin free
      BY <1>3, <2>2, <2>4 DEF ToSet
    <3>2. Last(tops) = tops[Len(modals)] /\ Len(modals) \in DOMAIN tops
      BY <2>2, <2>5 DEF Last
    <3>3. widgetOn'[w] = (w \in free \/ w = tops[Len(modals)])
      BY <1>2, <2>4, <3>1, <3>2 DEF TopModalInteractive, tops
    <3>4. (w = tops[Len(modals)]) <=> (n = Len(modals))
      BY <2>2, <2>3, <2>4, <2>5, <3>1, <3>2
    <3> HIDE DEF w
    <3>5. widgetOn'[w] = (n = Len(modals))
      BY <3>1, <3>3, <3>4
    <3> QED
      BY <3>5 DEF w
  <2>8. \A l \in Layers : layerOn'[l] = (modals = <<>> \/ l = ModalLayer)
    <3>1. \A l \in Layers : layerOn'[l] = (tops = <<>> \/ l = ModalLayer)
      BY <1>2 DEF LayerInteractive, tops
    <3> QED
      BY <2>6, <3>1
  <2> QED
    BY <2>7, <2>8
<1>16. /\ Keys(hostLocal) \subseteq Up(panel[OverlayLayer])
       /\ faults = 0 => Up(panel[OverlayLayer]) \subseteq Keys(hostLocal)
  BY <1>1, <1>3, LayerFacts DEF Popovers
<1>17. Owners'
  BY <1>1, <1>2 DEF Owners
<1>18. Settled'
  <2>1. /\ pc' = "idle" /\ op' = NoOp
        /\ panel' \in [Layers -> Seq(Children)]
        /\ hostLocal' \in Seq(Locals)
        /\ nextKey' \in Nat \ {0} /\ faults' \in Nat
        /\ lost' \subseteq Layers
    BY <1>1, <1>2, <1>3, LayerFacts DEF Typed
  <2>2. active' \in [Slots -> Widgets \cup {NoWidget}] /\ Injective(active')
    BY <1>7 DEF act
  <2>3. \A l \in Layers : /\ OnTop(panel'[l])
                          /\ WidgetsIn(panel'[l]) \subseteq ActiveIn(l, active')
                          /\ l \notin lost' => WidgetsIn(panel'[l]) = ActiveIn(l, active')
    BY <1>2, <1>3, <1>10 DEF act
  <2>4. lastDoc' \in Documents \cup {NoDocument} /\ ~HasDuplicateSlot(lastDoc')
    BY <1>3, <1>4
  <2>5. ModalLayer \notin lost' =>
        /\ \A l \in Layers : layerOn'[l] = (Documented(panel'[ModalLayer]) = <<>> \/ l = ModalLayer)
        /\ \A n \in DOMAIN Documented(panel'[ModalLayer]) :
             widgetOn'[Documented(panel'[ModalLayer])[n].id] = (n = Len(Documented(panel'[ModalLayer])))
    BY <1>2, <1>15
  <2> HIDE DEF modals
  <2>6. /\ Keys(hostLocal') \subseteq Up(panel'[OverlayLayer])
        /\ faults' = 0 => Up(panel'[OverlayLayer]) \subseteq Keys(hostLocal')
    BY <1>2, <1>16
  <2>7. \A l \in Layers \ lost' : \A w \in ActiveIn(l, active') : Whole(w)'
    BY <1>13 DEF ActiveIn, InUse
  <2> QED
    BY <1>3, <1>8, <2>7, <1>14, <1>17, <2>1, <2>2, <2>3, <2>4, <2>5, <2>6 DEF Settled
<1> QED
  BY <1>18, SettledNext

\* A call that has undone what it did, as far as it could.
LEMMA RefusedFacts ==
    ASSUME IInv, pc = "refused"
    PROVE  /\ Rebuilt = {} /\ Old = panel /\ Written = {} /\ faults # 0
           /\ \A l \in Layers : /\ panel[l] \in Seq(Children) /\ OnTop(panel[l])
                                /\ WidgetsIn(panel[l]) \subseteq ActiveIn(l, active)
                                /\ ~op.marker /\ l \notin lost
                                     => WidgetsIn(panel[l]) = ActiveIn(l, active)
           /\ ~op.marker => \A l \in Layers \ lost : \A w \in ActiveIn(l, active) : Whole(w)
           /\ op.recovering => InUse = {}
           /\ op.doc \in Documents
<1>1. Typed /\ PlanOK /\ Books /\ Panels /\ Popovers /\ Fields /\ lost \subseteq Layers
  BY DEF IInv, Typed
<1>2. Rebuilt = {} /\ Written = {}
  BY DEF Rebuilt, RebuiltPlaces, Written
<1>3. Old = panel
  BY <1>1, <1>2 DEF Old, Typed
<1>4. faults # 0
  BY <1>1 DEF Popovers
<1>5. ASSUME ~op.marker, NEW l \in Layers \ lost, NEW w \in ActiveIn(l, active)
      PROVE  Whole(w)
  <2>1. CASE w \in InPlan
    <3>1. PICK j \in DOMAIN op.plan : w = op.plan[j].widget
      BY <2>1 DEF InPlan
    <3>a. PICK s \in Slots : s[1] = l /\ w = active[s] /\ active[s] # NoWidget
      BY DEF ActiveIn
    <3>b. op.plan[j].inst.layer = l /\ w \in InUse
      <4>1. s = Slot(op.plan[j].inst)
        BY <1>1, <3>1, <3>a DEF PlanOK
      <4> QED
        BY <3>a, <4>1 DEF Slot, InUse
    <3>2. host[w] = Held(op.plan[j].prior)
      BY <1>1, <1>2, <1>5, <3>1, <3>b DEF Fields
    <3> DEFINE prior == op.plan[j].prior
    <3>3. prior \in [Hosts -> V]
      BY <1>1, <3>1, EntryFacts DEF Typed
    <3> HIDE DEF prior
    <3>4. [h \in Hosts |-> Held(prior)[h].snap] = prior
      BY <3>3, FilledFacts
    <3>5. host[w] = Held(prior)
      BY <3>2 DEF prior
    <3> QED
      BY <3>4, <3>5 DEF Whole
  <2>2. CASE w \notin InPlan
    BY <1>1, <1>5, <2>2 DEF Fields
  <2> QED
    BY <2>1, <2>2
<1>6. \A l \in Layers : /\ panel[l] \in Seq(Children) /\ OnTop(panel[l])
                        /\ WidgetsIn(panel[l]) \subseteq ActiveIn(l, active)
                        /\ ~op.marker /\ l \notin lost
                             => WidgetsIn(panel[l]) = ActiveIn(l, active)
  BY <1>1, <1>3 DEF Panels, Typed
<1>7. op.recovering => InUse = {}
  BY <1>1 DEF Books
<1>8. op.doc \in Documents
  BY <1>1 DEF PlanOK
<1> QED
  BY <1>2, <1>3, <1>4, <1>5, <1>6, <1>7, <1>8

LEMMA ReturnKeeps ==
    ASSUME IInv, pc = "refused", Collect(panel, active), pc' = "idle", op' = NoOp,
           UNCHANGED <<panel, active, layerOn, hostLocal, nextKey, lastDoc, faults>>,
           lost' \subseteq Layers,
           \A l \in Layers \ lost' : WidgetsIn(panel[l]) = ActiveIn(l, active),
           \A l \in Layers \ lost' : \A w \in ActiveIn(l, active) : Whole(w),
           health' # "failed" => /\ health # "failed" /\ ~op.marker /\ ~op.recovering
                                 /\ lost' = lost
    PROVE  IInv'
<1> DEFINE free == FreeWidgets(active, panel)
<1>1. Typed /\ PlanOK /\ Books /\ Panels /\ Owners /\ Popovers /\ Fields /\ Input /\ Before
  BY DEF IInv
<1>2. /\ Old = panel /\ faults # 0
      /\ \A l \in Layers : /\ panel[l] \in Seq(Children) /\ OnTop(panel[l])
                            /\ WidgetsIn(panel[l]) \subseteq ActiveIn(l, active)
  BY RefusedFacts
<1>3. /\ host' = [w \in Widgets |-> IF w \in free THEN Filled(Blank) ELSE host[w]]
      /\ screenOf' = [w \in Widgets |-> IF w \in free THEN Blank ELSE screenOf[w]]
      /\ widgetOn' = [w \in Widgets |-> w \in free \/ widgetOn[w]]
  BY DEF Collect
<1>4. /\ host' \in [Widgets -> [Hosts -> HostStates]]
      /\ screenOf' \in [Widgets -> Screens \cup {Blank}]
      /\ \A s \in Slots : active[s] \notin free
      /\ \A w \in Widgets : w \notin free => host'[w] = host[w] /\ screenOf'[w] = screenOf[w]
  <2> DEFINE fr == free
             a == active
             ch == panel
  <2>1. fr = FreeWidgets(a, ch)
    OBVIOUS
  <2>2. /\ host \in [Widgets -> [Hosts -> HostStates]]
        /\ screenOf \in [Widgets -> Screens \cup {Blank}]
    BY <1>1 DEF Typed
  <2>3. /\ host' = [w \in Widgets |-> IF w \in fr THEN Filled(Blank) ELSE host[w]]
        /\ screenOf' = [w \in Widgets |-> IF w \in fr THEN Blank ELSE screenOf[w]]
    BY <1>3
  <2> HIDE DEF fr, a
  <2>4. /\ host' \in [Widgets -> [Hosts -> HostStates]]
        /\ screenOf' \in [Widgets -> Screens \cup {Blank}]
        /\ \A s \in Slots : a[s] \notin fr
        /\ \A w \in Widgets : w \notin fr => host'[w] = host[w] /\ screenOf'[w] = screenOf[w]
    BY <2>1, <2>2, <2>3, Collected
  <2> QED
    BY <2>4 DEF fr, a
<1> HIDE DEF free
<1>5. \A w \in InUse : w \in Widgets /\ w \notin free
  BY <1>1, <1>4 DEF InUse, Typed
<1>6. \A l \in Layers \ lost' : \A w \in ActiveIn(l, active') : Whole(w)'
  <2>1. \A l \in Layers : ActiveIn(l, active) \subseteq InUse
    BY DEF InUse, ActiveIn
  <2> QED
    BY <1>4, <1>5, <2>1 DEF Whole
<1>7. widgetOn' \in [Widgets -> BOOLEAN]
  BY <1>3
<1> DEFINE modals == Documented(panel[ModalLayer])
<1>8. health' # "failed" /\ ModalLayer \notin lost' =>
        /\ \A l \in Layers : layerOn[l] = (modals = <<>> \/ l = ModalLayer)
        /\ \A n \in DOMAIN modals : widgetOn'[modals[n].id] = (n = Len(modals))
  <2> SUFFICES ASSUME health' # "failed", ModalLayer \notin lost'
               PROVE  /\ \A l \in Layers : layerOn[l] = (modals = <<>> \/ l = ModalLayer)
                      /\ \A n \in DOMAIN modals : widgetOn'[modals[n].id] = (n = Len(modals))
    OBVIOUS
  <2>1. /\ \A l \in Layers : layerOn[l] = (modals = <<>> \/ l = ModalLayer)
        /\ \A n \in DOMAIN modals : widgetOn[modals[n].id] = (n = Len(modals))
    BY <1>1, <1>2 DEF Input
  <2>2. ModalLayer \in Layers
    BY LayerFacts
  <2>3. \A n \in DOMAIN modals : modals[n].id \in WidgetsIn(panel[ModalLayer])
    BY <1>2, <2>2, DocumentedFacts
  <2> HIDE DEF modals
  <2>a. \A l \in Layers : ActiveIn(l, active) \subseteq InUse
    BY DEF InUse, ActiveIn
  <2>4. \A w \in WidgetsIn(panel[ModalLayer]) : w \in InUse
    BY <1>2, <2>2, <2>a
  <2>5. ASSUME NEW n \in DOMAIN modals
        PROVE  widgetOn'[modals[n].id] = (n = Len(modals))
    <3>1. modals[n].id \in Widgets /\ modals[n].id \notin free
      BY <1>5, <2>3, <2>4
    <3>2. widgetOn'[modals[n].id] = (FALSE \/ widgetOn[modals[n].id])
      BY <1>3, <3>1
    <3> QED
      BY <2>1, <3>2
  <2> QED
    BY <2>1, <2>5
<1>9. Owners'
  BY <1>1 DEF Owners
<1>10. health' # "failed" /\ OverlayLayer \notin lost' => Keys(hostLocal) \subseteq Up(panel[OverlayLayer])
  BY <1>1, <1>2 DEF Popovers
<1>11. Settled'
  <2>1. /\ panel' = panel /\ active' = active /\ layerOn' = layerOn /\ hostLocal' = hostLocal
        /\ nextKey' = nextKey /\ lastDoc' = lastDoc /\ faults' = faults /\ InUse' = InUse
    BY DEF InUse
  <2>2. Injective(active) /\ 2 * Cardinality(InUse) <= WidgetCount
    BY <1>1 DEF Books
  <2>3. /\ health' # "failed" /\ ModalLayer \notin lost' =>
             /\ \A l \in Layers : layerOn'[l] = (Documented(panel'[ModalLayer]) = <<>> \/ l = ModalLayer)
             /\ \A n \in DOMAIN Documented(panel'[ModalLayer]) :
                  widgetOn'[Documented(panel'[ModalLayer])[n].id] = (n = Len(Documented(panel'[ModalLayer])))
    BY <1>8, <2>1
  <2> HIDE DEF modals
  <2>4. /\ panel \in [Layers -> Seq(Children)]
        /\ active \in [Slots -> Widgets \cup {NoWidget}]
        /\ hostLocal \in Seq(Locals)
        /\ nextKey \in Nat \ {0}
        /\ lastDoc \in Documents \cup {NoDocument}
        /\ lastDoc # NoDocument => ~HasDuplicateSlot(lastDoc)
        /\ faults \in Nat
    BY <1>1 DEF Typed
  <2> QED
    BY <1>2, <1>4, <1>6, <1>7, <1>9, <1>10, <2>1, <2>2, <2>3, <2>4 DEF Settled
<1> QED
  BY <1>11, SettledNext

LEMMA ReturnRefusedKeeps ==
    ASSUME IInv, ReturnRefused
    PROVE  IInv'
<1>1. /\ pc = "refused" /\ ~op.recovering /\ ~op.marker /\ Collect(panel, active)
      /\ pc' = "idle" /\ op' = NoOp
      /\ UNCHANGED <<panel, active, layerOn, hostLocal, nextKey, lastDoc, faults>>
      /\ health' = health /\ lost' = lost
  BY DEF ReturnRefused
<1>2. /\ \A l \in Layers \ lost : WidgetsIn(panel[l]) = ActiveIn(l, active)
      /\ \A l \in Layers \ lost : \A w \in ActiveIn(l, active) : Whole(w)
      /\ lost \subseteq Layers
  BY <1>1, RefusedFacts DEF IInv, Typed
<1> QED
  BY <1>1, <1>2, ReturnKeeps

LEMMA RecoveryFailsKeeps ==
    ASSUME IInv, RecoveryFails
    PROVE  IInv'
<1>1. /\ pc = "refused" /\ op.recovering /\ Collect(panel, active)
      /\ pc' = "idle" /\ op' = NoOp
      /\ UNCHANGED <<panel, active, layerOn, hostLocal, nextKey, lastDoc, faults>>
      /\ health' = "failed" /\ lost' = {}
  BY DEF RecoveryFails
<1>2. InUse = {} /\ \A l \in Layers : WidgetsIn(panel[l]) \subseteq ActiveIn(l, active)
  BY <1>1, RefusedFacts
<1>3. \A l \in Layers : ActiveIn(l, active) \subseteq InUse
  BY DEF ActiveIn, InUse
<1>4. /\ \A l \in Layers : WidgetsIn(panel[l]) = ActiveIn(l, active)
      /\ \A l \in Layers : \A w \in ActiveIn(l, active) : Whole(w)
  BY <1>2, <1>3
<1> QED
  BY <1>1, <1>4, ReturnKeeps

LEMMA OpRecovers ==
    ASSUME Shaped(op), NEW plan,
           op' = [op EXCEPT !.plan = plan, !.i = 1, !.marker = FALSE,
                               !.recovering = TRUE, !.dropped = FALSE]
    PROVE  /\ Shaped(op)' /\ op'.doc = op.doc /\ op'.plan = plan /\ op'.i = 1
           /\ op'.previous = op.previous /\ op'.marker = FALSE /\ op'.recovering = TRUE
           /\ op'.before = op.before /\ op'.dropped = FALSE
  BY DEF Shaped

LEMMA RecoverKeeps ==
    ASSUME IInv, Recover
    PROVE  IInv'
<1> DEFINE st == ClearAllLayers({})
           cleared == [EmptyPicture EXCEPT ![OverlayLayer] = st.children]
           nothing == [s \in Slots |-> NoWidget]
           free == FreeWidgets(nothing, cleared)
           plan == PlanFor(lastDoc, nothing, free)
<1>1. Typed /\ PlanOK /\ Books /\ Panels /\ Owners /\ Popovers /\ Fields /\ Input /\ Before
  BY DEF IInv
<1>2. /\ pc = "refused" /\ ~op.recovering /\ op.marker
      /\ panel' = cleared /\ hostLocal' = st.locals /\ active' = nothing
      /\ UNCHANGED <<layerOn, nextKey, lastDoc>>
      /\ \/ /\ faults' = IF lastDoc = NoDocument THEN faults ELSE faults + 1
            /\ health' = "failed" /\ lost' = {}
            /\ Collect(cleared, nothing)
            /\ pc' = "idle"
            /\ op' = NoOp
         \/ /\ lastDoc # NoDocument
            /\ CreateCandidates(plan)
            /\ pc' = "commit"
            /\ op' = [op EXCEPT !.plan = plan, !.i = 1, !.marker = FALSE,
                               !.recovering = TRUE, !.dropped = FALSE]
            /\ UNCHANGED <<health, lost, faults>>
  BY DEF Recover
<1>3. /\ Rebuilt = {} /\ Old = panel /\ faults # 0 /\ op.doc \in Documents
  BY <1>2, RefusedFacts
<1>4. st.locals = <<>> /\ st.children \in Seq(Children) /\ OnTop(st.children) /\ WidgetsIn(st.children) = {}
  <2>1. /\ hostLocal \in Seq(Locals) /\ panel[OverlayLayer] \in Seq(Children)
        /\ OnTop(panel[OverlayLayer]) /\ Ordered(hostLocal)
        /\ WidgetsIn(panel[OverlayLayer]) \subseteq ActiveIn(OverlayLayer, active)
    BY <1>1, <1>3, LayerFacts DEF Typed, Panels, Owners
  <2>2. SoundOverlay(Overlay)
    BY <2>1 DEF SoundOverlay, Overlay, OverlayStates
  <2>3. \A e \in ToSet(hostLocal) : \E l \in Layers : e.owner \in WidgetsIn(panel[l])
    BY <1>1, LayerFacts DEF Owners
  <2> QED
    BY <2>1, <2>2, <2>3, ClearAllFacts
<1> HIDE DEF st
<1>5. /\ cleared \in [Layers -> Seq(Children)]
      /\ \A l \in Layers : OnTop(cleared[l]) /\ WidgetsIn(cleared[l]) = {}
  BY <1>4, EmptyPanel, LayerFacts DEF EmptyPicture
<1> HIDE DEF cleared
<1>6. /\ nothing \in [Slots -> Widgets \cup {NoWidget}]
      /\ \A s \in Slots : nothing[s] = NoWidget
  OBVIOUS
<1> HIDE DEF nothing
<1>7. /\ Injective(nothing)
      /\ \A l \in Layers : ActiveIn(l, nothing) = {}
      /\ {nothing[s] : s \in Slots} \ {NoWidget} = {}
      /\ 2 * Cardinality({nothing[s] : s \in Slots} \ {NoWidget}) <= WidgetCount
  <2>1. {nothing[s] : s \in Slots} \ {NoWidget} = {}
    BY <1>6
  <2>2. Cardinality({nothing[s] : s \in Slots} \ {NoWidget}) = 0
    BY <2>1, FS_EmptySet
  <2> QED
    BY <1>6, <2>1, <2>2, Numbers DEF Injective, ActiveIn
<1>8. /\ host \in [Widgets -> [Hosts -> HostStates]]
      /\ screenOf \in [Widgets -> Screens \cup {Blank}] /\ widgetOn \in [Widgets -> BOOLEAN]
      /\ nextKey \in Nat \ {0} /\ faults \in Nat
      /\ lastDoc \in Documents \cup {NoDocument}
      /\ lastDoc # NoDocument => ~HasDuplicateSlot(lastDoc)
      /\ lost \subseteq Layers /\ Shaped(op) /\ op.previous \in [Layers -> Seq(Children)]
  BY <1>1 DEF Typed
<1>9. InUse' = {}
  BY <1>2, <1>7 DEF InUse
<1>10. /\ hostLocal' = <<>> /\ hostLocal' \in Seq(Locals) /\ Keys(hostLocal') = {}
       /\ Owners'
  <2>1. hostLocal' = <<>> /\ ToSet(<<>>) = {} /\ DOMAIN <<>> = {}
    BY <1>2, <1>4 DEF ToSet
  <2> QED
    BY <2>1 DEF Owners, Ordered, Keys
<1>11. \A l \in Layers : OnTop(panel'[l]) /\ WidgetsIn(panel'[l]) = ActiveIn(l, active')
  BY <1>2, <1>5, <1>7
<1>12. CASE /\ faults' = IF lastDoc = NoDocument THEN faults ELSE faults + 1
            /\ health' = "failed" /\ lost' = {}
            /\ Collect(cleared, nothing)
            /\ pc' = "idle"
            /\ op' = NoOp
  <2>1. /\ host' = [w \in Widgets |-> IF w \in free THEN Filled(Blank) ELSE host[w]]
        /\ screenOf' = [w \in Widgets |-> IF w \in free THEN Blank ELSE screenOf[w]]
        /\ widgetOn' = [w \in Widgets |-> w \in free \/ widgetOn[w]]
    BY <1>12 DEF Collect
  <2> HIDE DEF free
  <2>2. /\ host' \in [Widgets -> [Hosts -> HostStates]]
        /\ screenOf' \in [Widgets -> Screens \cup {Blank}]
        /\ widgetOn' \in [Widgets -> BOOLEAN]
    BY <1>8, <2>1, FilledFacts
  <2>3. faults' \in Nat /\ faults' # 0
    BY <1>3, <1>8, <1>12
  <2>4. /\ panel' \in [Layers -> Seq(Children)] /\ active' \in [Slots -> Widgets \cup {NoWidget}]
        /\ Injective(active') /\ 2 * Cardinality(InUse') <= WidgetCount
    BY <1>2, <1>5, <1>6, <1>7, <1>9
  <2>6. \A l \in Layers : ActiveIn(l, active') = {}
    BY <1>2, <1>7
  <2>5. Settled'
    BY <2>6, <1>2, <1>8, <1>9, <1>10, <1>11, <1>12, <2>2, <2>3, <2>4 DEF Settled
  <2> QED
    BY <2>5, SettledNext
<1>13. CASE /\ lastDoc # NoDocument
            /\ CreateCandidates(plan)
            /\ pc' = "commit"
            /\ op' = [op EXCEPT !.plan = plan, !.i = 1, !.marker = FALSE,
                               !.recovering = TRUE, !.dropped = FALSE]
            /\ UNCHANGED <<health, lost, faults>>
  <2>1. lastDoc \in Documents /\ ~HasDuplicateSlot(lastDoc)
    BY <1>8, <1>13
  <2> DEFINE p == plan
             d == lastDoc
  <2>2. p = PlanFor(d, nothing, free) /\ free = FreeWidgets(nothing, cleared)
    OBVIOUS
  <2>3. CreateCandidates(p) /\ d \in Documents /\ ~HasDuplicateSlot(d)
    BY <1>13, <2>1
  <2> HIDE DEF free, p, d, plan
  <2>4. /\ \A l \in Layers : WidgetsIn(cleared[l]) \subseteq ActiveIn(l, nothing)
        /\ \A s \in Slots : nothing[s] # NoWidget => Whole(nothing[s])
    BY <1>5, <1>6, <1>7
  <2>5. Started(d, nothing, p)
    BY <1>6, <1>7, <1>8, <2>2, <2>3, <2>4, CallStarts
  <2>6. /\ p \in Seq(Entries) /\ Len(p) = Len(d) /\ DOMAIN p = DOMAIN d
        /\ \A j \in DOMAIN p :
             /\ p[j].inst = d[j]
             /\ screenOf'[p[j].widget] = p[j].inst.screen
             /\ \A s \in Slots : p[j].widget = nothing[s] => s = Slot(p[j].inst)
        /\ \A i, j \in DOMAIN p : i # j => p[i].widget # p[j].widget
        /\ host' \in [Widgets -> [Hosts -> HostStates]]
        /\ screenOf' \in [Widgets -> Screens \cup {Blank}] /\ widgetOn' \in [Widgets -> BOOLEAN]
    BY <2>5 DEF Started
  <2>7. /\ Shaped(op)' /\ op'.doc = op.doc /\ op'.plan = p /\ op'.i = 1
        /\ op'.previous = op.previous /\ op'.marker = FALSE /\ op'.recovering = TRUE
        /\ op'.dropped = FALSE
    BY <1>8, <1>13, OpRecovers DEF p
  <2>8. RebuiltPlaces' = {} /\ Rebuilt' = {} /\ Old' = panel' /\ Written' = {}
    <3>1. 1 .. (1 - 1) = {}
      OBVIOUS
    <3> QED
      BY <1>2, <1>5, <1>13, <2>7, <3>1 DEF RebuiltPlaces, Rebuilt, Old, Written
  <2>9. Typed'
    <3>1. op'.marker \in BOOLEAN /\ op'.recovering \in BOOLEAN /\ op'.dropped \in BOOLEAN
          /\ op'.i \in Nat
      <4>1. op'.marker \in BOOLEAN /\ op'.recovering \in BOOLEAN /\ op'.dropped \in BOOLEAN
        BY <2>7, Zenon
      <4>2. op'.i \in Nat
        BY <2>7
      <4> QED
        BY <4>1, <4>2
    <3>2. panel' \in [Layers -> Seq(Children)] /\ active' \in [Slots -> Widgets \cup {NoWidget}]
      BY <1>2, <1>5, <1>6
    <3> QED
      BY <1>2, <1>8, <1>10, <1>13, <2>6, <2>7, <3>1, <3>2 DEF Typed
  <2>10. PlanOK'
    <3>1. Target' = d /\ op'.doc \in Documents
      BY <1>2, <1>3, <2>7 DEF Target, d
    <3>2. Len(p) \in Nat /\ 1 \in 1 .. (Len(p) + 1)
      BY <2>6, EntryFacts
    <3>3. /\ \A j \in DOMAIN op'.plan : /\ op'.plan[j].inst = Target'[j]
                                        /\ screenOf'[op'.plan[j].widget] = op'.plan[j].inst.screen
          /\ \A i, j \in DOMAIN op'.plan : i # j => op'.plan[i].widget # op'.plan[j].widget
          /\ \A j \in DOMAIN op'.plan : \A s \in Slots :
                op'.plan[j].widget = active'[s] => s = Slot(op'.plan[j].inst)
          /\ op'.i \in 1 .. (Len(op'.plan) + 1)
          /\ Len(op'.plan) = Len(Target')
      BY <1>2, <2>6, <2>7, <3>1, <3>2
    <3> QED
      BY <1>13, <2>3, <2>7, <3>1, <3>3 DEF PlanOK
  <2>11. Books'
    BY <1>2, <1>7, <1>9 DEF Books
  <2>12. Panels'
    BY <1>11, <2>7, <2>8 DEF Panels
  <2>13. Popovers'
    BY <1>3, <1>13, <2>7, <2>8 DEF Popovers
  <2>14. Fields'
    <3>1. \A l \in Layers : ActiveIn(l, active') = {}
      BY <1>2, <1>7
    <3> QED
      BY <1>9, <2>7, <2>8, <3>1 DEF Fields
  <2>15. Input' /\ Before'
    BY <2>7 DEF Input, Before
  <2> QED
    BY <1>10, <2>9, <2>10, <2>11, <2>12, <2>13, <2>14, <2>15 DEF IInv
<1> QED
  BY <1>2, <1>12, <1>13

-----------------------------------------------------------------------------
(***************************************************************************)
(* Every step keeps the invariant.                                         *)
(***************************************************************************)
LEMMA NextKeeps ==
    ASSUME IInv, [Next]_vars
    PROVE  IInv'
<1>1. ASSUME NEW d \in Documents, Reconcile(d) PROVE IInv'
  BY <1>1, ReconcileKeeps
<1>2. ASSUME CommitScreenFields PROVE IInv'
  BY <1>2, CommitScreenFieldsKeeps
<1>3. ASSUME CommitScreenFieldsFails PROVE IInv'
  BY <1>3, CommitScreenFieldsFailsKeeps
<1>4. ASSUME CentralStyleFails PROVE IInv'
  BY <1>4, CentralStyleFailsKeeps
<1>5. ASSUME StartLayers PROVE IInv'
  BY <1>5, StartLayersKeeps
<1>6. ASSUME CommitLayer PROVE IInv'
  BY <1>6, CommitLayerKeeps
<1>7. ASSUME CommitLayerFails PROVE IInv'
  BY <1>7, CommitLayerFailsKeeps
<1>8. ASSUME FinishCommit PROVE IInv'
  BY <1>8, FinishCommitKeeps
<1>9. ASSUME UndoScreen PROVE IInv'
  BY <1>9, UndoScreenKeeps
<1>10. ASSUME RestoreLayer PROVE IInv'
  BY <1>10, RestoreLayerKeeps
<1>11. ASSUME ReturnRefused PROVE IInv'
  BY <1>11, ReturnRefusedKeeps
<1>12. ASSUME Recover PROVE IInv'
  BY <1>12, RecoverKeeps
<1>13. ASSUME RecoveryFails PROVE IInv'
  BY <1>13, RecoveryFailsKeeps
<1>14. ASSUME NEW w \in Widgets, AttachHostLocalScreen(w) PROVE IInv'
  BY <1>14, AttachHostLocalScreenKeeps
<1>15. ASSUME NEW key \in 1 .. MaxPopovers, DetachHostLocalScreen(key) PROVE IInv'
  BY <1>15, DetachHostLocalScreenKeeps
<1>16. ASSUME Publish PROVE IInv'
  BY <1>16, PublishKeeps
<1>17. ASSUME Teardown PROVE IInv'
  BY <1>17, TeardownKeeps
<1>a. ASSUME HostInvalidated PROVE IInv'
  BY <1>a, HostInvalidatedKeeps
<1>18. ASSUME UNCHANGED vars PROVE IInv'
  <2>1. faults \in Nat
    BY DEF IInv, Typed
  <2> QED
    BY <1>18, <2>1, SameScreen DEF vars
<1> QED
  BY <1>1, <1>2, <1>3, <1>4, <1>5, <1>6, <1>7, <1>8, <1>9, <1>10, <1>11, <1>12, <1>13, <1>14,
     <1>15, <1>16, <1>17, <1>18, <1>a DEF Next, Commit, Undo

LEMMA IInvAlways == Spec => []IInv
<1>1. Init => IInv
  BY InitInvariant
<1>2. IInv /\ [Next]_vars => IInv'
  BY NextKeeps
<1> QED
  BY <1>1, <1>2, PTL DEF Spec

(***************************************************************************)
(* A modal blocks everything below it.  Between two calls of Reconcile,    *)
(* whatever failed in them, only the modal layer takes input if it has a   *)
(* screen, and there only the topmost; every layer does if it has none.    *)
(* The exception is a modal layer one of whose screens was lost.           *)
(* CommitReconcile sets this in its last part (FinishCommit) only, for the *)
(* whole document and after the last step that can fail, so that a         *)
(* document which is refused must have left the old layers alone.          *)
(***************************************************************************)
THEOREM OnlyTopModalTakesInputAlways == Spec => []OnlyTopModalTakesInput
<1>1. IInv => OnlyTopModalTakesInput
  <2> SUFFICES ASSUME IInv, pc = "idle", health # "failed", ModalLayer \notin lost
               PROVE  LET modals == Documented(panel[ModalLayer])
                      IN  /\ \A l \in Layers : layerOn[l] = (modals = <<>> \/ l = ModalLayer)
                          /\ \A n \in DOMAIN modals : widgetOn[modals[n].id] = (n = Len(modals))
    BY DEF OnlyTopModalTakesInput
  <2>1. op.marker = FALSE /\ op.recovering = FALSE /\ Old = panel
    BY IdleFacts
  <2> QED
    BY <2>1 DEF IInv, Input
<1> QED
  BY <1>1, IInvAlways, PTL

(***************************************************************************)
(* ActiveScreens agrees with the panels.  Between two calls it names every *)
(* screen in a layer, and, in a layer that lost none, no other; there all  *)
(* that is shown is what the committed snapshots hold, and the popovers in *)
(* the overlay layer are those registered, above the document, in the      *)
(* order they were opened.  This is what the next inverse plan and the     *)
(* next rebuild start from.                                                *)
(***************************************************************************)
THEOREM AccountsMatchScreenAlways == Spec => []AccountsMatchScreen
<1>1. IInv => AccountsMatchScreen
  <2> SUFFICES ASSUME IInv, pc = "idle"
               PROVE  ScreensAccounted /\ PopoversAccounted
    BY DEF AccountsMatchScreen
  <2>1. /\ \A l \in Layers : /\ WidgetsIn(panel[l]) \subseteq ActiveIn(l, active)
                             /\ l \notin lost => WidgetsIn(panel[l]) = ActiveIn(l, active)
                             /\ panel[l] \in Seq(Children) /\ OnTop(panel[l])
        /\ \A s \in Slots : active[s] # NoWidget /\ s[1] \notin lost => Whole(active[s])
        /\ op = NoOp /\ op.marker = FALSE /\ op.recovering = FALSE /\ Old = panel
    BY IdleFacts
  <2>2. ScreensAccounted
    <3> SUFFICES ASSUME NEW l \in Layers
                 PROVE  LET named == {active[s] : s \in {x \in Slots : x[1] = l}} \ {NoWidget}
                        IN  /\ WidgetsIn(panel[l]) \subseteq named
                            /\ l \notin lost =>
                                 /\ WidgetsIn(panel[l]) = named
                                 /\ \A w \in named, h \in Hosts, m \in Mutations :
                                      host[w][h].shown[m] = host[w][h].snap
      BY DEF ScreensAccounted
    <3>1. /\ WidgetsIn(panel[l]) \subseteq ActiveIn(l, active)
          /\ l \notin lost => WidgetsIn(panel[l]) = ActiveIn(l, active)
      BY <2>1
    <3>2. ASSUME l \notin lost, NEW w \in ActiveIn(l, active), NEW h \in Hosts, NEW m \in Mutations
          PROVE  host[w][h].shown[m] = host[w][h].snap
      <4>1. PICK s \in Slots : s[1] = l /\ w = active[s] /\ active[s] # NoWidget
        BY DEF ActiveIn
      <4>2. Whole(w)
        BY <2>1, <3>2, <4>1
      <4> DEFINE prior == [g \in Hosts |-> host[w][g].snap]
      <4>3. host[w] = Held(prior) /\ prior[h] = host[w][h].snap
        BY <4>2 DEF Whole
      <4> HIDE DEF prior
      <4>4. host[w][h].shown[m] = prior[h]
        BY <4>3 DEF Held
      <4> QED
        BY <4>3, <4>4
    <3> QED
      BY <3>1, <3>2 DEF ActiveIn
  <2>3. PopoversAccounted
    <3>1. OverlayLayer \in Layers
      BY LayerFacts
    <3>2. /\ health # "failed" /\ OverlayLayer \notin lost
                => Keys(hostLocal) \subseteq Up(panel[OverlayLayer])
          /\ faults = 0 => Up(panel[OverlayLayer]) \subseteq Keys(hostLocal)
      BY <2>1 DEF IInv, Popovers
    <3> QED
      BY <2>1, <3>1, <3>2 DEF PopoversAccounted, OnTop, Up, Keys
  <2> QED
    BY <2>2, <2>3
<1> QED
  BY <1>1, IInvAlways, PTL

-----------------------------------------------------------------------------
(***************************************************************************)
(* Types.  What IInv does not say of them: no screen hangs twice in a      *)
(* panel, and the bounds.                                                  *)
(***************************************************************************)
Bounds ==
    /\ shell \in {"none", "pending", "active"}
    /\ layerOn \in [Layers -> BOOLEAN]
    /\ nextKey \in 1 .. (MaxPopovers + 1)
    /\ health \in {"nominal", "recovered", "failed"}
    /\ faults \in 0 .. MaxFaults

NoneTwice == \A l \in Layers : Once(panel[l]) /\ Once(op.previous[l])

\* With the popovers in order, no child at all is there twice.
LEMMA OnceIsInjective ==
    ASSUME NEW children \in Seq(Children), OnTop(children), Once(children)
    PROVE  Cardinality(ToSet(children)) = Len(children)
<1> DEFINE places == ScreenPlaces(children)
           docs == Documented(children)
           N == Cardinality(places)
<1>1. docs = Selected(children, places) /\ places \subseteq DOMAIN children
  BY DEF Documented, ScreenPlaces
<1> HIDE DEF places
<1>2. /\ N \in Nat /\ DOMAIN docs = 1 .. N
      /\ \A i \in places : \E n \in 1 .. N : i = Nth(places, n) /\ docs[n] = children[i]
  <2>1. LET q == Selected(children, places)
        IN  /\ N \in Nat /\ DOMAIN q = 1 .. N
            /\ \A i \in places : \E n \in 1 .. N : i = Nth(places, n) /\ q[n] = children[i]
    BY <1>1, SelectionKeepsOrder
  <2> QED
    BY <1>1, <2>1
<1>3. \A m, n \in 1 .. N : docs[m].id = docs[n].id => m = n
  BY <1>2 DEF Once
<1> HIDE DEF docs, N
<1>4. ASSUME NEW i \in DOMAIN children, NEW j \in DOMAIN children, i < j
      PROVE  children[i] # children[j]
  <2> SUFFICES ASSUME children[i] = children[j] PROVE FALSE
    OBVIOUS
  <2>1. IsScreen(children[i]) \/ children[i].id < children[j].id
    BY <1>4 DEF OnTop
  <2>2. children[j] \in Children
    OBVIOUS
  <2>3. children[j].id \in Nat
    BY <2>2, Numbers DEF Children, Widgets
  <2>4. IsScreen(children[i]) /\ IsScreen(children[j])
    BY <2>1, <2>3
  <2>5. i \in places /\ j \in places
    BY <2>4 DEF places, ScreenPlaces
  <2>6. PICK m \in 1 .. N : i = Nth(places, m) /\ docs[m] = children[i]
    BY <1>2, <2>5
  <2>7. PICK n \in 1 .. N : j = Nth(places, n) /\ docs[n] = children[j]
    BY <1>2, <2>5
  <2>8. m = n
    BY <1>3, <2>6, <2>7
  <2>9. i \in Nat /\ j \in Nat
    OBVIOUS
  <2> QED
    BY <1>4, <2>6, <2>7, <2>8, <2>9
<1>5. \A i, j \in 1 .. Len(children) : children[i] = children[j] => i = j
  <2>1. /\ Len(children) \in Nat /\ DOMAIN children = 1 .. Len(children)
        /\ \A i \in 1 .. Len(children) : i \in Nat
    OBVIOUS
  <2> SUFFICES ASSUME NEW i \in 1 .. Len(children), NEW j \in 1 .. Len(children),
                      children[i] = children[j], i # j
               PROVE  FALSE
    OBVIOUS
  <2>2. i < j \/ j < i
    BY <2>1
  <2> QED
    BY <1>4, <2>1, <2>2
<1>6. /\ Len(children) \in Nat
      /\ ToSet(children) = {children[i] : i \in 1 .. Len(children)}
      /\ DOMAIN children = 1 .. Len(children)
  BY DEF ToSet
<1>7. children \in Bijection(1 .. Len(children), ToSet(children))
  BY <1>5, <1>6 DEF Bijection, Injection, Surjection, IsInjective
<1>8. IsFiniteSet(1 .. Len(children)) /\ Cardinality(1 .. Len(children)) = Len(children)
  BY <1>6, FS_Interval
<1>9. ExistsBijection(1 .. Len(children), ToSet(children))
  BY <1>7 DEF ExistsBijection
<1> QED
  BY <1>8, <1>9, FS_Bijection

LEMMA SameOnce ==
    ASSUME NEW a, NEW b, Documented(a) = Documented(b), Once(a)
    PROVE  Once(b)
  BY DEF Once

LEMMA EmptyOnce ==
    ASSUME NEW children \in Seq(Children), WidgetsIn(children) = {}
    PROVE  Once(children)
<1> DEFINE docs == Documented(children)
<1>1. WidgetsIn(children) = {docs[n].id : n \in DOMAIN docs}
  BY DocumentedFacts
<1> HIDE DEF docs
<1>2. DOMAIN docs = {}
  BY <1>1
<1> QED
  BY <1>2 DEF Once, docs

LEMMA PlannedOnce ==
    ASSUME NEW plan \in Seq(Entries), NEW l, NEW children,
           \A i, j \in DOMAIN plan : i # j => plan[i].widget # plan[j].widget,
           Documented(children) = PlanChildren(plan, l)
    PROVE  Once(children)
<1> DEFINE q == PlanChildren(plan, l)
           mine == Planned(plan, l)
<1>1. \A m, n \in DOMAIN mine : mine[m].widget = mine[n].widget => m = n
  BY PlannedOrder
<1>2. DOMAIN q = DOMAIN mine /\ \A n \in DOMAIN q : q[n].id = mine[n].widget
  BY PlanChildrenFacts
<1> HIDE DEF q, mine
<1>3. Documented(children) = q
  BY DEF q
<1> QED
  BY <1>1, <1>2, <1>3 DEF Once

LEMMA NothingOnce ==
    IInv /\ pc \in {"idle", "commit"} /\ (\A s \in Slots : active[s] = NoWidget)
        => \A l \in Layers : Once(panel[l])
<1> SUFFICES ASSUME IInv, pc \in {"idle", "commit"}, \A s \in Slots : active[s] = NoWidget,
                    NEW l \in Layers
             PROVE  Once(panel[l])
  OBVIOUS
<1>1. Rebuilt = {} /\ Old[l] = panel[l]
  BY DEF Rebuilt, RebuiltPlaces, Old
<1>2. panel[l] \in Seq(Children) /\ WidgetsIn(panel[l]) \subseteq ActiveIn(l, active)
  BY <1>1 DEF IInv, Typed, Panels
<1>3. ActiveIn(l, active) = {}
  BY DEF ActiveIn
<1> QED
  BY <1>2, <1>3, EmptyOnce

LEMMA NothingOnceNext ==
    (IInv /\ pc \in {"idle", "commit"} /\ (\A s \in Slots : active[s] = NoWidget)
        => \A l \in Layers : Once(panel[l]))'
  BY NothingOnce, PTL

LEMMA NoPreviousOnce == \A l \in Layers : Once(NoOp.previous[l]) /\ Once(EmptyPicture[l])
  BY EmptyPanel, EmptyOnce, NoOpFacts DEF EmptyPicture

\* The layer at op.i and the popovers that close with it.
LEMMA ThisLayerCleared ==
    ASSUME IInv, pc \in {"layers", "undoLayers"}, op.i \in 1 .. Len(LayerOrder), NEW failing
    PROVE  /\ LayerOrder[op.i] \in Layers
           /\ Cleared(LayerOrder[op.i], failing, AfterClearing(LayerOrder[op.i], failing))
<1> DEFINE l == LayerOrder[op.i]
<1>1. l \in Layers
  BY LayersBelow
<1> HIDE DEF l
<1>2. Cleared(l, failing, AfterClearing(l, failing))
  BY <1>1, ClearingFacts
<1> QED
  BY <1>1, <1>2 DEF l

\* A step that clears the panel of layer l: whether the new children repeat
\* anything is all that matters.
LEMMA RefilledOnce ==
    ASSUME NoneTwice, panel \in [Layers -> Seq(Children)], NEW l \in Layers, NEW failing,
           NEW st, Cleared(l, failing, st), NEW new,
           panel' = [panel EXCEPT ![OverlayLayer] = st.children, ![l] = new], Once(new)
    PROVE  \A k \in Layers : Once(panel'[k])
<1>1. OverlayLayer \in Layers
  BY LayerFacts
<1>2. Once(st.children)
  BY <1>1 DEF Cleared, NoneTwice
<1>3. \A k \in Layers : panel'[k] = IF k = l THEN new
                                    ELSE IF k = OverlayLayer THEN st.children ELSE panel[k]
  BY <1>1
<1> QED
  BY <1>2, <1>3 DEF NoneTwice

LEMMA WithoutOnce ==
    ASSUME NEW children \in Seq(Children), OnTop(children), Once(children), NEW n \in DOMAIN children
    PROVE  Once(Without(children, n))
<1> DEFINE places == DOMAIN children \ {n}
           rest == Without(children, n)
           N == Cardinality(places)
<1>1. \A i, j \in DOMAIN children :
        IsScreen(children[i]) /\ IsScreen(children[j]) /\ children[i].id = children[j].id => i = j
  BY OnceApart
<1>2. places \subseteq DOMAIN children /\ rest = Selected(children, places)
  BY DEF Without
<1> HIDE DEF places
<1>3. LET q == Selected(children, places)
      IN  /\ N \in Nat /\ q \in Seq(Children) /\ DOMAIN q = 1 .. N
          /\ \A k \in 1 .. N : Nth(places, k) \in DOMAIN children /\ q[k] = children[Nth(places, k)]
          /\ \A k, m \in 1 .. N : k < m => Nth(places, k) < Nth(places, m)
  BY <1>2, SelectionKeepsOrder
<1>4. /\ N \in Nat /\ rest \in Seq(Children) /\ DOMAIN rest = 1 .. N
      /\ \A k \in 1 .. N : Nth(places, k) \in DOMAIN children /\ rest[k] = children[Nth(places, k)]
      /\ \A k, m \in 1 .. N : k < m => Nth(places, k) < Nth(places, m)
  BY <1>2, <1>3
<1> HIDE DEF rest, N
<1> DEFINE docs == Documented(rest)
           at == ScreenPlaces(rest)
           M == Cardinality(at)
<1>5. docs = Selected(rest, at) /\ at \subseteq DOMAIN rest
      /\ \A k \in at : IsScreen(rest[k])
  BY DEF Documented, ScreenPlaces
<1> HIDE DEF at
<1>6. LET q == Selected(rest, at)
      IN  /\ M \in Nat /\ DOMAIN q = 1 .. M
          /\ \A k \in 1 .. M : Nth(at, k) \in at /\ q[k] = rest[Nth(at, k)]
          /\ \A k, m \in 1 .. M : k < m => Nth(at, k) < Nth(at, m)
  BY <1>4, <1>5, SelectionKeepsOrder
<1>7. /\ M \in Nat /\ DOMAIN docs = 1 .. M
      /\ \A k \in 1 .. M : Nth(at, k) \in at /\ docs[k] = rest[Nth(at, k)]
      /\ \A k, m \in 1 .. M : k < m => Nth(at, k) < Nth(at, m)
  BY <1>5, <1>6
<1> HIDE DEF docs, M
<1>8. ASSUME NEW k \in DOMAIN docs, NEW m \in DOMAIN docs, k < m, docs[k].id = docs[m].id
      PROVE  FALSE
  <2> DEFINE a == Nth(at, k)
             b == Nth(at, m)
             i == Nth(places, a)
             j == Nth(places, b)
  <2>1. a \in at /\ b \in at /\ a < b /\ docs[k] = rest[a] /\ docs[m] = rest[b]
    BY <1>7, <1>8
  <2>2. a \in 1 .. N /\ b \in 1 .. N /\ IsScreen(rest[a]) /\ IsScreen(rest[b])
    BY <1>4, <1>5, <2>1
  <2> HIDE DEF a, b
  <2>3. i < j /\ i \in DOMAIN children /\ j \in DOMAIN children
        /\ rest[a] = children[i] /\ rest[b] = children[j]
    BY <1>4, <2>1, <2>2
  <2> HIDE DEF i, j
  <2>4. i = j
    BY <1>1, <1>8, <2>1, <2>2, <2>3
  <2>5. i \in Nat
    BY <2>3
  <2> QED
    BY <2>3, <2>4, <2>5
<1>9. \A k \in DOMAIN docs : k \in Nat
  BY <1>7
<1>10. \A k, m \in DOMAIN docs : docs[k].id = docs[m].id => k = m
  <2> SUFFICES ASSUME NEW k \in DOMAIN docs, NEW m \in DOMAIN docs, docs[k].id = docs[m].id, k # m
               PROVE  FALSE
    OBVIOUS
  <2>1. k < m \/ m < k
    BY <1>9
  <2> QED
    BY <1>8, <2>1
<1> QED
  BY <1>10 DEF Once, docs, rest

LEMMA CommitLayerOnce ==
    ASSUME IInv, NoneTwice, CommitLayer
    PROVE  NoneTwice'
<1> DEFINE l == LayerOrder[op.i]
           docs == PlanChildren(op.plan, l)
           parts == Participants(l, docs, hostLocal)
<1>1. /\ pc = "layers" /\ Shaped(op) /\ op.i \in 1 .. Len(LayerOrder) /\ op.i \in Nat
      /\ op.previous \in [Layers -> Seq(Children)] /\ panel \in [Layers -> Seq(Children)]
      /\ op.plan \in Seq(Entries) /\ hostLocal \in Seq(Locals) /\ Ordered(hostLocal)
      /\ \A i, j \in DOMAIN op.plan : i # j => op.plan[i].widget # op.plan[j].widget
  BY LayerFacts DEF CommitLayer, IInv, Typed, PlanOK, Owners
<1>2. PICK failing :
        /\ panel' = [panel EXCEPT ![OverlayLayer] = AfterClearing(l, failing).children, ![l] = parts]
        /\ op' = [op EXCEPT !.i = op.i + 1, !.previous[l] = panel[l],
                            !.dropped = op.dropped \/ Documented(AfterClearing(l, failing).children) #
                                                       Documented(panel[OverlayLayer])]
  BY DEF CommitLayer
<1> DEFINE st == AfterClearing(l, failing)
<1>3. l \in Layers /\ Cleared(l, failing, st)
  BY <1>1, ThisLayerCleared
<1>4. \E d : op' = [op EXCEPT !.i = op.i + 1, !.previous[l] = panel[l], !.dropped = d]
  BY <1>2
<1>5. panel' = [panel EXCEPT ![OverlayLayer] = st.children, ![l] = parts]
  BY <1>2
<1>6. docs \in Seq(Children) /\ \A n \in DOMAIN docs : IsScreen(docs[n])
  BY <1>1, PlanChildrenFacts
<1>7. Documented(parts) = docs
  <2> HIDE DEF l, docs
  <2> QED
    BY <1>1, <1>6, ParticipantsFacts
<1>8. Once(parts)
  BY <1>1, <1>7, PlannedOnce
<1> HIDE DEF l, st, parts
<1>9. /\ op'.previous[l] = panel[l]
      /\ \A k \in Layers \ {l} : op'.previous[k] = op.previous[k]
  <2>1. panel[l] \in Seq(Children)
    BY <1>1, <1>3
  <2>2. PICK d : op' = [op EXCEPT !.i = op.i + 1, !.previous[l] = panel[l], !.dropped = d]
    BY <1>4
  <2>3. Shaped(op) /\ op.previous \in [Layers -> Seq(Children)] /\ l \in Layers
    BY <1>1, <1>3
  <2> HIDE DEF docs
  <2> QED
    BY <2>1, <2>2, <2>3, OpReturns
<1>10. \A k \in Layers : Once(panel'[k])
  BY <1>1, <1>3, <1>5, <1>8, RefilledOnce
<1>11. \A k \in Layers : Once(op'.previous[k])
  BY <1>3, <1>9 DEF NoneTwice
<1> QED
  BY <1>10, <1>11 DEF NoneTwice

\* Whatever is put back after a failure was there before.
LEMMA PutBackOnce ==
    ASSUME NEW children \in Seq(Children), OnTop(children), Once(children),
           NEW back \in PutBack(children)
    PROVE  Once(back.children)
<1>1. \/ back.children = children
      \/ \E n \in DOMAIN children : back.children = Without(children, n)
  BY DEF PutBack
<1> QED
  BY <1>1, WithoutOnce

LEMMA CommitLayerFailsOnce ==
    ASSUME IInv, NoneTwice, CommitLayerFails
    PROVE  NoneTwice'
<1> DEFINE l == LayerOrder[op.i]
           st == AfterClearing(l, {})
<1>1. /\ pc = "layers" /\ Shaped(op) /\ op.i \in 1 .. Len(LayerOrder)
      /\ panel \in [Layers -> Seq(Children)]
      /\ op' = [op EXCEPT !.i = op.i - 1]
  BY LayerFacts DEF CommitLayerFails, IInv, Typed, PlanOK
<1>2. PICK back \in PutBack(panel[l]) :
        panel' = [panel EXCEPT ![OverlayLayer] = st.children, ![l] = back.children]
  BY DEF CommitLayerFails
<1>3. l \in Layers /\ Cleared(l, {}, st)
  BY <1>1, ThisLayerCleared
<1>4. panel[l] \in Seq(Children) /\ OnTop(panel[l]) /\ Once(panel[l])
  BY <1>1, <1>3 DEF IInv, Panels, NoneTwice
<1> DEFINE new == back.children
<1>5. Once(new)
  BY <1>4, PutBackOnce
<1>6. panel' = [panel EXCEPT ![OverlayLayer] = st.children, ![l] = new]
  BY <1>2
<1> HIDE DEF l, st, new
<1>7. op'.previous = op.previous
  BY <1>1, OpSteps
<1>8. \A k \in Layers : Once(panel'[k])
  BY <1>1, <1>3, <1>5, <1>6, RefilledOnce
<1> QED
  BY <1>7, <1>8 DEF NoneTwice

LEMMA RestoreLayerOnce ==
    ASSUME IInv, NoneTwice, RestoreLayer
    PROVE  NoneTwice'
<1>1. /\ pc = "undoLayers" /\ Shaped(op) /\ op.i \in 0 .. Len(LayerOrder)
      /\ panel \in [Layers -> Seq(Children)] /\ op.previous \in [Layers -> Seq(Children)]
  BY LayerFacts DEF RestoreLayer, IInv, Typed, PlanOK
<1>2. CASE op.i = 0
  <2>1. op' = [op EXCEPT !.i = Len(op.plan)] /\ panel' = panel
    BY <1>2 DEF RestoreLayer
  <2>2. op'.previous = op.previous
    BY <1>1, <2>1, OpSteps
  <2> QED
    BY <2>1, <2>2 DEF NoneTwice
<1>3. CASE op.i # 0
  <2> DEFINE l == LayerOrder[op.i]
             st == AfterClearing(l, {})
             old == op.previous[l]
  <2>1. op.i \in 1 .. Len(LayerOrder)
    BY <1>1, <1>3, LayerFacts
  <2>2. l \in Layers /\ Cleared(l, {}, st) /\ l \in Rebuilt
    <3>1. l \in Layers /\ Cleared(l, {}, st)
      BY <1>1, <2>1, ThisLayerCleared
    <3>2. op.i \in 1 .. op.i
      BY <2>1
    <3> QED
      BY <1>1, <3>1, <3>2 DEF Rebuilt, RebuiltPlaces
  <2>3. \/ /\ panel' = [panel EXCEPT ![OverlayLayer] = st.children, ![l] = old]
           /\ op' = [op EXCEPT !.i = op.i - 1]
        \/ \E n \in DOMAIN old :
             /\ panel' = [panel EXCEPT ![OverlayLayer] = st.children, ![l] = Without(old, n)]
             /\ op' = [op EXCEPT !.i = op.i - 1, !.marker = TRUE]
    BY <1>3 DEF RestoreLayer
  <2>4. old \in Seq(Children) /\ OnTop(old) /\ Once(old)
    BY <1>1, <2>2 DEF IInv, Panels, Old, NoneTwice
  <2>5. \A n \in DOMAIN old : Once(Without(old, n))
    BY <2>4, WithoutOnce
  <2> HIDE DEF l, st, old
  <2>6. op'.previous = op.previous
    BY <1>1, <2>3, OpSteps, OpMoves
  <2>7. PICK new : /\ panel' = [panel EXCEPT ![OverlayLayer] = st.children, ![l] = new]
                   /\ Once(new)
    BY <2>3, <2>4, <2>5
  <2>8. \A k \in Layers : Once(panel'[k])
    BY <1>1, <2>2, <2>7, RefilledOnce
  <2> QED
    BY <2>6, <2>8 DEF NoneTwice
<1> QED
  BY <1>2, <1>3

LEMMA RecoverOnce ==
    ASSUME IInv, IInv', NoneTwice, Recover
    PROVE  NoneTwice'
<1>1. Shaped(op) /\ pc' \in {"idle", "commit"} /\ \A s \in Slots : active'[s] = NoWidget
  BY DEF Recover, IInv, Typed
<1>2. \A l \in Layers : Once(panel'[l])
  BY <1>1, NothingOnceNext
<1>3. CASE op' = NoOp
  BY <1>2, <1>3, NoPreviousOnce DEF NoneTwice
<1>4. CASE \E plan : op' = [op EXCEPT !.plan = plan, !.i = 1, !.marker = FALSE,
                                     !.recovering = TRUE, !.dropped = FALSE]
  <2>1. op'.previous = op.previous
    BY <1>1, <1>4, OpRecovers
  <2> QED
    BY <1>2, <2>1 DEF NoneTwice
<1> QED
  BY <1>3, <1>4 DEF Recover

LEMMA AttachHostLocalScreenOnce ==
    ASSUME IInv, NoneTwice, NEW w \in Widgets, AttachHostLocalScreen(w)
    PROVE  NoneTwice'
<1> DEFINE locals == Append(hostLocal, [key |-> nextKey, owner |-> w])
           docs == Documented(panel[OverlayLayer])
           parts == Participants(OverlayLayer, KnownChildren(panel[OverlayLayer], active), locals)
<1>1. /\ pc = "idle" /\ OverlayLayer \in Layers /\ op' = op
      /\ panel \in [Layers -> Seq(Children)] /\ hostLocal \in Seq(Locals)
      /\ Ordered(hostLocal) /\ nextKey \in 1 .. MaxPopovers
      /\ \A e \in ToSet(hostLocal) : e.key < nextKey
  <2>1. pc = "idle" /\ op' = op /\ nextKey <= MaxPopovers
    BY DEF AttachHostLocalScreen
  <2>2. /\ panel \in [Layers -> Seq(Children)] /\ hostLocal \in Seq(Locals) /\ nextKey \in Nat \ {0}
        /\ Ordered(hostLocal) /\ \A e \in ToSet(hostLocal) : e.key < nextKey
    BY DEF IInv, Typed, Owners
  <2> QED
    BY <2>1, <2>2, LayerFacts, Numbers
<1>2. KnownChildren(panel[OverlayLayer], active) = docs
  BY <1>1, BetweenCalls
<1>3. docs \in Seq(Children) /\ \A n \in DOMAIN docs : IsScreen(docs[n])
  BY <1>1, DocumentedFacts
<1>4. locals \in Seq(Locals) /\ Ordered(locals)
  <2>1. [key |-> nextKey, owner |-> w] \in Locals
    BY <1>1 DEF Locals
  <2>2. \A n \in DOMAIN hostLocal : hostLocal[n].key < nextKey
    BY <1>1 DEF ToSet
  <2>3. Len(hostLocal) \in Nat /\ DOMAIN hostLocal = 1 .. Len(hostLocal)
    BY <1>1
  <2>4. /\ locals \in Seq(Locals) /\ DOMAIN locals = 1 .. (Len(hostLocal) + 1)
        /\ \A n \in 1 .. Len(hostLocal) : locals[n] = hostLocal[n]
        /\ locals[Len(hostLocal) + 1].key = nextKey
    BY <1>1, <2>1, <2>3
  <2> HIDE DEF locals
  <2>5. ASSUME NEW i \in DOMAIN locals, NEW j \in DOMAIN locals, i < j
        PROVE  locals[i].key < locals[j].key
    <3>1. i \in 1 .. Len(hostLocal) /\ (j \in 1 .. Len(hostLocal) \/ j = Len(hostLocal) + 1)
      BY <2>3, <2>4, <2>5
    <3> QED
      BY <1>1, <2>2, <2>3, <2>4, <2>5, <3>1 DEF Ordered
  <2> QED
    BY <2>4, <2>5 DEF Ordered
<1> HIDE DEF locals, docs
<1>5. Documented(parts) = docs
  BY <1>2, <1>3, <1>4, ParticipantsFacts
<1> HIDE DEF parts
<1>6. Once(parts) /\ Once(panel[OverlayLayer])
  BY <1>1, <1>5, SameOnce DEF NoneTwice, docs
<1>7. \E new : Once(new) /\ panel' = [panel EXCEPT ![OverlayLayer] = new]
  <2>1. \/ panel' = [panel EXCEPT ![OverlayLayer] = parts]
        \/ \E back \in PutBack(panel[OverlayLayer]) :
             panel' = [panel EXCEPT ![OverlayLayer] = back.children]
    BY DEF AttachHostLocalScreen, parts, locals
  <2>2. panel[OverlayLayer] \in Seq(Children) /\ OnTop(panel[OverlayLayer])
    BY <1>1 DEF IInv, Panels
  <2>3. \A back \in PutBack(panel[OverlayLayer]) : Once(back.children)
    BY <1>6, <2>2, PutBackOnce
  <2> QED
    BY <1>6, <2>1, <2>3
<1>8. \A k \in Layers : Once(panel'[k])
  BY <1>1, <1>6, <1>7 DEF NoneTwice
<1> QED
  BY <1>1, <1>8 DEF NoneTwice

LEMMA DetachHostLocalScreenOnce ==
    ASSUME IInv, NoneTwice, NEW key \in 1 .. MaxPopovers, DetachHostLocalScreen(key)
    PROVE  NoneTwice'
<1>1. /\ pc = "idle" /\ OverlayLayer \in Layers /\ op' = op /\ panel \in [Layers -> Seq(Children)]
  BY LayerFacts DEF DetachHostLocalScreen, IInv, Typed
<1>2. SoundOverlay(Overlay) /\ Overlay.children = panel[OverlayLayer]
  BY <1>1, BetweenCalls
<1>3. PICK ok \in BOOLEAN :
        LET st == Detached(Overlay, key, active, ok)
        IN  \/ panel' = [panel EXCEPT ![OverlayLayer] = st.children]
            \/ \E back \in PutBack(st.children) :
                 panel' = [panel EXCEPT ![OverlayLayer] = back.children]
  BY DEF DetachHostLocalScreen
<1> DEFINE st == Detached(Overlay, key, active, ok)
<1>4. Keeps(Overlay, st, ok) /\ SoundOverlay(st)
  BY <1>2, DetachedFacts
<1>5. \/ panel' = [panel EXCEPT ![OverlayLayer] = st.children]
      \/ \E back \in PutBack(st.children) :
           panel' = [panel EXCEPT ![OverlayLayer] = back.children]
  BY <1>3
<1> HIDE DEF st
<1>6. Once(st.children) /\ st.children \in Seq(Children) /\ OnTop(st.children)
  BY <1>1, <1>2, <1>4 DEF Keeps, NoneTwice, SoundOverlay, OverlayStates
<1>7. \E new : Once(new) /\ panel' = [panel EXCEPT ![OverlayLayer] = new]
  BY <1>5, <1>6, PutBackOnce
<1>8. \A k \in Layers : Once(panel'[k])
  BY <1>1, <1>7 DEF NoneTwice
<1> QED
  BY <1>1, <1>8 DEF NoneTwice

\* A step that leaves the panels alone.
LEMMA PanelsSameOnce ==
    ASSUME NoneTwice, panel' = panel, op'.previous = op.previous \/ op' = NoOp
                                        \/ \A l \in Layers : Once(op'.previous[l])
    PROVE  NoneTwice'
  BY NoPreviousOnce DEF NoneTwice

LEMMA FieldsOnce ==
    ASSUME IInv, NoneTwice,
           \/ CommitScreenFields \/ CommitScreenFieldsFails \/ HostInvalidated
           \/ CentralStyleFails \/ StartLayers \/ UndoScreen
    PROVE  NoneTwice'
<1>1. Shaped(op) /\ panel' = panel
  BY DEF IInv, Typed, CommitScreenFields, CommitScreenFieldsFails, HostInvalidated,
         CentralStyleFails, StartLayers, UndoScreen
<1>2. \/ op' = op
      \/ \E i : op' = [op EXCEPT !.i = i]
      \/ \E i, m : op' = [op EXCEPT !.i = i, !.marker = m]
  <2>1. CASE CommitScreenFields
    BY <2>1 DEF CommitScreenFields
  <2>2. CASE CommitScreenFieldsFails
    <3>1. PICK h \in Hosts, m \in Mutations, unhealed \in SUBSET (1 .. (MutationCount - 1)) :
            \E stop \in Stops(1 .. (h - 1)) :
              op' = [op EXCEPT !.i = op.i - 1,
                               !.marker = op.marker \/ Broken(stop) + Cardinality(unhealed) > 0]
      BY <2>2, Zenon DEF CommitScreenFieldsFails
    <3> QED
      BY <3>1
  <2>3. CASE CentralStyleFails
    BY <2>3 DEF CentralStyleFails
  <2>4. CASE StartLayers
    BY <2>4 DEF StartLayers
  <2>5. CASE UndoScreen
    BY <2>5 DEF UndoScreen
  <2>6. CASE HostInvalidated
    BY <2>6 DEF HostInvalidated
  <2> QED
    BY <2>1, <2>2, <2>3, <2>4, <2>5, <2>6
<1>3. op'.previous = op.previous
  BY <1>1, <1>2, OpSteps, OpMoves
<1> QED
  BY <1>1, <1>3, PanelsSameOnce

LEMMA BoundariesOnce ==
    ASSUME IInv, NoneTwice,
           \/ \E d \in Documents : Reconcile(d)
           \/ FinishCommit \/ ReturnRefused \/ RecoveryFails \/ Publish \/ UNCHANGED vars
    PROVE  NoneTwice'
<1>1. panel' = panel
  BY DEF Reconcile, FinishCommit, ReturnRefused, RecoveryFails, Publish, vars
<1>2. CASE \E d \in Documents : Reconcile(d)
  <2>1. PICK d \in Documents : Reconcile(d)
    BY <1>2
  <2>2. CASE op' = op
    BY <1>1, <2>2, PanelsSameOnce
  <2>3. CASE \E plan, before : op' = [NoOp EXCEPT !.doc = d, !.plan = plan, !.i = 1, !.before = before]
    <3>1. PICK plan, before :
            op' = [NoOp EXCEPT !.doc = d, !.plan = plan, !.i = 1, !.before = before]
      BY <2>3
    <3>2. op'.previous = [l \in Layers |-> <<>>]
      BY <3>1, OpBegins
    <3>3. op'.previous = NoOp.previous
      BY <3>2, NoOpFacts
    <3>4. \A l \in Layers : Once(op'.previous[l])
      BY <3>3, NoPreviousOnce
    <3> QED
      BY <1>1, <3>4, PanelsSameOnce
  <2> QED
    BY <2>1, <2>2, <2>3 DEF Reconcile
<1>3. CASE FinishCommit \/ ReturnRefused \/ RecoveryFails
  <2>1. op' = NoOp
    BY <1>3 DEF FinishCommit, ReturnRefused, RecoveryFails
  <2> QED
    BY <1>1, <2>1, PanelsSameOnce
<1>4. CASE Publish \/ UNCHANGED vars
  <2>1. op' = op
    BY <1>4 DEF Publish, vars
  <2> QED
    BY <1>1, <2>1, PanelsSameOnce
<1> QED
  BY <1>2, <1>3, <1>4

LEMMA TeardownOnce ==
    ASSUME NoneTwice, Teardown
    PROVE  NoneTwice'
<1>1. panel' = EmptyPicture /\ op' = op
  BY DEF Teardown
<1> QED
  BY <1>1, NoPreviousOnce DEF NoneTwice

LEMMA NextOnce ==
    ASSUME IInv, IInv', NoneTwice, [Next]_vars
    PROVE  NoneTwice'
<1>1. CASE \/ CommitScreenFields \/ CommitScreenFieldsFails \/ HostInvalidated
           \/ CentralStyleFails \/ StartLayers \/ UndoScreen
  BY <1>1, FieldsOnce
<1>2. CASE \/ \E d \in Documents : Reconcile(d)
           \/ FinishCommit \/ ReturnRefused \/ RecoveryFails \/ Publish \/ UNCHANGED vars
  BY <1>2, BoundariesOnce
<1>3. CASE CommitLayer
  BY <1>3, CommitLayerOnce
<1>4. CASE CommitLayerFails
  BY <1>4, CommitLayerFailsOnce
<1>5. CASE RestoreLayer
  BY <1>5, RestoreLayerOnce
<1>6. CASE Recover
  BY <1>6, RecoverOnce
<1>7. ASSUME NEW w \in Widgets, AttachHostLocalScreen(w) PROVE NoneTwice'
  BY <1>7, AttachHostLocalScreenOnce
<1>8. ASSUME NEW key \in 1 .. MaxPopovers, DetachHostLocalScreen(key) PROVE NoneTwice'
  BY <1>8, DetachHostLocalScreenOnce
<1>9. CASE Teardown
  BY <1>9, TeardownOnce
<1> QED
  BY <1>1, <1>2, <1>3, <1>4, <1>5, <1>6, <1>7, <1>8, <1>9 DEF Next, Commit, Undo

LEMMA FaultsBounded ==
    ASSUME IInv, IInv', Next, faults <= MaxFaults
    PROVE  faults' \in 0 .. MaxFaults
<1>1. faults \in Nat /\ faults' \in Nat /\ MaxFaults \in Nat
  BY Numbers DEF IInv, Typed
<1>2. CASE \/ \E d \in Documents : Reconcile(d)
           \/ CommitScreenFields \/ HostInvalidated \/ CentralStyleFails \/ StartLayers
           \/ UndoScreen
           \/ CommitLayer \/ CommitLayerFails \/ RestoreLayer
           \/ FinishCommit \/ ReturnRefused \/ RecoveryFails \/ Publish \/ Teardown
  <2>1. \/ faults' = faults
        \/ \E kind, n : Fails(kind, n) /\ faults' = faults + n
    <3>1. CASE \E d \in Documents : Reconcile(d)
      BY <3>1 DEF Reconcile, Spend
    <3>2. CASE UndoScreen
      BY <3>2 DEF UndoScreen, Spend
    <3>3. CASE CommitLayer
      BY <3>3 DEF CommitLayer, Spend
    <3>4. CASE CommitLayerFails
      BY <3>4 DEF CommitLayerFails, Spend
    <3>5. CASE RestoreLayer
      BY <3>5 DEF RestoreLayer, Spend
    <3>6. CASE CentralStyleFails \/ HostInvalidated
      BY <3>6 DEF CentralStyleFails, HostInvalidated, Spend
    <3> QED
      BY <1>2, <3>1, <3>2, <3>3, <3>4, <3>5, <3>6
         DEF CommitScreenFields, StartLayers, FinishCommit, ReturnRefused, RecoveryFails, Publish,
             Teardown
  <2>2. faults' = faults \/ faults' <= MaxFaults
    BY <2>1 DEF Fails
  <2> QED
    BY <1>1, <2>2
<1>3. CASE CommitScreenFieldsFails
  <2>1. PICK h \in Hosts, m \in Mutations, unhealed \in SUBSET (1 .. (MutationCount - 1)) :
          \E stop \in Stops(1 .. (h - 1)) :
            /\ faults + (Broken(stop) + Cardinality(unhealed)) + 1 <= MaxFaults
            /\ faults' = faults + ((Broken(stop) + Cardinality(unhealed)) + 1)
    BY <1>3, Zenon DEF CommitScreenFieldsFails, Spend
  <2>2. PICK stop \in Stops(1 .. (h - 1)) :
            /\ faults + (Broken(stop) + Cardinality(unhealed)) + 1 <= MaxFaults
            /\ faults' = faults + ((Broken(stop) + Cardinality(unhealed)) + 1)
    BY <2>1, Zenon
  <2>3. 1 .. (h - 1) \subseteq Hosts
    BY Numbers DEF Hosts
  <2>4. Broken(stop) \in Nat
    BY <2>3, BrokenFacts
  <2>5. Cardinality(unhealed) \in Nat
    <3>1. IsFiniteSet(1 .. (MutationCount - 1))
      BY Numbers, FS_Interval
    <3>2. IsFiniteSet(unhealed)
      BY <3>1, FS_Subset
    <3> QED
      BY <3>2, FS_CardinalityType
  <2> QED
    BY <1>1, <2>2, <2>4, <2>5
<1>4. CASE Recover
  <2>1. faults' = faults \/ (faults' = faults + 1 /\ Fails("prepare", 1))
    BY <1>4 DEF Recover
  <2> QED
    BY <1>1, <2>1 DEF Fails
<1>5. ASSUME NEW w \in Widgets, AttachHostLocalScreen(w) PROVE faults' \in 0 .. MaxFaults
  <2>1. \/ faults' = faults
        \/ \E kind, n : Fails(kind, n) /\ faults' = faults + n
    BY <1>5 DEF AttachHostLocalScreen, Spend
  <2> QED
    BY <1>1, <2>1 DEF Fails
<1>6. ASSUME NEW key \in 1 .. MaxPopovers, DetachHostLocalScreen(key) PROVE faults' \in 0 .. MaxFaults
  <2>1. \/ faults' = faults
        \/ \E kind, n : Fails(kind, n) /\ faults' = faults + n
    BY <1>6 DEF DetachHostLocalScreen, Spend
  <2> QED
    BY <1>1, <2>1 DEF Fails
<1> QED
  BY <1>2, <1>3, <1>4, <1>5, <1>6 DEF Next, Commit, Undo

LEMMA NextBounds ==
    ASSUME IInv, IInv', Bounds, [Next]_vars
    PROVE  Bounds'
<1>1. shell' \in {"none", "pending", "active"}
  BY DEF Bounds, Next, Commit, Undo, vars, Reconcile, CommitScreenFields, CommitScreenFieldsFails,
         HostInvalidated, CentralStyleFails, StartLayers, UndoScreen, CommitLayer,
         CommitLayerFails, RestoreLayer,
         FinishCommit, ReturnRefused, Recover, RecoveryFails, AttachHostLocalScreen,
         DetachHostLocalScreen, Publish, Teardown
<1>2. layerOn' \in [Layers -> BOOLEAN]
  <2>1. \A plan : LayerInteractive(plan) \in [Layers -> BOOLEAN]
    BY DEF LayerInteractive
  <2>2. layerOn' = layerOn \/ (\E plan : layerOn' = LayerInteractive(plan))
        \/ layerOn' = [l \in Layers |-> TRUE]
    BY DEF Next, Commit, Undo, vars, Reconcile, CommitScreenFields, CommitScreenFieldsFails,
           HostInvalidated, CentralStyleFails, StartLayers, UndoScreen, CommitLayer,
         CommitLayerFails, RestoreLayer,
           FinishCommit, ReturnRefused, Recover, RecoveryFails, AttachHostLocalScreen,
           DetachHostLocalScreen, Publish, Teardown
  <2> QED
    BY <2>1, <2>2 DEF Bounds
<1>3. nextKey' \in 1 .. (MaxPopovers + 1)
  <2>1. \/ nextKey' = nextKey
        \/ nextKey <= MaxPopovers /\ nextKey' = nextKey + 1
        \/ nextKey' = 1
    BY DEF Next, Commit, Undo, vars, Reconcile, CommitScreenFields, CommitScreenFieldsFails,
           HostInvalidated, CentralStyleFails, StartLayers, UndoScreen, CommitLayer,
         CommitLayerFails, RestoreLayer,
           FinishCommit, ReturnRefused, Recover, RecoveryFails, AttachHostLocalScreen,
           DetachHostLocalScreen, Publish, Teardown
  <2> QED
    BY <2>1, Numbers DEF Bounds
<1>4. health' \in {"nominal", "recovered", "failed"}
  BY DEF Bounds, Next, Commit, Undo, vars, Reconcile, CommitScreenFields, CommitScreenFieldsFails,
         HostInvalidated, CentralStyleFails, StartLayers, UndoScreen, CommitLayer,
         CommitLayerFails, RestoreLayer,
         FinishCommit, ReturnRefused, Recover, RecoveryFails, AttachHostLocalScreen,
         DetachHostLocalScreen, Publish, Teardown
<1>5. faults' \in 0 .. MaxFaults
  <2>1. faults \in Nat /\ faults <= MaxFaults
    BY DEF IInv, Typed, Bounds
  <2>2. CASE Next
    BY <2>1, <2>2, FaultsBounded
  <2>3. CASE UNCHANGED vars
    BY <2>3 DEF vars, Bounds
  <2> QED
    BY <2>2, <2>3
<1> QED
  BY <1>1, <1>2, <1>3, <1>4, <1>5 DEF Bounds

LEMMA TypesFollow ==
    ASSUME IInv, Bounds, NoneTwice
    PROVE  TypeOK
<1>1. ASSUME NEW l \in Layers
      PROVE  /\ \A c \in ToSet(panel[l]) : \/ IsScreen(c) /\ c.id \in Widgets
                                           \/ c.kind = "popover" /\ c.id \in 1 .. MaxPopovers
             /\ Cardinality(ToSet(panel[l])) = Len(panel[l])
  <2>1. panel[l] \in Seq(Children) /\ OnTop(panel[l]) /\ Once(panel[l])
    BY DEF IInv, Typed, Panels, NoneTwice
  <2>2. \A c \in ToSet(panel[l]) : c \in Children
    BY <2>1, InSeq DEF ToSet
  <2> QED
    BY <2>1, <2>2, OnceIsInjective DEF Children, IsScreen
<1>2. \A e \in ToSet(hostLocal) : e.key < nextKey /\ e.owner \in Widgets
  <2>1. hostLocal \in Seq(Locals)
    BY DEF IInv, Typed
  <2>2. \A e \in ToSet(hostLocal) : e \in Locals
    BY <2>1, InSeq DEF ToSet
  <2> QED
    BY <2>2, LocalsTyped DEF IInv, Owners
<1> QED
  BY <1>1, <1>2 DEF TypeOK, IInv, Typed, Bounds

(***************************************************************************)
(* Type correctness: every variable keeps its type, keys and failures keep *)
(* their bounds, and no rebuild, roll-back or closing of a popover puts a  *)
(* child into a panel twice.                                               *)
(***************************************************************************)
THEOREM UiTypeCorrect == Spec => []TypeOK
<1> DEFINE Types == IInv /\ Bounds /\ NoneTwice
<1>1. Init => Types
  <2> SUFFICES ASSUME Init PROVE Types
    OBVIOUS
  <2>1. IInv
    BY InitInvariant
  <2>2. Bounds
    BY Numbers DEF Init, Bounds
  <2>3. NoneTwice
    BY NoPreviousOnce DEF Init, NoneTwice
  <2> QED
    BY <2>1, <2>2, <2>3
<1>2. Types /\ [Next]_vars => Types'
  BY NextKeeps, NextBounds, NextOnce
<1>3. Types => TypeOK
  BY TypesFollow
<1> HIDE DEF Types
<1> QED
  BY <1>1, <1>2, <1>3, PTL DEF Spec

-----------------------------------------------------------------------------
(***************************************************************************)
(* The reconciler implements ShownDocument.                                *)
(***************************************************************************)
Mapped == [SD!Next]_SD!sdVars

LEMMA EmptyShown ==
    ASSUME \A l \in Layers : panel[l] \in Seq(Children) /\ WidgetsIn(panel[l]) = {}
    PROVE  Shown = EmptyPicture
<1>1. ASSUME NEW l \in Layers
      PROVE  PictureWith(panel[l], host, screenOf) = <<>>
  <2> DEFINE docs == Documented(panel[l])
  <2>1. WidgetsIn(panel[l]) = {docs[n].id : n \in DOMAIN docs}
    BY DocumentedFacts
  <2> HIDE DEF docs
  <2>2. DOMAIN docs = {}
    BY <2>1
  <2> QED
    BY <2>2 DEF PictureWith, docs
<1> QED
  BY <1>1, ShownIs DEF EmptyPicture

LEMMA EmptyShownNext ==
    ((\A l \in Layers : panel[l] \in Seq(Children) /\ WidgetsIn(panel[l]) = {})
        => Shown = EmptyPicture)'
<1>1. (\A l \in Layers : panel[l] \in Seq(Children) /\ WidgetsIn(panel[l]) = {})
         => Shown = EmptyPicture
  BY EmptyShown
<1> QED
  BY <1>1, PTL

LEMMA ShownLayers == SD!Layers = Layers
  BY DEF SD!Layers, EmptyPicture

\* A step inside a call, and one between two calls: nothing shows, or what is
\* missing afterwards is said to be.
LEMMA InsideACall ==
    ASSUME pc # "idle", pc' # "idle", op'.before = op.before, op'.doc = op.doc,
           UNCHANGED <<lastDoc, health>>, lost \subseteq lost', lost' \subseteq Layers
    PROVE  Mapped
<1>1. SD!Drop
  BY ShownLayers DEF SD!Drop, SD!Agrees
<1> QED
  BY <1>1 DEF Mapped, SD!Next

LEMMA BetweenTwoCalls ==
    ASSUME pc = "idle", pc' = "idle", UNCHANGED <<lastDoc, health>>,
           lost \subseteq lost', lost' \subseteq Layers,
           \A l \in Layers \ lost' : Shown'[l] = Shown[l]
    PROVE  Mapped
<1>1. SD!Drop
  BY ShownLayers DEF SD!Drop, SD!Agrees
<1> QED
  BY <1>1 DEF Mapped, SD!Next

LEMMA InitMaps == Init => SD!Init
<1> SUFFICES ASSUME Init PROVE SD!Init
  OBVIOUS
<1>1. /\ pc = "idle" /\ lastDoc = NoDocument /\ health = "nominal" /\ lost = {}
      /\ panel = EmptyPicture
  BY DEF Init
<1>2. Shown = EmptyPicture
  BY <1>1, EmptyPanel, EmptyShown DEF EmptyPicture
<1> QED
  BY <1>1, <1>2 DEF SD!Init

LEMMA FieldsMap ==
    ASSUME IInv, \/ CommitScreenFields \/ CommitScreenFieldsFails \/ CentralStyleFails \/ UndoScreen
                 \/ StartLayers \/ HostInvalidated
    PROVE  Mapped
<1>1. Shaped(op) /\ lost \subseteq Layers /\ op.i \in Nat /\ PlanOK
  BY DEF IInv, Typed
<1>2. CASE CommitScreenFields
  <2>1. op'.before = op.before /\ op'.doc = op.doc
    BY <1>1, <1>2, OpSteps DEF CommitScreenFields
  <2> QED
    BY <1>1, <1>2, <2>1, InsideACall DEF CommitScreenFields
<1>3. CASE CommitScreenFieldsFails
  <2>1. PICK m : op' = [op EXCEPT !.i = @ - 1, !.marker = m]
    BY <1>3 DEF CommitScreenFieldsFails
  <2>2. op'.before = op.before /\ op'.doc = op.doc
    BY <1>1, <2>1, OpMoves
  <2>3. pc = "commit" /\ pc' = "undoScreens" /\ UNCHANGED <<lastDoc, health, lost>>
    BY <1>3 DEF CommitScreenFieldsFails
  <2> QED
    BY <1>1, <2>2, <2>3, InsideACall
<1>4. CASE CentralStyleFails
  BY <1>1, <1>4, InsideACall DEF CentralStyleFails
<1>5. CASE UndoScreen
  <2>1. pc = "undoScreens" /\ pc' \in {"undoScreens", "refused"} /\ UNCHANGED <<lastDoc, health, lost>>
    BY <1>5 DEF UndoScreen
  <2>2. op' = op \/ \E m : op' = [op EXCEPT !.i = @ - 1, !.marker = m]
    BY <1>5 DEF UndoScreen
  <2>3. op'.before = op.before /\ op'.doc = op.doc
    BY <1>1, <2>2, OpMoves
  <2> QED
    BY <1>1, <2>1, <2>3, InsideACall
<1>6. CASE StartLayers
  <2>1. op'.before = op.before /\ op'.doc = op.doc
    BY <1>1, <1>6, OpSteps DEF StartLayers
  <2> QED
    BY <1>1, <1>6, <2>1, InsideACall DEF StartLayers
<1>7. CASE HostInvalidated
  <2>1. /\ pc = "commit" /\ pc' = "undoScreens" /\ UNCHANGED <<lastDoc, health>>
        /\ op' = [op EXCEPT !.i = @ - 1] /\ op.i <= Len(op.plan)
        /\ \/ lost' = lost
           \/ lost' = lost \cup {op.plan[op.i].inst.layer}
    BY <1>7 DEF HostInvalidated
  <2>2. op'.before = op.before /\ op'.doc = op.doc
    BY <1>1, <2>1, OpSteps
  <2>3. op.plan[op.i].inst.layer \in Layers
    <3>1. op.plan \in Seq(Entries) /\ op.i \in DOMAIN op.plan
      BY <1>1, <2>1 DEF IInv, Typed, PlanOK
    <3>2. Slot(op.plan[op.i].inst) \in Slots
      BY <3>1, EntryFacts
    <3> QED
      BY <3>2, SlotsInLayers DEF Slot
  <2> QED
    BY <1>1, <2>1, <2>2, <2>3, InsideACall
<1> QED
  BY <1>2, <1>3, <1>4, <1>5, <1>6, <1>7

LEMMA LayersMap ==
    ASSUME IInv, CommitLayer \/ CommitLayerFails \/ RestoreLayer
    PROVE  Mapped
<1>1. /\ Shaped(op) /\ op.previous \in [Layers -> Seq(Children)]
      /\ panel \in [Layers -> Seq(Children)] /\ op.i \in Nat /\ lost \subseteq Layers
  BY DEF IInv, Typed
<1>2. CASE CommitLayer
  <2>a. pc = "layers" /\ op.i <= Len(LayerOrder)
    BY <1>2 DEF CommitLayer
  <2>b. op.i \in 1 .. Len(LayerOrder)
    BY <2>a, LayerFacts DEF IInv, PlanOK
  <2>1. /\ op.i \in 1 .. Len(LayerOrder)
        /\ \E dropped :
             op' = [op EXCEPT !.i = @ + 1, !.previous[LayerOrder[op.i]] = panel[LayerOrder[op.i]],
                              !.dropped = dropped]
    BY <1>2, <2>b DEF CommitLayer
  <2>2. LayerOrder[op.i] \in Layers
    BY <2>1, LayerFacts
  <2>3. op'.before = op.before /\ op'.doc = op.doc
    BY <1>1, <2>1, <2>2, OpReturns
  <2>4. pc = "layers" /\ pc' = "layers" /\ UNCHANGED <<lastDoc, health, lost>>
    BY <1>2 DEF CommitLayer
  <2> QED
    BY <1>1, <2>3, <2>4, InsideACall
<1>3. CASE CommitLayerFails
  <2>1. /\ op' = [op EXCEPT !.i = @ - 1] /\ pc = "layers" /\ pc' = "undoLayers"
        /\ UNCHANGED <<lastDoc, health>> /\ op.i <= Len(LayerOrder)
        /\ \/ lost' = lost
           \/ lost' = lost \cup {LayerOrder[op.i]}
    BY <1>3 DEF CommitLayerFails
  <2>3. LayerOrder[op.i] \in Layers
    BY <2>1, LayerFacts DEF CommitLayerFails, IInv, PlanOK
  <2>2. op'.before = op.before /\ op'.doc = op.doc
    BY <1>1, <2>1, OpSteps
  <2> QED
    BY <1>1, <2>1, <2>2, <2>3, InsideACall
<1>4. CASE RestoreLayer
  <2>1. pc = "undoLayers" /\ pc' \in {"undoLayers", "undoScreens"} /\ UNCHANGED <<lastDoc, health, lost>>
    BY <1>4 DEF RestoreLayer
  <2>2. \/ op' = [op EXCEPT !.i = Len(op.plan)]
        \/ op' = [op EXCEPT !.i = @ - 1]
        \/ op' = [op EXCEPT !.i = @ - 1, !.marker = TRUE]
    BY <1>4 DEF RestoreLayer
  <2>3. op'.before = op.before /\ op'.doc = op.doc
    BY <1>1, <2>2, OpSteps, OpMoves
  <2> QED
    BY <1>1, <2>1, <2>3, InsideACall
<1> QED
  BY <1>2, <1>3, <1>4

\* A plan that is carried out shows its document.
LEMMA FinishPicture ==
    ASSUME IInv, FinishCommit
    PROVE  \A l \in Layers \ lost' : Shown'[l] = PictureOf[Target][l]
<1> DEFINE d == Target
           plan == op.plan
<1>1. /\ d \in Documents /\ plan \in Seq(Entries) /\ DOMAIN plan = DOMAIN d
      /\ \A j \in DOMAIN plan : plan[j].inst = d[j]
  <2>1. pc # "idle" /\ PlanOK /\ Typed
    BY DEF FinishCommit, IInv
  <2>2. /\ d \in Documents /\ Len(plan) = Len(d) /\ plan \in Seq(Entries)
        /\ \A j \in DOMAIN plan : plan[j].inst = d[j]
    BY <2>1 DEF PlanOK, Typed
  <2> QED
    BY <2>2, EntryFacts, DocFacts
<1>2. /\ \A j \in DOMAIN plan :
           /\ host'[plan[j].widget] = Filled(plan[j].inst.value)
           /\ screenOf'[plan[j].widget] = plan[j].inst.screen
      /\ \A l \in Layers \ lost' : Documented(panel[l]) = PlanChildren(plan, l)
  BY FinishFacts
<1>3. panel' = panel
  BY DEF FinishCommit
<1> HIDE DEF d, plan
<1>4. d \in Seq(Instances)
  BY <1>1, DocFacts
<1>5. ASSUME NEW l \in Layers \ lost'
      PROVE  PictureWith(panel'[l], host', screenOf') = PictureOf[d][l]
  <2> DEFINE places == {i \in DOMAIN d : d[i].layer = l}
             own == Selected(d, places)
             mine == Planned(plan, l)
             sel == Selected(plan, places)
             docs == Documented(panel'[l])
             N == Cardinality(places)
  <2>1. {i \in DOMAIN plan : plan[i].inst.layer = l} = places
    BY <1>1
  <2>2. mine = sel
    BY <2>1 DEF Planned
  <2>3. places \subseteq DOMAIN d /\ places \subseteq DOMAIN plan
    BY <1>1
  <2>4. PictureOf[d][l] =
          [n \in DOMAIN own |-> [screen |-> own[n].screen,
                                 fields |-> [h \in Hosts |-> [m \in Mutations |-> own[n].value]]]]
    BY <1>1 DEF PictureOf
  <2> HIDE DEF places, mine
  <2>5. /\ DOMAIN own = 1 .. N
        /\ \A n \in 1 .. N : Nth(places, n) \in places /\ own[n] = d[Nth(places, n)]
    BY <1>4, <2>3, SelectionKeepsOrder
  <2>6. /\ DOMAIN sel = 1 .. N
        /\ \A n \in 1 .. N : sel[n] = plan[Nth(places, n)]
    BY <1>1, <2>3, SelectionKeepsOrder
  <2>7. docs = PlanChildren(plan, l)
    BY <1>2, <1>3
  <2> HIDE DEF own, sel, N, docs
  <2>8. DOMAIN docs = 1 .. N /\ \A n \in 1 .. N : docs[n].id = mine[n].widget
    <3>1. /\ DOMAIN PlanChildren(plan, l) = DOMAIN mine
          /\ \A n \in DOMAIN PlanChildren(plan, l) : PlanChildren(plan, l)[n].id = mine[n].widget
      BY <1>1, PlanChildrenFacts DEF mine
    <3> QED
      BY <2>2, <2>6, <2>7, <3>1
  <2>9. ASSUME NEW n \in 1 .. N
        PROVE  /\ screenOf'[docs[n].id] = own[n].screen
               /\ host'[docs[n].id] = Filled(own[n].value)
    <3>1. PICK i \in DOMAIN plan : i = Nth(places, n)
      BY <2>3, <2>5
    <3>2. docs[n].id = plan[i].widget
      BY <2>2, <2>6, <2>8, <3>1
    <3>3. own[n] = plan[i].inst
      BY <1>1, <2>5, <3>1
    <3> QED
      BY <1>2, <3>2, <3>3
  <2>10. ASSUME NEW n \in 1 .. N
         PROVE  [screen |-> screenOf'[docs[n].id],
                 fields |-> [h \in Hosts |-> host'[docs[n].id][h].shown]]
                = [screen |-> own[n].screen,
                   fields |-> [h \in Hosts |-> [m \in Mutations |-> own[n].value]]]
    <3>1. \A h \in Hosts : Filled(own[n].value)[h].shown = [m \in Mutations |-> own[n].value]
      BY DEF Filled
    <3>2. [h \in Hosts |-> host'[docs[n].id][h].shown]
            = [h \in Hosts |-> [m \in Mutations |-> own[n].value]]
      BY <2>9, <3>1
    <3> QED
      BY <2>9, <3>2
  <2>11. PictureWith(panel'[l], host', screenOf')
           = [n \in 1 .. N |-> [screen |-> screenOf'[docs[n].id],
                                fields |-> [h \in Hosts |-> host'[docs[n].id][h].shown]]]
    BY <2>8 DEF PictureWith, docs
  <2> QED
    BY <2>4, <2>5, <2>10, <2>11
<1> QED
  BY <1>5, ShownIsNext DEF d

\* A picture is one sequence of looks for each layer.
LEMMA PictureLayers ==
    ASSUME NEW d \in Documents
    PROVE  PictureOf[d] = [l \in Layers |-> PictureOf[d][l]]
<1> DEFINE p == [l \in Layers |->
                   LET mine == Selected(d, {i \in DOMAIN d : d[i].layer = l})
                   IN  [n \in DOMAIN mine |->
                          [screen |-> mine[n].screen,
                           fields |-> [h \in Hosts |-> [m \in Mutations |-> mine[n].value]]]]]
<1>1. PictureOf[d] = p
  BY DEF PictureOf
<1>2. p = [l \in Layers |-> p[l]]
  OBVIOUS
<1> QED
  BY <1>1, <1>2

LEMMA FinishMaps ==
    ASSUME IInv, FinishCommit
    PROVE  Mapped
<1>1. /\ pc = "layers" /\ pc' = "idle" /\ op.doc \in Documents /\ Target \in Documents
      /\ lastDoc \in Documents \cup {NoDocument}
      /\ \/ op.recovering /\ health' = "recovered" /\ lastDoc' = lastDoc
         \/ ~op.recovering /\ health' = "nominal" /\ lastDoc' = op.doc
  BY DEF FinishCommit, IInv, PlanOK, Typed
<1>2. /\ \A l \in Layers \ lost' : Shown'[l] = PictureOf[Target][l]
      /\ lost' = IF op.dropped THEN {OverlayLayer} ELSE {}
      /\ op.recovering => ~op.dropped
  BY FinishPicture, FinishFacts DEF IInv, Panels
<1>3. NoDocument \notin Documents /\ \A d \in Documents : PictureOf[d] # NoDocument
  BY UiReconcilerAssumption, PictureAssumption
<1>4. CASE ~op.recovering
  <2>1. Target = op.doc
    BY <1>4 DEF Target
  <2>2. SD!Accept
    BY <1>1, <1>2, <1>3, <1>4, <2>1, ShownLayers DEF SD!Accept, SD!Agrees
  <2> QED
    BY <2>2 DEF Mapped, SD!Next
<1>5. CASE op.recovering
  <2>1. Target = lastDoc
    BY <1>5 DEF Target
  <2>3. lost' = {} /\ \A l \in Layers : Shown'[l] = PictureOf[lastDoc][l]
    BY <1>2, <1>5, <2>1
  <2>4. Shown' = PictureOf[lastDoc]
    <3>1. Shown' = [l \in Layers |-> Shown'[l]]
      BY ShownIsNext
    <3>2. PictureOf[lastDoc] = [l \in Layers |-> PictureOf[lastDoc][l]]
      BY <1>1, <2>1, PictureLayers
    <3> QED
      BY <2>3, <3>1, <3>2
  <2>2. SD!Rebuild
    BY <1>1, <1>3, <1>5, <2>1, <2>3, <2>4 DEF SD!Rebuild
  <2> QED
    BY <2>2 DEF Mapped, SD!Next
<1> QED
  BY <1>4, <1>5

LEMMA ReconcileMaps ==
    ASSUME IInv, NEW d \in Documents, Reconcile(d)
    PROVE  Mapped
<1>1. pc = "idle" /\ UNCHANGED <<panel, lastDoc, health, lost>> /\ lost \subseteq Layers
  BY DEF Reconcile, IInv, Typed
<1>2. CASE UNCHANGED <<host, screenOf, pc>>
  <2>1. Shown' = Shown
    BY <1>1, <1>2, ShownIs, ShownIsNext
  <2> QED
    BY <1>1, <1>2, <2>1, BetweenTwoCalls
<1>3. CASE /\ pc' = "commit"
           /\ \E plan : op' = [NoOp EXCEPT !.doc = d, !.plan = plan, !.i = 1, !.before = Shown]
  <2>1. op'.before = Shown /\ op'.doc = d
    <3>1. PICK plan : op' = [NoOp EXCEPT !.doc = d, !.plan = plan, !.i = 1, !.before = Shown]
      BY <1>3
    <3> QED
      BY <3>1, OpBegins
  <2>2. SD!Ask
    BY <1>1, <1>3, <2>1 DEF SD!Ask
  <2> QED
    BY <2>2 DEF Mapped, SD!Next
<1> QED
  BY <1>2, <1>3 DEF Reconcile

LEMMA PopoversMap ==
    ASSUME IInv, \/ \E w \in Widgets : AttachHostLocalScreen(w)
                 \/ \E key \in 1 .. MaxPopovers : DetachHostLocalScreen(key)
    PROVE  Mapped
<1>1. pc = "idle" /\ pc' = "idle" /\ UNCHANGED <<lastDoc, health>>
  BY DEF AttachHostLocalScreen, DetachHostLocalScreen
<1>2. IInv' /\ lost \subseteq lost' /\ \A l \in Layers \ lost' : Shown'[l] = Shown[l]
  BY AttachHostLocalScreenKeeps, DetachHostLocalScreenKeeps
<1>3. lost' \subseteq Layers
  BY <1>2 DEF IInv, Typed
<1> QED
  BY <1>1, <1>2, <1>3, BetweenTwoCalls

LEMMA PublishMaps ==
    ASSUME IInv, Publish
    PROVE  Mapped
<1>1. Shown' = Shown
  BY ShownIs, ShownIsNext DEF Publish
<1>2. lost \subseteq Layers
  BY DEF IInv, Typed
<1> QED
  BY <1>1, <1>2, BetweenTwoCalls DEF Publish

LEMMA TeardownMaps ==
    ASSUME IInv, Teardown
    PROVE  Mapped
<1>1. /\ pc = "idle" /\ pc' = "idle" /\ panel' = EmptyPicture
      /\ lastDoc' = NoDocument /\ health' = "nominal" /\ lost' = {}
  BY DEF Teardown
<1>2. Shown' = EmptyPicture
  <2>1. \A l \in Layers : panel'[l] \in Seq(Children) /\ WidgetsIn(panel'[l]) = {}
    BY <1>1, EmptyPanel DEF EmptyPicture
  <2> QED
    BY <2>1, EmptyShownNext
<1>3. SD!Reset
  BY <1>1, <1>2 DEF SD!Reset
<1> QED
  BY <1>3 DEF Mapped, SD!Next

LEMMA ReturnRefusedMaps ==
    ASSUME IInv, ReturnRefused
    PROVE  Mapped
<1>1. /\ pc = "refused" /\ ~op.recovering /\ ~op.marker /\ Collect(panel, active)
      /\ pc' = "idle" /\ UNCHANGED <<panel, active, lastDoc, health, lost>>
  BY DEF ReturnRefused
<1>2. /\ Old = panel /\ Written = {} /\ op.doc \in Documents
      /\ \A l \in Layers : panel[l] \in Seq(Children) /\ WidgetsIn(panel[l]) \subseteq ActiveIn(l, active)
  BY <1>1, RefusedFacts
<1>3. /\ host \in [Widgets -> [Hosts -> HostStates]] /\ panel \in [Layers -> Seq(Children)]
      /\ active \in [Slots -> Widgets \cup {NoWidget}] /\ lost \subseteq Layers
  BY DEF IInv, Typed
<1>4. ASSUME NEW l \in Layers \ lost, NEW w \in WidgetsIn(panel[l])
      PROVE  Resting[w] = host[w]
  <2>1. w \in ActiveIn(l, active) /\ w \in Widgets
    BY <1>2, <1>3 DEF ActiveIn
  <2>2. PICK s \in Slots : s[1] = l /\ w = active[s] /\ active[s] # NoWidget
    BY <2>1 DEF ActiveIn
  <2>3. ASSUME NEW j \in DOMAIN op.plan, op.plan[j].widget = w
        PROVE  host[w] = Held(op.plan[j].prior)
    <3>1. s = Slot(op.plan[j].inst)
      BY <1>1, <2>2, <2>3 DEF IInv, PlanOK
    <3>2. op.plan[j].inst.layer = l /\ w \in InUse
      BY <2>2, <3>1 DEF Slot, InUse
    <3> QED
      BY <1>1, <1>2, <2>3, <3>2 DEF IInv, Fields
  <2> QED
    BY <2>1, <2>3, RestingIsHost
<1>5. ASSUME NEW l \in Layers \ lost
      PROVE  op.before[l] = Shown[l]
  <2>1. op.before[l] = PictureWith(panel[l], Resting, screenOf)
    BY <1>1, <1>2, BeforeIs DEF IInv
  <2>2. PictureWith(panel[l], Resting, screenOf) = PictureWith(panel[l], host, screenOf)
    <3> DEFINE children == panel[l]
               h1 == host
               h2 == Resting
    <3>1. children \in Seq(Children) /\ \A w \in WidgetsIn(children) : h2[w] = h1[w]
      BY <1>3, <1>4
    <3> HIDE DEF children, h1, h2
    <3>2. PictureWith(children, h2, screenOf) = PictureWith(children, h1, screenOf)
      BY <3>1, SamePicture
    <3> QED
      BY <3>2 DEF children, h1, h2
  <2> QED
    BY <2>1, <2>2, ShownIs
<1>6. ASSUME NEW l \in Layers, NEW w \in WidgetsIn(panel[l])
      PROVE  host'[w] = host[w] /\ screenOf'[w] = screenOf[w]
  <2>1. w \in Widgets /\ w \notin FreeWidgets(active, panel)
    BY <1>2, <1>3, <1>6 DEF ActiveIn, FreeWidgets
  <2> QED
    BY <2>1 DEF Collect, ReturnRefused
<1>7. Shown' = Shown
  <2>1. \A l \in Layers : Documented(panel'[l]) = Documented(panel[l])
    BY <1>1
  <2>2. \A l \in Layers : Shown'[l] = PictureWith(panel[l], host, screenOf)
    BY <1>3, <1>6, <2>1, ShownSame
  <2> QED
    BY <2>2, ShownIs, ShownIsNext
<1>8. PictureOf[op.doc] # NoDocument
  BY <1>2, PictureAssumption
<1>9. SD!Refuse
  BY <1>1, <1>5, <1>7, <1>8, ShownLayers DEF SD!Refuse, SD!Agrees
<1> QED
  BY <1>9 DEF Mapped, SD!Next

\* The recovery gives up: the shell is empty and says so.
LEMMA LoseMaps ==
    ASSUME pc = "refused", op.doc \in Documents, pc' = "idle", health' = "failed", lastDoc' = lastDoc,
           lost' = {}, \A l \in Layers : panel'[l] \in Seq(Children) /\ WidgetsIn(panel'[l]) = {}
    PROVE  Mapped
<1>1. Shown' = EmptyPicture
  BY EmptyShownNext
<1>2. PictureOf[op.doc] # NoDocument
  BY PictureAssumption
<1>3. SD!Lose
  BY <1>1, <1>2 DEF SD!Lose
<1> QED
  BY <1>3 DEF Mapped, SD!Next

LEMMA RecoveryFailsMaps ==
    ASSUME IInv, RecoveryFails
    PROVE  Mapped
<1>1. /\ pc = "refused" /\ op.recovering /\ pc' = "idle" /\ health' = "failed"
      /\ lastDoc' = lastDoc /\ panel' = panel /\ lost' = {}
  BY DEF RecoveryFails
<1>2. /\ InUse = {} /\ op.doc \in Documents
      /\ \A l \in Layers : panel[l] \in Seq(Children) /\ WidgetsIn(panel[l]) \subseteq ActiveIn(l, active)
  BY <1>1, RefusedFacts
<1>3. \A l \in Layers : ActiveIn(l, active) \subseteq InUse
  BY DEF ActiveIn, InUse
<1>4. \A l \in Layers : panel'[l] \in Seq(Children) /\ WidgetsIn(panel'[l]) = {}
  BY <1>1, <1>2, <1>3
<1> QED
  BY <1>1, <1>2, <1>4, LoseMaps

LEMMA IdleFactsNext ==
    (IInv /\ pc = "idle" =>
       \A l \in Layers : WidgetsIn(panel[l]) \subseteq ActiveIn(l, active) /\ panel[l] \in Seq(Children))'
<1>1. IInv /\ pc = "idle" =>
        \A l \in Layers : WidgetsIn(panel[l]) \subseteq ActiveIn(l, active) /\ panel[l] \in Seq(Children)
  BY IdleFacts
<1> QED
  BY <1>1, PTL

LEMMA RecoverMaps ==
    ASSUME IInv, IInv', Recover
    PROVE  Mapped
<1>1. pc = "refused" /\ lastDoc' = lastDoc /\ op.doc \in Documents /\ Shaped(op) /\ lost \subseteq Layers
  BY DEF Recover, IInv, PlanOK, Typed
<1>2. CASE pc' = "idle" /\ health' = "failed" /\ lost' = {}
  <2>1. \A s \in Slots : active'[s] = NoWidget
    BY DEF Recover
  <2>4. \A l \in Layers : WidgetsIn(panel'[l]) \subseteq ActiveIn(l, active') /\ panel'[l] \in Seq(Children)
    BY <1>2, IdleFactsNext
  <2>5. \A l \in Layers : ActiveIn(l, active') = {}
    BY <2>1 DEF ActiveIn
  <2> QED
    BY <1>1, <1>2, <2>4, <2>5, LoseMaps
<1>3. CASE /\ pc' = "commit" /\ health' = health /\ lost' = lost
           /\ \E plan : op' = [op EXCEPT !.plan = plan, !.i = 1, !.marker = FALSE,
                                          !.recovering = TRUE, !.dropped = FALSE]
  <2>1. op'.before = op.before /\ op'.doc = op.doc
    BY <1>1, <1>3, OpRecovers
  <2> QED
    BY <1>1, <1>3, <2>1, InsideACall
<1> QED
  BY <1>2, <1>3 DEF Recover

LEMMA NextMaps ==
    ASSUME IInv, IInv', [Next]_vars
    PROVE  Mapped
<1>1. ASSUME NEW d \in Documents, Reconcile(d) PROVE Mapped
  BY <1>1, ReconcileMaps
<1>2. ASSUME \/ CommitScreenFields \/ CommitScreenFieldsFails \/ CentralStyleFails \/ UndoScreen
             \/ StartLayers \/ HostInvalidated
      PROVE  Mapped
  BY <1>2, FieldsMap
<1>3. ASSUME CommitLayer \/ CommitLayerFails \/ RestoreLayer PROVE Mapped
  BY <1>3, LayersMap
<1>4. ASSUME FinishCommit PROVE Mapped
  BY <1>4, FinishMaps
<1>5. ASSUME ReturnRefused PROVE Mapped
  BY <1>5, ReturnRefusedMaps
<1>6. ASSUME Recover PROVE Mapped
  BY <1>6, RecoverMaps
<1>7. ASSUME RecoveryFails PROVE Mapped
  BY <1>7, RecoveryFailsMaps
<1>8. ASSUME \/ \E w \in Widgets : AttachHostLocalScreen(w)
             \/ \E key \in 1 .. MaxPopovers : DetachHostLocalScreen(key)
      PROVE  Mapped
  BY <1>8, PopoversMap
<1>9. ASSUME Publish PROVE Mapped
  BY <1>9, PublishMaps
<1>10. ASSUME Teardown PROVE Mapped
  BY <1>10, TeardownMaps
<1>11. ASSUME UNCHANGED vars PROVE Mapped
  <2>1. Shown' = Shown
    BY <1>11, ShownIs, ShownIsNext DEF vars
  <2>2. UNCHANGED SD!sdVars
    BY <1>11, <2>1 DEF vars, SD!sdVars
  <2> QED
    BY <2>2 DEF Mapped
<1> QED
  BY <1>1, <1>2, <1>3, <1>4, <1>5, <1>6, <1>7, <1>8, <1>9, <1>10, <1>11 DEF Next, Commit, Undo

(***************************************************************************)
(* The screen is one accepted document, whole, in every layer that lost    *)
(* nothing: every step of the reconciler is a step of ShownDocument or     *)
(* shows nothing.  The ends of a call show: FinishCommit accepts, losing   *)
(* at most overlay screens, or, in a recovery, rebuilds; ReturnRefused     *)
(* refuses, which needs that undoing restored the picture; RecoveryFails,  *)
(* or a recovery that cannot be prepared, loses the screen; Teardown       *)
(* resets.  The three places where the code goes on without what it lost   *)
(* (HostInvalidated, a child not taken back in CommitLayerFails and when a *)
(* popover opens or closes) are a Drop.                                    *)
(***************************************************************************)
THEOREM ImplementsShownDocumentAlways == Spec => ImplementsShownDocument
<1>1. Init => SD!Init
  BY InitMaps
<1>2. IInv /\ IInv' /\ [Next]_vars => [SD!Next]_SD!sdVars
  BY NextMaps DEF Mapped
<1>3. Spec => []IInv
  BY IInvAlways
<1> QED
  BY <1>1, <1>2, <1>3, PTL DEF Spec, ImplementsShownDocument, SD!Spec
=============================================================================
