-------------------------- MODULE Sequencing_proofs --------------------------
(***************************************************************************)
(* What is computed element by element is got hold of with the first place *)
(* at which it would go wrong: Induction is a fact about a set of numbers, *)
(* and the results on the way are a function on them, which is shown to    *)
(* exist before it is used.                                                *)
(***************************************************************************)
EXTENDS Sequencing, SequencesExt, FiniteSetTheorems, WellFoundedInduction, TLAPS

LEMMA SomeFirst ==
    ASSUME NEW S, S \subseteq Nat, S # {}
    PROVE  \E n \in S : \A m \in S : n <= m
<1> DEFINE Less == {pair \in Nat \X Nat : pair[1] < pair[2]}
<1>1. IsWellFoundedOn(Less, Nat)
  BY NatLessThanWellFounded DEF OpToRel
<1>2. \A m, n \in Nat : m < n => <<m, n>> \in Less
  OBVIOUS
<1> HIDE DEF Less
<1>3. PICK n \in S : \A m \in S : ~(<<m, n>> \in Less)
  BY <1>1, WFMin
<1>4. ASSUME NEW m \in S PROVE n <= m
  <2>1. n \in Nat /\ m \in Nat
    OBVIOUS
  <2>2. ~(m < n)
    BY <1>2, <1>3, <2>1
  <2> QED
    BY <2>1, <2>2
<1> QED
  BY <1>4

LEMMA Induction ==
    ASSUME NEW N \in Nat, NEW S, 0 \in S,
           \A i \in 1 .. N : i - 1 \in S => i \in S
    PROVE  \A i \in 0 .. N : i \in S
<1> DEFINE missing == {i \in 0 .. N : i \notin S}
<1> SUFFICES ASSUME missing # {} PROVE FALSE
  OBVIOUS
<1>1. PICK k \in missing : \A m \in missing : k <= m
  <2>1. missing \subseteq Nat
    OBVIOUS
  <2> HIDE DEF missing
  <2> QED BY <2>1, SomeFirst
<1>2. k \in 1 .. N /\ k - 1 \in 0 .. N
  BY <1>1
<1>3. k - 1 \in S
  BY <1>1, <1>2
<1> QED BY <1>1, <1>2, <1>3

\* f goes N steps from a, the i-th being g[i].
Steps(f, T, N, a, g) ==
    f \in [0 .. N -> T] /\ f[0] = a /\ \A i \in 1 .. N : f[i] = g[i][f[i - 1]]

LEMMA StepByStep ==
    ASSUME NEW N \in Nat, NEW T, NEW a \in T, NEW g, g \in [1 .. N -> [T -> T]]
    PROVE  \E f : Steps(f, T, N, a, g)
<1> DEFINE S == {k \in 0 .. N : \E f : Steps(f, T, k, a, g)}
<1>1. 0 \in S
  <2> DEFINE h == [i \in 0 .. 0 |-> a]
  <2>1. Steps(h, T, 0, a, g)
    BY DEF Steps
  <2> HIDE DEF h
  <2> QED BY <2>1
<1>2. ASSUME NEW k \in 1 .. N, k - 1 \in S PROVE k \in S
  <2>1. PICK f : Steps(f, T, k - 1, a, g)
    BY <1>2
  <2> DEFINE h == [i \in 0 .. k |-> IF i = k THEN g[k][f[k - 1]] ELSE f[i]]
  <2>2. Steps(h, T, k, a, g)
    <3>1. g[k] \in [T -> T] /\ f[k - 1] \in T /\ k \in Nat
      BY <2>1 DEF Steps
    <3> QED BY <2>1, <3>1 DEF Steps
  <2> HIDE DEF h
  <2> QED BY <2>2
<1>3. \A i \in 0 .. N : i \in S
  <2>1. \A k \in 1 .. N : k - 1 \in S => k \in S
    BY <1>2
  <2> HIDE DEF S
  <2> QED BY <1>1, <2>1, Induction
<1> QED BY <1>3

\* What is defined step by step is what it is said to be.
Stepwise(f, N, a, g) ==
    f = [i \in 0 .. N |-> IF i = 0 THEN a ELSE g[i][f[i - 1]]]

LEMMA StepwiseIsSteps ==
    ASSUME NEW N \in Nat, NEW T, NEW a \in T, NEW g, g \in [1 .. N -> [T -> T]],
           NEW f, Stepwise(f, N, a, g)
    PROVE  Steps(f, T, N, a, g)
<1>1. f[0] = a /\ \A i \in 1 .. N : f[i] = g[i][f[i - 1]]
  BY DEF Stepwise
<1>2. f = [i \in 0 .. N |-> f[i]]
  BY DEF Stepwise
<1> DEFINE S == {i \in 0 .. N : f[i] \in T}
<1>3. 0 \in S
  BY <1>1
<1>4. ASSUME NEW i \in 1 .. N, i - 1 \in S PROVE i \in S
  <2>1. f[i - 1] \in T /\ g[i] \in [T -> T] /\ f[i] = g[i][f[i - 1]]
    BY <1>1, <1>4
  <2> QED BY <2>1
<1>5. \A i \in 0 .. N : i \in S
  <2>1. \A i \in 1 .. N : i - 1 \in S => i \in S
    BY <1>4
  <2> HIDE DEF S
  <2> QED BY <1>3, <2>1, Induction
<1>6. f \in [0 .. N -> T]
  BY <1>2, <1>5
<1> QED BY <1>1, <1>6 DEF Steps

LEMMA StepwiseExists ==
    ASSUME NEW N \in Nat, NEW T, NEW a \in T, NEW g, g \in [1 .. N -> [T -> T]]
    PROVE  \E f : Stepwise(f, N, a, g)
<1>1. PICK f : Steps(f, T, N, a, g)
  BY StepByStep
<1>2. Stepwise(f, N, a, g)
  BY <1>1 DEF Steps, Stepwise
<1> QED BY <1>2

\* The results on the way through a sequence.
OnTheWay(f, T, step, seq, first) ==
    /\ f \in [0 .. Len(seq) -> T]
    /\ f[0] = first
    /\ \A i \in 1 .. Len(seq) : f[i] = step[seq[i]][f[i - 1]]
    /\ Through(step, seq, first) = f[Len(seq)]

LEMMA ThroughSteps ==
    ASSUME NEW X, NEW T, NEW step, step \in [X -> [T -> T]],
           NEW seq \in Seq(X), NEW first \in T
    PROVE  \E f : OnTheWay(f, T, step, seq, first)
<1> DEFINE N == Len(seq)
           g == [i \in 1 .. N |-> step[seq[i]]]
           right(f) == f = [i \in 0 .. N |-> IF i = 0 THEN first ELSE step[seq[i]][f[i - 1]]]
           after == CHOOSE f : right(f)
<1>1. N \in Nat /\ \A i \in 1 .. N : seq[i] \in X
  OBVIOUS
<1>2. g \in [1 .. N -> [T -> T]]
  BY <1>1
<1>3. ASSUME NEW f PROVE right(f) <=> Stepwise(f, N, first, g)
  <2>1. \A i \in 1 .. N : g[i] = step[seq[i]]
    OBVIOUS
  <2> HIDE DEF g, N
  <2>2. [i \in 0 .. N |-> IF i = 0 THEN first ELSE step[seq[i]][f[i - 1]]]
          = [i \in 0 .. N |-> IF i = 0 THEN first ELSE g[i][f[i - 1]]]
    BY <1>1, <2>1
  <2> QED BY <2>2 DEF Stepwise
<1>4. \E f : right(f)
  <2>1. PICK f : Stepwise(f, N, first, g)
    <3> HIDE DEF N, g, right, after
    <3> QED BY <1>1, <1>2, StepwiseExists
  <2>2. right(f)
    BY <1>3, <2>1
  <2> HIDE DEF right
  <2> QED BY <2>2
<1>5. right(after)
  <2> HIDE DEF right
  <2> QED BY <1>4
<1>6. Steps(after, T, N, first, g)
  <2>1. Stepwise(after, N, first, g)
    BY <1>3, <1>5
  <2> HIDE DEF N, g, right, after
  <2> QED BY <1>1, <1>2, <2>1, StepwiseIsSteps
<1>7. Through(step, seq, first) = after[N]
  BY DEF Through
<1>8. \A i \in 1 .. N : g[i] = step[seq[i]]
  OBVIOUS
<1> HIDE DEF after, g, right
<1>9. OnTheWay(after, T, step, seq, first)
  BY <1>6, <1>7, <1>8 DEF OnTheWay, Steps
<1> QED BY <1>9

\* What holds before the first element and is kept by each holds after the last.
LEMMA ThroughKeeps ==
    ASSUME NEW X, NEW T, NEW step, step \in [X -> [T -> T]],
           NEW seq \in Seq(X), NEW first \in T,
           NEW P, first \in P[0],
           \A i \in 1 .. Len(seq) : \A v \in T :
               v \in P[i - 1] => step[seq[i]][v] \in P[i]
    PROVE  Through(step, seq, first) \in T \cap P[Len(seq)]
<1>1. PICK f : OnTheWay(f, T, step, seq, first)
  BY ThroughSteps
<1>2. Len(seq) \in Nat
  OBVIOUS
<1> DEFINE N == Len(seq)
           S == {i \in 0 .. N : f[i] \in P[i]}
<1>3. 0 \in S
  BY <1>1, <1>2 DEF OnTheWay
<1>4. ASSUME NEW i \in 1 .. N, i - 1 \in S PROVE i \in S
  <2>1. f[i - 1] \in T /\ f[i] = step[seq[i]][f[i - 1]]
    BY <1>1, <1>2 DEF OnTheWay
  <2> QED BY <1>2, <1>4, <2>1
<1>5. \A i \in 0 .. N : i \in S
  <2>1. \A i \in 1 .. N : i - 1 \in S => i \in S
    BY <1>4
  <2> HIDE DEF S
  <2> QED BY <1>2, <1>3, <2>1, Induction
<1>6. f[N] \in P[N] /\ f[N] \in T
  BY <1>1, <1>2, <1>5 DEF OnTheWay
<1> QED BY <1>1, <1>6 DEF OnTheWay

-----------------------------------------------------------------------------
LEMMA ToSetOfAppend ==
    ASSUME NEW T, NEW s \in Seq(T), NEW e \in T
    PROVE  /\ Append(s, e) \in Seq(T)
           /\ ToSet(Append(s, e)) = ToSet(s) \cup {e}
<1>1. Append(s, e) \in Seq(T)
  OBVIOUS
<1> DEFINE t == Append(s, e)
<1>2. Len(s) \in Nat /\ Len(t) = Len(s) + 1 /\ DOMAIN s = 1 .. Len(s) /\ DOMAIN t = 1 .. Len(t)
  OBVIOUS
<1>3. t[Len(s) + 1] = e /\ \A i \in 1 .. Len(s) : t[i] = s[i]
  OBVIOUS
<1> HIDE DEF t
<1>4. ToSet(t) = ToSet(s) \cup {e}
  BY <1>2, <1>3 DEF ToSet
<1> QED BY <1>1, <1>4 DEF t

(***************************************************************************)
(* The numbers of a finite set, in order.                                  *)
(***************************************************************************)
Rank(S, i) == Cardinality({j \in S : j <= i})

LEMMA RankFacts ==
    ASSUME NEW S, S \subseteq Nat, IsFiniteSet(S)
    PROVE  /\ Cardinality(S) \in Nat
           /\ \A i \in S : Rank(S, i) \in 1 .. Cardinality(S)
           /\ \A i, j \in S : i < j => Rank(S, i) < Rank(S, j)
<1> DEFINE upto(i) == {j \in S : j <= i}
<1>1. Cardinality(S) \in Nat
  BY FS_CardinalityType
<1>2. ASSUME NEW i \in S
      PROVE  IsFiniteSet(upto(i)) /\ Rank(S, i) \in 1 .. Cardinality(S)
  <2>1. upto(i) \subseteq S /\ i \in upto(i)
    OBVIOUS
  <2> HIDE DEF upto
  <2>2. IsFiniteSet(upto(i)) /\ Cardinality(upto(i)) <= Cardinality(S)
    BY <2>1, FS_Subset
  <2>3. Cardinality(upto(i)) \in Nat /\ Cardinality(upto(i)) # 0
    BY <2>1, <2>2, FS_CardinalityType, FS_EmptySet
  <2> QED BY <1>1, <2>2, <2>3 DEF Rank, upto
<1>3. ASSUME NEW i \in S, NEW j \in S, i < j PROVE Rank(S, i) < Rank(S, j)
  <2>0. i \in Nat /\ j \in Nat /\ \A k \in S : k \in Nat
    OBVIOUS
  <2>1. upto(i) \subseteq upto(j) /\ j \in upto(j) /\ j \notin upto(i)
    <3>1. \A k \in S : k <= i => k <= j
      BY <1>3, <2>0
    <3>2. upto(i) \subseteq upto(j)
      BY <3>1
    <3>3. j <= j /\ ~(j <= i)
      BY <1>3, <2>0
    <3>4. j \in upto(j)
      BY <3>3
    <3>5. j \notin upto(i)
      BY <3>3
    <3> QED BY <3>2, <3>4, <3>5
  <2>2. IsFiniteSet(upto(j))
    BY <1>2
  <2> HIDE DEF upto
  <2>3. Cardinality(upto(i)) <= Cardinality(upto(j))
        /\ Cardinality(upto(i)) # Cardinality(upto(j))
    BY <2>1, <2>2, FS_Subset
  <2>4. Cardinality(upto(i)) \in Nat /\ Cardinality(upto(j)) \in Nat
    BY <1>2, FS_CardinalityType
  <2> QED BY <2>3, <2>4 DEF Rank, upto
<1> QED BY <1>1, <1>2, <1>3

\* Every number is there, at one place, and the places go up with the numbers.
LEMMA NthFacts ==
    ASSUME NEW S, S \subseteq Nat, IsFiniteSet(S)
    PROVE  /\ Cardinality(S) \in Nat
           /\ \A n \in 1 .. Cardinality(S) : Nth(S, n) \in S /\ Rank(S, Nth(S, n)) = n
           /\ \A i \in S : Rank(S, i) \in 1 .. Cardinality(S) /\ Nth(S, Rank(S, i)) = i
           /\ \A m, n \in 1 .. Cardinality(S) : m < n <=> Nth(S, m) < Nth(S, n)
<1> DEFINE N == Cardinality(S)
           rank == [i \in S |-> Rank(S, i)]
<1>1. /\ N \in Nat
      /\ \A i \in S : Rank(S, i) \in 1 .. N
      /\ \A i, j \in S : i < j => Rank(S, i) < Rank(S, j)
  BY RankFacts
<1>2. \A i, j \in S : Rank(S, i) = Rank(S, j) => i = j
  BY <1>1
<1>3. rank \in Injection(S, 1 .. N)
  BY <1>1, <1>2 DEF Injection, IsInjective
<1>4. IsFiniteSet(1 .. N) /\ Cardinality(1 .. N) = N
  BY <1>1, FS_Interval
<1>5. rank \in Surjection(S, 1 .. N)
  <2> HIDE DEF rank
  <2> QED BY <1>3, <1>4, FS_Injection
<1>6. ASSUME NEW n \in 1 .. N PROVE Nth(S, n) \in S /\ Rank(S, Nth(S, n)) = n
  <2>1. \E i \in S : Rank(S, i) = n
    BY <1>5 DEF Surjection
  <2> QED BY <2>1 DEF Nth, Rank
<1>7. ASSUME NEW i \in S PROVE Nth(S, Rank(S, i)) = i
  BY <1>1, <1>2, <1>6
<1>8. ASSUME NEW m \in 1 .. N, NEW n \in 1 .. N PROVE m < n <=> Nth(S, m) < Nth(S, n)
  <2>1. /\ Nth(S, m) \in S /\ Rank(S, Nth(S, m)) = m
        /\ Nth(S, n) \in S /\ Rank(S, Nth(S, n)) = n
    BY <1>6
  <2>2. Nth(S, m) \in Nat /\ Nth(S, n) \in Nat
    BY <2>1
  <2>3. Nth(S, m) < Nth(S, n) => m < n
    BY <1>1, <2>1
  <2>4. Nth(S, n) < Nth(S, m) => n < m
    BY <1>1, <2>1
  <2>5. Nth(S, n) = Nth(S, m) => n = m
    BY <2>1
  <2>6. m \in Nat /\ n \in Nat
    BY <1>1
  <2> QED BY <2>2, <2>3, <2>4, <2>5, <2>6
<1> QED BY <1>1, <1>6, <1>7, <1>8

LEMMA SelectedFacts ==
    ASSUME NEW T, NEW seq \in Seq(T), NEW places, places \subseteq DOMAIN seq
    PROVE  /\ IsFiniteSet(places) /\ Cardinality(places) \in Nat
           /\ Selected(seq, places) \in Seq(T)
           /\ Len(Selected(seq, places)) = Cardinality(places)
           /\ \A n \in 1 .. Cardinality(places) :
                 /\ Nth(places, n) \in places
                 /\ Selected(seq, places)[n] = seq[Nth(places, n)]
           /\ ToSet(Selected(seq, places)) = {seq[i] : i \in places}
<1> DEFINE N == Cardinality(places)
           q == Selected(seq, places)
<1>1. places \subseteq Nat /\ IsFiniteSet(places)
  <2>1. DOMAIN seq = 1 .. Len(seq) /\ Len(seq) \in Nat
    OBVIOUS
  <2>2. IsFiniteSet(1 .. Len(seq))
    BY <2>1, FS_Interval
  <2> QED BY <2>1, <2>2, FS_Subset
<1>2. /\ N \in Nat
      /\ \A n \in 1 .. N : Nth(places, n) \in places
      /\ \A i \in places : Rank(places, i) \in 1 .. N /\ Nth(places, Rank(places, i)) = i
  BY <1>1, NthFacts
<1>3. q = [n \in 1 .. N |-> seq[Nth(places, n)]]
  BY DEF Selected
<1> HIDE DEF q, N
<1>4. \A i \in places : seq[i] \in T
  OBVIOUS
<1>5. q \in Seq(T) /\ Len(q) = N /\ DOMAIN q = 1 .. N
  BY <1>2, <1>3, <1>4
<1>6. \A n \in 1 .. N : q[n] = seq[Nth(places, n)]
  BY <1>3
<1>7. ToSet(q) = {seq[i] : i \in places}
  <2>1. \A x \in ToSet(q) : x \in {seq[i] : i \in places}
    BY <1>2, <1>5, <1>6 DEF ToSet
  <2>2. \A i \in places : seq[i] = q[Rank(places, i)] /\ Rank(places, i) \in DOMAIN q
    BY <1>2, <1>5, <1>6
  <2> QED BY <2>1, <2>2 DEF ToSet
<1> QED BY <1>1, <1>2, <1>5, <1>6, <1>7 DEF N, q
=============================================================================
