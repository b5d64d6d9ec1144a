------------------------------ MODULE Induction ------------------------------
(***************************************************************************)
(* Induction over the naturals, in the form of the least number: a set of  *)
(* naturals that has a member has a smallest one.  A claim about every     *)
(* natural is proved by it from the smallest that would refute the claim.  *)
(* Functions that follow from one value to the next exist, recursive       *)
(* functions exist that come down in rank, and a function on 1..n is a     *)
(* sequence.  A sum over a set is the same whichever member comes first,   *)
(* and sets that correspond one to one, with equal weights, sum alike.     *)
(* A fold over the places of a sequence is its running sum.  What is       *)
(* selected of a sequence is known item by item, from its end.             *)
(***************************************************************************)
EXTENDS Selection, FiniteSetTheorems, SequenceTheorems, TLAPS

\* A set of naturals that is not empty has a least member: the initial segments
\* below its members are finite sets, and strict inclusion of those is well-founded.
LEMMA LeastOf ==
    ASSUME NEW T, T \subseteq Nat, T # {}
    PROVE  \E m \in T : \A k \in T : m <= k
<1>. DEFINE Below == {0..(k - 1) : k \in T}
            R == StrictSubsetOrdering(Nat)
<1>1. Below \subseteq FiniteSubsetsOf(Nat)
  <2>1. \A k \in T : IsFiniteSet(0..(k - 1)) /\ 0..(k - 1) \subseteq Nat
    <3>. TAKE k \in T
    <3>1. 0 \in Int /\ k - 1 \in Int
      OBVIOUS
    <3>. QED BY <3>1, FS_Interval
  <2>. QED BY <2>1 DEF FiniteSubsetsOf
<1>2. Below # {}
  OBVIOUS
<1>3. IsWellFoundedOn(R, FiniteSubsetsOf(Nat))
  BY FS_StrictSubsetOrderingWellFounded
<1>4. \A k, m \in T : k < m => <<0..(k - 1), 0..(m - 1)>> \in R
  <2>. TAKE k, m \in T
  <2>. HAVE k < m
  <2>1. 0..(k - 1) \subseteq 0..(m - 1)
    OBVIOUS
  <2>2. k \in 0..(m - 1) /\ k \notin 0..(k - 1)
    OBVIOUS
  <2>3. 0..(k - 1) # 0..(m - 1)
    BY <2>2
  <2>4. 0..(m - 1) \in SUBSET Nat /\ 0..(k - 1) \in SUBSET Nat
    OBVIOUS
  <2>. QED BY <2>1, <2>3, <2>4 DEF StrictSubsetOrdering
<1>. HIDE DEF R
<1>5. \E x \in Below : \A y \in Below : ~(<<y, x>> \in R)
  <2>. HIDE DEF Below
  <2>. QED BY <1>1, <1>2, <1>3, WFMin
<1>6. PICK m \in T : \A k \in T : ~(<<0..(k - 1), 0..(m - 1)>> \in R)
  BY <1>5
<1>7. \A k \in T : ~(k < m)
  BY <1>4, <1>6
<1>. QED BY <1>7

\* The same from above: a bounded set of naturals has a largest member.
LEMMA LargestOf ==
    ASSUME NEW T, T \subseteq Nat, T # {}, NEW n \in Nat, \A k \in T : k <= n
    PROVE  \E m \in T : \A k \in T : k <= m
<1>. DEFINE U == {n - k : k \in T}
<1>1. U \subseteq Nat /\ U # {}
  <2>1. \A k \in T : n - k \in Nat
    OBVIOUS
  <2>. QED BY <2>1
<1>2. PICK u \in U : \A v \in U : u <= v
  BY <1>1, LeastOf
<1>3. PICK m \in T : u = n - m
  OBVIOUS
<1>4. \A k \in T : n - m <= n - k
  BY <1>2, <1>3
<1>. QED BY <1>4

\* A function of the first n steps: its first value, and by F what follows each value.
Follows(h, n, S, first, F) ==
    h \in [0..n -> S] /\ h[0] = first /\ \A k \in 1..n : h[k] = F[k][h[k - 1]]

\* What is defined step by step is there, for any number of steps.
LEMMA StepByStep ==
    ASSUME NEW S, NEW first \in S, NEW F \in [Nat -> [S -> S]], NEW n \in Nat
    PROVE  \E h : Follows(h, n, S, first, F)
<1>. DEFINE Runs(h, m) == Follows(h, m, S, first, F)
            bad == {m \in Nat : ~\E h : Runs(h, m)}
<1>1. CASE bad = {}
  <2>1. \E h : Runs(h, n)
    <3>. HIDE DEF Runs
    <3>. QED BY <1>1
  <2>. QED BY <2>1
<1>2. CASE bad # {}
  <2>1. PICK m \in bad : \A j \in bad : m <= j
    <3>1. bad \subseteq Nat
      OBVIOUS
    <3>. HIDE DEF bad
    <3>. QED BY <1>2, <3>1, LeastOf
  <2>2. m \in Nat /\ ~\E h : Runs(h, m)
    <3>. HIDE DEF Runs
    <3>. QED BY <2>1
  <2>3. CASE m = 0
    <3>. DEFINE h == [k \in 0..0 |-> first]
    <3>1. Runs(h, m)
      BY <2>3 DEF Follows
    <3>. QED BY <2>2, <3>1
  <2>4. CASE m # 0
    <3>. DEFINE j == m - 1
    <3>1. j \in Nat /\ j < m /\ m = j + 1
      BY <2>2, <2>4
    <3>2. PICK h : Runs(h, j)
      <4>1. j \notin bad
        <5>. HIDE DEF bad, j
        <5>. QED BY <2>1, <2>2, <3>1
      <4>. HIDE DEF Runs, j
      <4>. QED BY <3>1, <4>1
    <3>. HIDE DEF j
    <3>. DEFINE g == [k \in 0..m |-> IF k = m THEN F[m][h[j]] ELSE h[k]]
    <3>3. h[j] \in S /\ F[m][h[j]] \in S
      BY <2>2, <3>1, <3>2 DEF Follows
    <3>4. \A k \in 0..m : k \in 0..j \/ k = m
      BY <3>1
    <3>5. g \in [0..m -> S] /\ g[m] = F[m][h[j]] /\ \A k \in 0..j : g[k] = h[k] /\ k \in 0..m
      BY <2>2, <3>1, <3>2, <3>3, <3>4 DEF Follows
    <3>6. g[0] = first
      BY <3>1, <3>2, <3>5 DEF Follows
    <3>. HIDE DEF g
    <3>7. ASSUME NEW k \in 1..m PROVE g[k] = F[k][g[k - 1]]
      <4>1. CASE k = m
        <5>1. k - 1 = j /\ j \in 0..j
          BY <3>1, <4>1
        <5>. QED BY <3>5, <4>1, <5>1
      <4>2. CASE k # m
        <5>1. k \in 1..j /\ k \in 0..j /\ k - 1 \in 0..j
          BY <3>1, <4>2
        <5>. QED BY <3>2, <3>5, <5>1 DEF Follows
      <4>. QED BY <4>1, <4>2
    <3>8. Runs(g, m)
      BY <3>5, <3>6, <3>7 DEF Follows
    <3>. HIDE DEF Runs
    <3>. QED BY <2>2, <3>8
  <2>. QED BY <2>3, <2>4
<1>. QED BY <1>1, <1>2

\* A sequence of a given length.
LEMMA SeqOfLength ==
    ASSUME NEW S, NEW n \in Nat, NEW f \in [1..n -> S]
    PROVE  f \in Seq(S) /\ Len(f) = n
<1>1. f \in Seq(S)
  BY SeqDef
<1>2. DOMAIN f = 1..Len(f) /\ Len(f) \in Nat
  BY <1>1, LenProperties
<1>3. 1..Len(f) = 1..n
  BY <1>2
<1>4. \A k, m \in Nat : 1..k = 1..m => k <= m
  <2>. SUFFICES ASSUME NEW k \in Nat, NEW m \in Nat, 1..k = 1..m, k > m PROVE FALSE
    OBVIOUS
  <2>1. k \in 1..k /\ k \notin 1..m
    OBVIOUS
  <2>. QED BY <2>1
<1>. QED BY <1>1, <1>2, <1>3, <1>4

\* Of sets that are finite one has the fewest members.
LEMMA SmallestOf ==
    ASSUME NEW B, B # {}, \A T \in B : IsFiniteSet(T)
    PROVE  \E T \in B : \A U \in B : Cardinality(T) <= Cardinality(U)
<1>. DEFINE sizes == {Cardinality(T) : T \in B}
<1>1. sizes \subseteq Nat /\ sizes # {}
  <2>1. \A T \in B : Cardinality(T) \in Nat
    BY FS_CardinalityType
  <2>. QED BY <2>1
<1>2. PICK m \in sizes : \A k \in sizes : m <= k
  <2>. HIDE DEF sizes
  <2>. QED BY <1>1, LeastOf
<1>. QED BY <1>2

\* What F makes of a function at a place rests on the places of lower rank.
Descends(F, D, V, rank, n) ==
    /\ V # {} /\ n \in Nat /\ rank \in [D -> Nat] /\ \A x \in D : rank[x] <= n
    /\ F \in [[D -> V] -> [D -> V]]
    /\ \A g, h \in [D -> V] : \A x \in D :
           (\A y \in D : rank[y] < rank[x] => g[y] = h[y]) => F[g][x] = F[h][x]

\* A recursive function exists if each value rests on values of lower rank.
LEMMA FixedPoint ==
    ASSUME NEW F, NEW D, NEW V, NEW rank, NEW n, Descends(F, D, V, rank, n)
    PROVE  \E g \in [D -> V] : g = F[g]
<1>0. /\ V # {} /\ n \in Nat /\ rank \in [D -> Nat] /\ \A x \in D : rank[x] <= n
      /\ F \in [[D -> V] -> [D -> V]]
  BY DEF Descends
<1>. DEFINE S == [D -> V]
            first == [x \in D |-> CHOOSE v \in V : TRUE]
            G == [k \in Nat |-> F]
            N == n + 2
<1>1. first \in S /\ G \in [Nat -> [S -> S]] /\ N \in Nat
  BY <1>0
<1>2. PICK h : Follows(h, N, S, first, G)
  <2>. HIDE DEF S, first, G, N
  <2>. QED BY <1>1, StepByStep
<1>3. h \in [0..N -> S] /\ \A k \in 1..N : h[k] = F[h[k - 1]]
  <2>1. \A k \in 1..N : G[k] = F
    BY <1>1
  <2>. HIDE DEF G, S, N
  <2>. QED BY <1>2, <2>1 DEF Follows
<1>. HIDE DEF first, G
<1>. DEFINE Settled(k) == \A x \in D : rank[x] < k => h[k][x] = h[k + 1][x]
            bad == {k \in 0..(n + 1) : ~Settled(k)}
<1>4. bad = {}
  <2>. SUFFICES ASSUME bad # {} PROVE FALSE
    OBVIOUS
  <2>1. PICK k \in bad : \A j \in bad : k <= j
    <3>1. bad \subseteq Nat
      OBVIOUS
    <3>. HIDE DEF bad
    <3>. QED BY <3>1, LeastOf
  <2>2. k \in 0..(n + 1) /\ ~Settled(k)
    <3>. HIDE DEF Settled
    <3>. QED BY <2>1
  <2>3. PICK x \in D : rank[x] < k /\ h[k][x] # h[k + 1][x]
    BY <2>2
  <2>4. k \in 1..N /\ k + 1 \in 1..N /\ k - 1 \in 0..(n + 1) /\ k - 1 < k /\ k - 1 + 1 = k
        /\ (k + 1) - 1 = k /\ k \in 0..N /\ k - 1 \in 0..N
    BY <1>0, <2>2, <2>3
  <2>5. Settled(k - 1)
    <3>. HIDE DEF Settled
    <3>. QED BY <2>1, <2>2, <2>4
  <2>6. \A y \in D : rank[y] < k - 1 => h[k - 1][y] = h[k][y]
    BY <2>4, <2>5
  <2>7. h[k] = F[h[k - 1]] /\ h[k + 1] = F[h[k]] /\ h[k] \in S /\ h[k - 1] \in S
    <3>. HIDE DEF S, N
    <3>1. h[k + 1] = F[h[(k + 1) - 1]]
      BY <1>3, <2>4
    <3>. QED BY <1>3, <2>4, <3>1
  <2>8. \A y \in D : rank[y] < rank[x] => h[k - 1][y] = h[k][y]
    <3>1. \A y \in D : rank[y] < rank[x] => rank[y] < k - 1
      BY <1>0, <2>2, <2>3
    <3>. QED BY <2>6, <3>1
  <2>9. F[h[k - 1]][x] = F[h[k]][x]
    BY <2>7, <2>8 DEF Descends
  <2>. QED BY <2>3, <2>7, <2>9
<1>5. Settled(n + 1)
  <2>. HIDE DEF Settled
  <2>1. n + 1 \in 0..(n + 1)
    BY <1>0
  <2>. QED BY <1>4, <2>1
<1>6. \A x \in D : h[n + 1][x] = h[n + 1 + 1][x]
  <2>1. \A x \in D : rank[x] < n + 1
    BY <1>0
  <2>. QED BY <1>5, <2>1
<1>7. /\ h[n + 1] \in S /\ h[n + 2] \in S /\ h[n + 2] = F[h[n + 1]]
  <2>1. n + 1 \in 0..N /\ n + 2 \in 0..N /\ n + 2 \in 1..N /\ (n + 2) - 1 = n + 1
    BY <1>0
  <2>. HIDE DEF S, N
  <2>2. h[n + 2] = F[h[(n + 2) - 1]]
    BY <1>3, <2>1
  <2>. QED BY <1>3, <2>1, <2>2
<1>8. h[n + 1] = h[n + 2]
  <2>1. n + 1 + 1 = n + 2
    BY <1>0
  <2>2. \A x \in D : h[n + 1][x] = h[n + 2][x]
    BY <1>6, <2>1
  <2>. QED BY <1>7, <2>2
<1>. QED BY <1>7, <1>8

\* The sums over the subsets of S, as a fold takes them: the member c[s] of s last.
FoldsOver(g, S, w, c) ==
    \A s \in SUBSET S : g[s] = IF s = {} THEN 0 ELSE g[s \ {c[s]}] + w[c[s]]

\* Which member is taken of a set.
Chooses(c, S) == \A s \in SUBSET S : s # {} => c[s] \in s

\* Whichever members it takes last, a fold over a finite set has a value.
LEMMA FoldsExist ==
    ASSUME NEW S, IsFiniteSet(S), NEW w \in [S -> Int], NEW c, Chooses(c, S)
    PROVE  \E g \in [SUBSET S -> Int] : FoldsOver(g, S, w, c)
<1>. DEFINE D == SUBSET S
            Fold(g) == [s \in D |-> IF s = {} THEN 0 ELSE g[s \ {c[s]}] + w[c[s]]]
            rank == [s \in D |-> Cardinality(s)]
            F == [g \in [D -> Int] |-> Fold(g)]
            n == Cardinality(S)
<1>1. /\ \A s \in D : IsFiniteSet(s) /\ Cardinality(s) \in Nat /\ Cardinality(s) <= n
      /\ n \in Nat
  <2>1. \A s \in D : IsFiniteSet(s) /\ Cardinality(s) <= n
    BY FS_Subset
  <2>. QED BY <2>1, FS_CardinalityType
<1>2. \A s \in D : s # {} => c[s] \in s /\ c[s] \in S /\ s \ {c[s]} \in D
  BY DEF Chooses
<1>3. F \in [[D -> Int] -> [D -> Int]]
  <2>1. ASSUME NEW g \in [D -> Int] PROVE Fold(g) \in [D -> Int]
    <3>1. \A s \in D : (IF s = {} THEN 0 ELSE g[s \ {c[s]}] + w[c[s]]) \in Int
      <4>1. \A s \in D : s # {} => w[c[s]] \in Int /\ g[s \ {c[s]}] \in Int
        BY <1>2
      <4>. HIDE DEF D
      <4>. QED BY <4>1
    <3>. QED BY <3>1
  <2>. HIDE DEF D, Fold
  <2>. QED BY <2>1
<1>4. ASSUME NEW g \in [D -> Int], NEW h \in [D -> Int], NEW s \in D,
             \A t \in D : rank[t] < rank[s] => g[t] = h[t]
      PROVE  F[g][s] = F[h][s]
  <2>1. s # {} => g[s \ {c[s]}] = h[s \ {c[s]}]
    <3>. HAVE s # {}
    <3>1. Cardinality(s \ {c[s]}) < Cardinality(s)
      <4>1. Cardinality(s \ {c[s]}) = Cardinality(s) - 1
        BY <1>1, <1>2, FS_RemoveElement
      <4>. QED BY <1>1, <4>1
    <3>2. rank[s \ {c[s]}] < rank[s]
      BY <1>2, <3>1
    <3>. HIDE DEF rank, D
    <3>. QED BY <1>2, <1>4, <3>2
  <2>2. F[g] = Fold(g) /\ F[h] = Fold(h)
    OBVIOUS
  <2>. HIDE DEF F
  <2>. QED BY <2>1, <2>2
<1>5. PICK g \in [D -> Int] : g = F[g]
  <2>1. rank \in [D -> Nat] /\ (\A s \in D : rank[s] <= n) /\ Int # {}
    BY <1>1
  <2>2. Descends(F, D, Int, rank, n)
    <3>. HIDE DEF D, rank, F, n
    <3>. QED BY <1>1, <1>3, <1>4, <2>1 DEF Descends
  <2>. HIDE DEF D, rank, F, n
  <2>. QED BY <2>2, FixedPoint
<1>6. \A s \in D : g[s] = IF s = {} THEN 0 ELSE g[s \ {c[s]}] + w[c[s]]
  <2>1. g = Fold(g)
    BY <1>5
  <2>. QED BY <2>1
<1>. QED BY <1>5, <1>6 DEF FoldsOver

\* The same with any member first, the way the sum over a set is defined.
AnyOf(s) == CHOOSE x \in s : TRUE
SumsOver(S, w, g) ==
    [s \in SUBSET S |-> IF s = {} THEN 0 ELSE w[AnyOf(s)] + g[s \ {AnyOf(s)}]]
SubsetSums(g, S, w) == IsFiniteSet(S) /\ w \in [S -> Nat] /\ g = SumsOver(S, w, g)

\* The sums are there.
LEMMA SumsExist ==
    ASSUME NEW S, IsFiniteSet(S), NEW w \in [S -> Nat]
    PROVE  \E g : SubsetSums(g, S, w)
<1>. DEFINE c == [s \in SUBSET S |-> AnyOf(s)]
<1>1. \A s \in SUBSET S : c[s] = AnyOf(s) /\ (s # {} => AnyOf(s) \in s)
  BY DEF AnyOf
<1>2. w \in [S -> Int]
  OBVIOUS
<1>. HIDE DEF c
<1>3. PICK g \in [SUBSET S -> Int] : FoldsOver(g, S, w, c)
  <2>1. Chooses(c, S)
    BY <1>1 DEF Chooses
  <2>. QED BY <1>2, <2>1, FoldsExist
<1>4. ASSUME NEW s \in SUBSET S
      PROVE  g[s] = IF s = {} THEN 0 ELSE w[AnyOf(s)] + g[s \ {AnyOf(s)}]
  <2>1. CASE s = {}
    BY <1>3, <2>1 DEF FoldsOver
  <2>2. CASE s # {}
    <3>1. g[s] = g[s \ {AnyOf(s)}] + w[AnyOf(s)]
      BY <1>1, <1>3, <2>2 DEF FoldsOver
    <3>2. g[s \ {AnyOf(s)}] \in Int /\ w[AnyOf(s)] \in Int
      BY <1>1, <1>2, <1>3, <2>2 DEF FoldsOver
    <3>. QED BY <2>2, <3>1, <3>2
  <2>. QED BY <2>1, <2>2
<1>5. g = [s \in SUBSET S |-> g[s]]
  BY <1>3 DEF FoldsOver
<1>6. g = SumsOver(S, w, g)
  BY <1>4, <1>5 DEF SumsOver
<1>. QED BY <1>6 DEF SubsetSums

\* The sum of a set is what any member weighs and the sum of the rest.
AnyOrder(g, S, w) ==
    /\ g \in [SUBSET S -> Nat] /\ g[{}] = 0
    /\ \A s \in SUBSET S : \A x \in s : g[s] = w[x] + g[s \ {x}]

\* Whatever member is taken first, the sum is the same.
LEMMA SumsInAnyOrder ==
    ASSUME NEW S, NEW w, NEW g, SubsetSums(g, S, w)
    PROVE  AnyOrder(g, S, w)
<1>0. IsFiniteSet(S) /\ w \in [S -> Nat] /\ \A s \in SUBSET S : IsFiniteSet(s)
  BY FS_Subset DEF SubsetSums
<1>1. g[{}] = 0
  BY DEF SubsetSums, SumsOver
<1>2. \A s \in SUBSET S : s # {} => /\ AnyOf(s) \in s /\ s \ {AnyOf(s)} \in SUBSET S
                                    /\ g[s] = w[AnyOf(s)] + g[s \ {AnyOf(s)}]
  <2>1. \A s \in SUBSET S : s # {} => AnyOf(s) \in s /\ s \ {AnyOf(s)} \in SUBSET S
    BY DEF AnyOf
  <2>2. \A s \in SUBSET S : s # {} => g[s] = w[AnyOf(s)] + g[s \ {AnyOf(s)}]
    BY DEF SubsetSums, SumsOver
  <2>. QED BY <2>1, <2>2
<1>3. \A s \in SUBSET S : g[s] \in Nat
  <2>. DEFINE bad == {s \in SUBSET S : g[s] \notin Nat}
  <2>. SUFFICES ASSUME bad # {} PROVE FALSE
    OBVIOUS
  <2>1. PICK s \in bad : \A t \in bad : Cardinality(s) <= Cardinality(t)
    <3>1. \A t \in bad : IsFiniteSet(t)
      BY <1>0
    <3>. HIDE DEF bad
    <3>. QED BY <3>1, SmallestOf
  <2>2. s \in SUBSET S /\ g[s] \notin Nat /\ s # {}
    <3>1. s \in SUBSET S /\ g[s] \notin Nat
      BY <2>1
    <3>. QED BY <1>1, <3>1
  <2>3. s \ {AnyOf(s)} \notin bad
    <3>1. Cardinality(s \ {AnyOf(s)}) = Cardinality(s) - 1 /\ Cardinality(s) \in Nat
      BY <1>0, <1>2, <2>2, FS_RemoveElement, FS_CardinalityType
    <3>. HIDE DEF bad
    <3>. QED BY <2>1, <3>1
  <2>4. g[s \ {AnyOf(s)}] \in Nat /\ w[AnyOf(s)] \in Nat
    BY <1>0, <1>2, <2>2, <2>3
  <2>5. g[s] = w[AnyOf(s)] + g[s \ {AnyOf(s)}]
    BY <1>2, <2>2
  <2>6. \A a, c \in Nat : a + c \in Nat
    OBVIOUS
  <2>. HIDE DEF bad
  <2>7. w[AnyOf(s)] + g[s \ {AnyOf(s)}] \in Nat
    BY <2>4, <2>6
  <2>. QED BY <2>2, <2>5, <2>7
<1>4. \A s \in SUBSET S : \A x \in s : g[s] = w[x] + g[s \ {x}]
  <2>. DEFINE bad == {s \in SUBSET S : \E x \in s : g[s] # w[x] + g[s \ {x}]}
  <2>. SUFFICES ASSUME bad # {} PROVE FALSE
    OBVIOUS
  <2>1. PICK s \in bad : \A t \in bad : Cardinality(s) <= Cardinality(t)
    <3>1. \A t \in bad : IsFiniteSet(t)
      BY <1>0
    <3>. HIDE DEF bad
    <3>. QED BY <3>1, SmallestOf
  <2>2. PICK x \in s : g[s] # w[x] + g[s \ {x}]
    BY <2>1
  <2>. DEFINE c == AnyOf(s)
  <2>3. /\ s \in SUBSET S /\ s # {} /\ c \in s /\ g[s] = w[c] + g[s \ {c}] /\ c # x
        /\ s \ {c} \in SUBSET S /\ s \ {x} \in SUBSET S /\ x \in s \ {c} /\ c \in s \ {x}
    BY <1>2, <2>1, <2>2
  <2>4. s \ {c} \notin bad /\ s \ {x} \notin bad
    <3>1. /\ Cardinality(s \ {c}) = Cardinality(s) - 1 /\ Cardinality(s) \in Nat
          /\ Cardinality(s \ {x}) = Cardinality(s) - 1
      BY <1>0, <2>3, FS_RemoveElement, FS_CardinalityType
    <3>. HIDE DEF bad, c
    <3>. QED BY <2>1, <3>1
  <2>5. g[s \ {c}] = w[x] + g[(s \ {c}) \ {x}] /\ g[s \ {x}] = w[c] + g[(s \ {x}) \ {c}]
    <3>. HIDE DEF c
    <3>. QED BY <2>3, <2>4
  <2>6. (s \ {c}) \ {x} = (s \ {x}) \ {c} /\ (s \ {c}) \ {x} \in SUBSET S
    BY <2>3
  <2>7. w[x] \in Nat /\ w[c] \in Nat /\ g[(s \ {c}) \ {x}] \in Nat
    <3>. HIDE DEF c
    <3>. QED BY <1>0, <1>3, <2>3, <2>6
  <2>8. \A a, b, r \in Nat : a + (b + r) = b + (a + r)
    OBVIOUS
  <2>9. w[c] + (w[x] + g[(s \ {c}) \ {x}]) = w[x] + (w[c] + g[(s \ {c}) \ {x}])
    <3>. HIDE DEF c
    <3>. QED BY <2>7, <2>8
  <2>. HIDE DEF c
  <2>. QED BY <2>2, <2>3, <2>5, <2>6, <2>9
<1>5. g \in [SUBSET S -> Nat]
  <2>1. g = [s \in SUBSET S |-> g[s]]
    BY DEF SubsetSums, SumsOver
  <2>. QED BY <1>3, <2>1
<1>. QED BY <1>1, <1>4, <1>5 DEF AnyOrder

\* b takes S to R one to one, and leaves the weights.
OneToOne(b, S, w, R, v) ==
    /\ b \in [S -> R] /\ \A x, y \in S : b[x] = b[y] => x = y
    /\ \A y \in R : \E x \in S : y = b[x]
    /\ \A x \in S : w[x] = v[b[x]]

\* Sets that correspond one to one, with the same weights, have the same sum.
LEMMA SumsCorrespond ==
    ASSUME NEW S, NEW w, NEW g, SubsetSums(g, S, w), NEW R, NEW v, NEW h, SubsetSums(h, R, v),
           NEW b, OneToOne(b, S, w, R, v)
    PROVE  g[S] = h[R]
<1>a. /\ b \in [S -> R] /\ \A x, y \in S : b[x] = b[y] => x = y
      /\ \A y \in R : \E x \in S : y = b[x]
      /\ \A x \in S : w[x] = v[b[x]]
  BY DEF OneToOne
<1>. DEFINE Of(s) == {b[x] : x \in s}
            bad == {s \in SUBSET S : g[s] # h[Of(s)]}
<1>0. AnyOrder(g, S, w) /\ AnyOrder(h, R, v)
  BY SumsInAnyOrder
<1>1. /\ g[{}] = 0 /\ \A s \in SUBSET S : \A x \in s : g[s] = w[x] + g[s \ {x}]
      /\ h[{}] = 0 /\ \A r \in SUBSET R : \A y \in r : h[r] = v[y] + h[r \ {y}]
  BY <1>0 DEF AnyOrder
<1>2. bad = {}
  <2>. SUFFICES ASSUME bad # {} PROVE FALSE
    OBVIOUS
  <2>1. PICK s \in bad : \A t \in bad : Cardinality(s) <= Cardinality(t)
    <3>1. IsFiniteSet(S)
      BY DEF SubsetSums
    <3>2. \A t \in bad : IsFiniteSet(t)
      BY <3>1, FS_Subset
    <3>. HIDE DEF bad
    <3>. QED BY <3>2, SmallestOf
  <2>2. s \in SUBSET S /\ g[s] # h[Of(s)]
    BY <2>1
  <2>3. s # {}
    <3>1. Of({}) = {}
      OBVIOUS
    <3>. HIDE DEF Of
    <3>. QED BY <1>1, <2>2, <3>1
  <2>4. PICK x \in s : TRUE
    BY <2>3
  <2>5. x \in S /\ s \ {x} \in SUBSET S /\ IsFiniteSet(s)
    BY <2>2, <2>4, FS_Subset DEF SubsetSums
  <2>6. s \ {x} \notin bad
    <3>1. Cardinality(s \ {x}) = Cardinality(s) - 1 /\ Cardinality(s) \in Nat
      BY <2>4, <2>5, FS_RemoveElement, FS_CardinalityType
    <3>. HIDE DEF bad
    <3>. QED BY <2>1, <3>1
  <2>7. Of(s) \in SUBSET R /\ b[x] \in Of(s) /\ Of(s) \ {b[x]} = Of(s \ {x})
    <3>1. Of(s) \in SUBSET R /\ b[x] \in Of(s)
      BY <1>a, <2>2, <2>4
    <3>2. \A y \in s : b[y] = b[x] => y = x
      BY <1>a, <2>2, <2>4
    <3>. QED BY <3>1, <3>2
  <2>8. g[s \ {x}] = h[Of(s \ {x})]
    BY <2>5, <2>6
  <2>. HIDE DEF Of, bad
  <2>9. g[s] = w[x] + g[s \ {x}] /\ h[Of(s)] = v[b[x]] + h[Of(s) \ {b[x]}]
    BY <1>1, <2>2, <2>4, <2>7
  <2>. QED BY <1>a, <2>2, <2>5, <2>7, <2>8, <2>9
<1>3. Of(S) = R
  BY <1>a
<1>4. g[S] = h[Of(S)]
  <2>1. S \in SUBSET S
    OBVIOUS
  <2>. HIDE DEF Of
  <2>. QED BY <1>2, <2>1
<1>. QED BY <1>3, <1>4

\* Numbers below n that differ from each other, one for each member of a set of n, are
\* all the numbers below n.
LEMMA RanksAreAll ==
    ASSUME NEW S, IsFiniteSet(S), NEW r \in [S -> 0..(Cardinality(S) - 1)],
           \A x, y \in S : r[x] = r[y] => x = y
    PROVE  \A i \in 0..(Cardinality(S) - 1) : \E x \in S : r[x] = i
<1>. DEFINE T == 0..(Cardinality(S) - 1)
<1>1. Cardinality(S) \in Nat
  BY FS_CardinalityType
<1>2. IsFiniteSet(T) /\ Cardinality(T) = Cardinality(S)
  <2>1. 0 \in Int /\ Cardinality(S) - 1 \in Int
    BY <1>1
  <2>2. IsFiniteSet(T) /\ Cardinality(T) = IF 0 > Cardinality(S) - 1 THEN 0 ELSE Cardinality(S) - 1 - 0 + 1
    BY <2>1, FS_Interval
  <2>. HIDE DEF T
  <2>. QED BY <1>1, <2>2
<1>3. r \in Injection(S, T)
  BY DEF Injection, IsInjective
<1>. HIDE DEF T
<1>4. r \in Surjection(S, T)
  BY <1>2, <1>3, FS_Injection
<1>. QED BY <1>4 DEF Surjection, T

-----------------------------------------------------------------------------
(* Sums along a sequence.                                                  *)

\* The sums of the first weights of n.
RunningSum(f, n, w) ==
    /\ n \in Nat /\ w \in [1..n -> Int] /\ f \in [0..n -> Int]
    /\ f[0] = 0 /\ \A k \in 1..n : f[k] = f[k - 1] + w[k]

\* They are there.
LEMMA RunningSumExists ==
    ASSUME NEW n \in Nat, NEW w \in [1..n -> Int]
    PROVE  \E f : RunningSum(f, n, w)
<1>. DEFINE F == [k \in Nat |-> [x \in Int |-> IF k \in 1..n THEN x + w[k] ELSE x]]
<1>1. F \in [Nat -> [Int -> Int]]
  <2>1. \A k \in Nat, x \in Int : (IF k \in 1..n THEN x + w[k] ELSE x) \in Int
    OBVIOUS
  <2>. QED BY <2>1
<1>2. \A k \in 1..n : \A x \in Int : F[k][x] = x + w[k]
  OBVIOUS
<1>. HIDE DEF F
<1>3. \E f : Follows(f, n, Int, 0, F)
  <2>1. 0 \in Int
    OBVIOUS
  <2>. QED BY <1>1, <2>1, StepByStep
<1>4. PICK f : Follows(f, n, Int, 0, F)
  BY <1>3
<1>5. f \in [0..n -> Int] /\ f[0] = 0
  BY <1>4 DEF Follows
<1>6. ASSUME NEW k \in 1..n PROVE f[k] = f[k - 1] + w[k]
  <2>1. k - 1 \in 0..n
    OBVIOUS
  <2>2. f[k] = F[k][f[k - 1]] /\ f[k - 1] \in Int
    BY <1>4, <1>5, <2>1 DEF Follows
  <2>. QED BY <1>2, <2>2
<1>. QED BY <1>5, <1>6 DEF RunningSum

\* There is one of them.
LEMMA RunningSumsAgree ==
    ASSUME NEW f, NEW g, NEW n, NEW w, RunningSum(f, n, w), RunningSum(g, n, w)
    PROVE  f = g
<1>. DEFINE T == {k \in 0..n : f[k] # g[k]}
<1>1. n \in Nat /\ T \subseteq Nat
  BY DEF RunningSum
<1>2. CASE T # {}
  <2>1. PICK k \in T : \A j \in T : k <= j
    <3>. HIDE DEF T
    <3>. QED BY <1>1, <1>2, LeastOf
  <2>2. k # 0
    BY <2>1 DEF RunningSum
  <2>3. k \in 1..n /\ k - 1 \in 0..n /\ ~(k <= k - 1)
    BY <1>1, <2>1, <2>2
  <2>4. f[k - 1] = g[k - 1]
    BY <2>1, <2>3
  <2>. QED BY <2>1, <2>3, <2>4 DEF RunningSum
<1>3. CASE T = {}
  <2>1. \A k \in 0..n : f[k] = g[k]
    BY <1>3
  <2>2. f = [k \in 0..n |-> f[k]] /\ g = [k \in 0..n |-> g[k]]
    BY DEF RunningSum
  <2>3. [k \in 0..n |-> f[k]] = [k \in 0..n |-> g[k]]
    BY <2>1
  <2>. QED BY <2>2, <2>3
<1>. QED BY <1>2, <1>3

\* Sums of weights that are not negative are not negative.
LEMMA RunningSumRises ==
    ASSUME NEW f, NEW n, NEW w, RunningSum(f, n, w), \A k \in 1..n : w[k] >= 0
    PROVE  \A k \in 0..n : f[k] >= 0
<1>. DEFINE T == {k \in 0..n : f[k] < 0}
<1>1. n \in Nat /\ T \subseteq Nat
  BY DEF RunningSum
<1>2. CASE T # {}
  <2>1. PICK k \in T : \A j \in T : k <= j
    <3>. HIDE DEF T
    <3>. QED BY <1>1, <1>2, LeastOf
  <2>2. k # 0
    BY <2>1 DEF RunningSum
  <2>3. k \in 1..n /\ k - 1 \in 0..n /\ ~(k <= k - 1)
    BY <1>1, <2>1, <2>2
  <2>4. f[k - 1] >= 0
    <3>1. ~(f[k - 1] < 0)
      BY <2>1, <2>3
    <3>. QED BY <2>3, <3>1 DEF RunningSum
  <2>. QED BY <2>1, <2>3, <2>4 DEF RunningSum
<1>3. CASE T = {}
  <2>1. \A k \in 0..n : ~(f[k] < 0)
    BY <1>3
  <2>2. \A k \in 0..n : f[k] \in Int
    BY DEF RunningSum
  <2>. QED BY <2>1, <2>2
<1>. QED BY <1>2, <1>3

\* A fold over the places of a sequence, the last first, ends at its running sum.
LEMMA FoldIsRunningSum ==
    ASSUME NEW f, NEW n, NEW w, RunningSum(f, n, w),
           NEW g, NEW c, FoldsOver(g, 1..n, w, c), \A k \in 1..n : c[1..k] = k
    PROVE  g[1..n] = f[n]
<1>. DEFINE T == {k \in 0..n : g[1..k] # f[k]}
<1>1. n \in Nat /\ T \subseteq Nat
  BY DEF RunningSum
<1>2. CASE T # {}
  <2>1. PICK k \in T : \A j \in T : k <= j
    <3>. HIDE DEF T
    <3>. QED BY <1>1, <1>2, LeastOf
  <2>2. k # 0
    <3>1. 1..0 = {} /\ {} \in SUBSET (1..n)
      OBVIOUS
    <3>2. g[{}] = 0
      BY <3>1 DEF FoldsOver
    <3>. QED BY <2>1, <3>1, <3>2 DEF RunningSum
  <2>3. k \in 1..n /\ k - 1 \in 0..n /\ ~(k <= k - 1)
    BY <1>1, <2>1, <2>2
  <2>4. g[1..(k - 1)] = f[k - 1]
    BY <2>1, <2>3
  <2>5. 1..k \in SUBSET (1..n) /\ 1..k # {} /\ (1..k) \ {k} = 1..(k - 1)
    BY <1>1, <2>3
  <2>6. g[1..k] = g[1..(k - 1)] + w[k]
    BY <2>3, <2>5 DEF FoldsOver
  <2>7. f[k] = f[k - 1] + w[k]
    BY <2>3 DEF RunningSum
  <2>. QED BY <2>1, <2>4, <2>6, <2>7
<1>3. CASE T = {}
  <2>1. n \in 0..n
    BY <1>1
  <2>. QED BY <1>3, <2>1
<1>. QED BY <1>2, <1>3

-----------------------------------------------------------------------------
(* What a selection keeps of a sequence.                                   *)

\* Induction over sequences, by the last item: a set that has the empty one, and with a
\* sequence whatever it can be continued by, has them all.
LEMMA FromTheEnd ==
    ASSUME NEW S, NEW T, << >> \in T,
           \A s \in Seq(S), x \in S : s \in T => Append(s, x) \in T
    PROVE  \A s \in Seq(S) : s \in T
<1>. DEFINE bad == {Len(s) : s \in Seq(S) \ T}
<1>1. bad \subseteq Nat
  BY LenProperties
<1>2. CASE bad # {}
  <2>1. PICK n \in bad : \A k \in bad : n <= k
    <3>. HIDE DEF bad
    <3>. QED BY <1>1, <1>2, LeastOf
  <2>2. PICK s \in Seq(S) \ T : Len(s) = n
    BY <2>1
  <2>3. s # << >>
    BY <2>2
  <2>. DEFINE t == SubSeq(s, 1, Len(s) - 1)
  <2>4. /\ s = Append(t, s[Len(s)]) /\ t \in Seq(S) /\ Len(t) = Len(s) - 1 /\ s[Len(s)] \in S
        /\ Len(s) \in Nat
    <3>1. Len(s) \in Nat \ {0} /\ DOMAIN s = 1..Len(s) /\ \A i \in 1..Len(s) : s[i] \in S
      BY <2>2, <2>3
    <3>2. t \in Seq(S) /\ Len(t) = Len(s) - 1 /\ \A i \in 1..(Len(s) - 1) : t[i] = s[i]
      BY <2>2, <3>1
    <3>3. s[Len(s)] \in S
      BY <3>1
    <3>. HIDE DEF t
    <3>4. s = Append(t, s[Len(s)])
      BY <2>2, <3>1, <3>2
    <3>. QED BY <3>1, <3>2, <3>3, <3>4
  <2>5. t \notin T
    BY <2>2, <2>4
  <2>6. Len(t) \in bad
    BY <2>4, <2>5
  <2>. HIDE DEF bad, t
  <2>. QED BY <2>1, <2>2, <2>4, <2>6
<1>3. CASE bad = {}
  BY <1>3
<1>. QED BY <1>2, <1>3

\* What is kept of a sequence as its items are gone through.
Picks(h, s, places, S) ==
    /\ h \in [0..Len(s) -> Seq(S)] /\ h[0] = << >>
    /\ \A n \in 1..Len(s) : h[n] = IF n \in places THEN Append(h[n - 1], s[n]) ELSE h[n - 1]

\* The function by which KeptAt is defined is there.
LEMMA KeptIsPicked ==
    ASSUME NEW S, NEW s \in Seq(S), NEW places
    PROVE  \E h : Picks(h, s, places, S) /\ KeptAt(s, places) = h[Len(s)]
<1>. DEFINE F == [n \in Nat |-> [r \in Seq(S) |->
                     IF n \in 1..Len(s) /\ n \in places THEN Append(r, s[n]) ELSE r]]
            Same(h) == h = [n \in 0..Len(s) |-> IF n = 0 THEN << >>
                             ELSE IF n \in places THEN Append(h[n - 1], s[n])
                             ELSE h[n - 1]]
<1>1. Len(s) \in Nat /\ \A n \in 1..Len(s) : s[n] \in S
  OBVIOUS
<1>2. F \in [Nat -> [Seq(S) -> Seq(S)]]
  <2>1. \A n \in Nat, r \in Seq(S) :
           (IF n \in 1..Len(s) /\ n \in places THEN Append(r, s[n]) ELSE r) \in Seq(S)
    BY <1>1
  <2>. QED BY <2>1
<1>3. \A n \in 1..Len(s), r \in Seq(S) : F[n][r] = IF n \in places THEN Append(r, s[n]) ELSE r
  BY <1>1
<1>. HIDE DEF F
<1>4. \E h : Follows(h, Len(s), Seq(S), << >>, F)
  <2>1. << >> \in Seq(S)
    OBVIOUS
  <2>. QED BY <1>1, <1>2, <2>1, StepByStep
<1>5. PICK h : Follows(h, Len(s), Seq(S), << >>, F)
  BY <1>4
<1>6. h \in [0..Len(s) -> Seq(S)] /\ h[0] = << >>
  BY <1>5 DEF Follows
<1>7. \A n \in 1..Len(s) : h[n] = IF n \in places THEN Append(h[n - 1], s[n]) ELSE h[n - 1]
  <2>. TAKE n \in 1..Len(s)
  <2>1. n - 1 \in 0..Len(s)
    BY <1>1
  <2>. QED BY <1>3, <1>5, <1>6, <2>1 DEF Follows
<1>8. Same(h)
  <2>1. \A n \in 0..Len(s) : n # 0 => n \in 1..Len(s)
    BY <1>1
  <2>2. \A n \in 0..Len(s) : h[n] = IF n = 0 THEN << >>
                             ELSE IF n \in places THEN Append(h[n - 1], s[n]) ELSE h[n - 1]
    BY <1>6, <1>7, <2>1
  <2>. QED BY <1>6, <2>2
<1>. DEFINE g == CHOOSE k : Same(k)
<1>9. Same(g)
  BY <1>8
<1>10. KeptAt(s, places) = g[Len(s)]
  BY DEF KeptAt
<1>. HIDE DEF g
<1>11. g = h
  <2>. DEFINE T == {n \in 0..Len(s) : g[n] # h[n]}
  <2>1. CASE T # {}
    <3>1. T \subseteq Nat
      OBVIOUS
    <3>2. PICK n \in T : \A j \in T : n <= j
      <4>. HIDE DEF T
      <4>. QED BY <2>1, <3>1, LeastOf
    <3>3. n # 0
      BY <1>6, <1>9, <3>2
    <3>4. n \in 1..Len(s) /\ n - 1 \in 0..Len(s) /\ ~(n <= n - 1)
      BY <1>1, <3>2, <3>3
    <3>5. g[n - 1] = h[n - 1]
      BY <3>2, <3>4
    <3>6. g[n] = IF n \in places THEN Append(g[n - 1], s[n]) ELSE g[n - 1]
      <4>1. n \in 0..Len(s)
        BY <3>2
      <4>. HIDE DEF T, g
      <4>. QED BY <1>9, <3>3, <4>1
    <3>7. h[n] = IF n \in places THEN Append(h[n - 1], s[n]) ELSE h[n - 1]
      BY <1>7, <3>4
    <3>. QED BY <3>2, <3>5, <3>6, <3>7
  <2>2. CASE T = {}
    <3>1. \A n \in 0..Len(s) : g[n] = h[n]
      BY <2>2
    <3>2. g = [n \in 0..Len(s) |-> g[n]] /\ h = [n \in 0..Len(s) |-> h[n]]
      BY <1>6, <1>9
    <3>3. [n \in 0..Len(s) |-> g[n]] = [n \in 0..Len(s) |-> h[n]]
      BY <3>1
    <3>. QED BY <3>2, <3>3
  <2>. QED BY <2>1, <2>2
<1>12. Picks(h, s, places, S)
  BY <1>6, <1>7 DEF Picks
<1>. QED BY <1>10, <1>11, <1>12

\* Of equal beginnings the same is kept.
LEMMA PicksAgree ==
    ASSUME NEW S, NEW s, NEW t, NEW K, NEW L, NEW g, NEW h, Picks(g, s, K, S), Picks(h, t, L, S),
           NEW m \in Nat, m <= Len(s), m <= Len(t), Len(s) \in Nat, Len(t) \in Nat,
           \A n \in 1..m : s[n] = t[n] /\ (n \in K <=> n \in L)
    PROVE  g[m] = h[m]
<1>. DEFINE T == {n \in 0..m : g[n] # h[n]}
<1>1. CASE T # {}
  <2>1. T \subseteq Nat
    OBVIOUS
  <2>2. PICK n \in T : \A j \in T : n <= j
    <3>. HIDE DEF T
    <3>. QED BY <1>1, <2>1, LeastOf
  <2>3. n # 0
    BY <2>2 DEF Picks
  <2>4. n \in 1..m /\ n \in 1..Len(s) /\ n \in 1..Len(t) /\ n - 1 \in 0..m /\ ~(n <= n - 1)
    BY <2>2, <2>3
  <2>5. g[n - 1] = h[n - 1]
    BY <2>2, <2>4
  <2>6. g[n] = IF n \in K THEN Append(g[n - 1], s[n]) ELSE g[n - 1]
    BY <2>4 DEF Picks
  <2>7. h[n] = IF n \in L THEN Append(h[n - 1], t[n]) ELSE h[n - 1]
    BY <2>4 DEF Picks
  <2>8. s[n] = t[n] /\ (n \in K <=> n \in L)
    BY <2>4
  <2>. QED BY <2>2, <2>5, <2>6, <2>7, <2>8
<1>2. CASE T = {}
  <2>1. m \in 0..m
    OBVIOUS
  <2>. QED BY <1>2, <2>1
<1>. QED BY <1>1, <1>2

\* The items of a sequence that are in a set.
Those(s, P) == KeptAt(s, {i \in DOMAIN s : s[i] \in P})

\* Nothing is kept of nothing.
LEMMA ThoseOfNone ==
    ASSUME NEW P
    PROVE  Those(<< >>, P) = << >>
<1>. DEFINE K == {i \in DOMAIN << >> : << >>[i] \in P}
<1>1. << >> \in Seq({}) /\ Len(<< >>) = 0
  OBVIOUS
<1>2. PICK h : Picks(h, << >>, K, {}) /\ KeptAt(<< >>, K) = h[0]
  <2>. HIDE DEF K
  <2>. QED BY <1>1, KeptIsPicked
<1>. QED BY <1>2 DEF Picks, Those

\* What is kept is a sequence of the same kind.
LEMMA ThoseType ==
    ASSUME NEW S, NEW P, NEW s \in Seq(S)
    PROVE  Those(s, P) \in Seq(S)
<1>. DEFINE K == {i \in DOMAIN s : s[i] \in P}
<1>1. PICK h : Picks(h, s, K, S) /\ KeptAt(s, K) = h[Len(s)]
  <2>. HIDE DEF K
  <2>. QED BY KeptIsPicked
<1>2. Len(s) \in 0..Len(s)
  OBVIOUS
<1>. QED BY <1>1, <1>2 DEF Picks, Those

\* They are kept or not one by one.
LEMMA ThoseOfAppend ==
    ASSUME NEW S, NEW P, NEW s \in Seq(S), NEW x \in S
    PROVE  Those(Append(s, x), P) = IF x \in P THEN Append(Those(s, P), x) ELSE Those(s, P)
<1>. DEFINE At(r) == {i \in DOMAIN r : r[i] \in P}
            t == Append(s, x)
            n == Len(s)
            K == At(s)
            L == At(t)
<1>1. /\ t \in Seq(S) /\ Len(t) = n + 1 /\ t[n + 1] = x /\ n \in Nat
      /\ \A i \in 1..n : t[i] = s[i]
  OBVIOUS
<1>2. DOMAIN s = 1..n /\ DOMAIN t = 1..(n + 1)
  BY <1>1
<1>3. (n + 1 \in L <=> x \in P) /\ \A i \in 1..n : i \in K <=> i \in L
  <2>1. n + 1 \in 1..(n + 1) /\ \A i \in 1..n : i \in 1..(n + 1)
    BY <1>1
  <2>. HIDE DEF t, n
  <2>. QED BY <1>1, <1>2, <2>1
<1>4. Those(s, P) = KeptAt(s, K) /\ Those(t, P) = KeptAt(t, L)
  BY DEF Those
<1>. HIDE DEF t, K, L
<1>5. PICK h : Picks(h, s, K, S) /\ KeptAt(s, K) = h[Len(s)]
  BY KeptIsPicked
<1>6. PICK g : Picks(g, t, L, S) /\ KeptAt(t, L) = g[Len(t)]
  BY <1>1, KeptIsPicked
<1>7. g[n] = h[n]
  <2>1. n <= Len(t) /\ n <= Len(s) /\ Len(t) \in Nat /\ n \in Nat
    BY <1>1
  <2>2. \A i \in 1..n : t[i] = s[i] /\ (i \in L <=> i \in K)
    BY <1>1, <1>3
  <2>. QED BY <1>1, <1>5, <1>6, <2>1, <2>2, PicksAgree
<1>8. g[n + 1] = IF n + 1 \in L THEN Append(g[n], t[n + 1]) ELSE g[n]
  <2>1. n + 1 \in 1..Len(t) /\ (n + 1) - 1 = n
    BY <1>1
  <2>. HIDE DEF n
  <2>. QED BY <1>6, <2>1 DEF Picks
<1>. QED BY <1>1, <1>3, <1>4, <1>5, <1>6, <1>7, <1>8 DEF t

\* What is in a sequence.
Contents(s) == {s[i] : i \in DOMAIN s}

\* An item more.
LEMMA ItemsOfAppend ==
    ASSUME NEW S, NEW s \in Seq(S), NEW x
    PROVE  Contents(Append(s, x)) = Contents(s) \cup {x}
<1>1. DOMAIN s = 1..Len(s) /\ Len(s) \in Nat
  OBVIOUS
<1>2. DOMAIN Append(s, x) = 1..(Len(s) + 1) /\ Append(s, x)[Len(s) + 1] = x
      /\ \A i \in 1..Len(s) : Append(s, x)[i] = s[i]
  BY <1>1
<1>3. 1..(Len(s) + 1) = 1..Len(s) \cup {Len(s) + 1}
  BY <1>1
<1>. QED BY <1>1, <1>2, <1>3 DEF Contents

\* What is in two sequences put together is in the one or the other.
LEMMA ItemsOfBoth ==
    ASSUME NEW S, NEW a \in Seq(S), NEW s \in Seq(S)
    PROVE  Contents(a \o s) = Contents(a) \cup Contents(s)
<1>. DEFINE m == Len(a)  n == Len(s)  t == a \o s
<1>1. /\ m \in Nat /\ n \in Nat /\ DOMAIN a = 1..m /\ DOMAIN s = 1..n /\ DOMAIN t = 1..(m + n)
      /\ (\A i \in 1..m : t[i] = a[i]) /\ \A i \in 1..n : t[m + i] = s[i]
  OBVIOUS
<1>2. /\ \A i \in 1..(m + n) : i \in 1..m \/ (i - m \in 1..n /\ i = m + (i - m))
      /\ \A i \in 1..m : i \in 1..(m + n)
      /\ \A i \in 1..n : m + i \in 1..(m + n)
  BY <1>1
<1>. HIDE DEF m, n, t
<1>3. ASSUME NEW i \in DOMAIN t PROVE t[i] \in Contents(a) \cup Contents(s)
  <2>1. CASE i \in 1..m
    BY <1>1, <2>1 DEF Contents
  <2>2. CASE i - m \in 1..n /\ i = m + (i - m)
    <3>. DEFINE k == i - m
    <3>1. t[i] = s[k] /\ k \in DOMAIN s
      <4>1. k \in 1..n /\ i = m + k
        BY <2>2
      <4>. HIDE DEF k
      <4>. QED BY <1>1, <4>1
    <3>. HIDE DEF k
    <3>. QED BY <3>1 DEF Contents
  <2>. QED BY <1>1, <1>2, <2>1, <2>2
<1>4. (\A i \in DOMAIN a : a[i] \in Contents(t)) /\ \A i \in DOMAIN s : s[i] \in Contents(t)
  BY <1>1, <1>2 DEF Contents
<1>5. Contents(t) = Contents(a) \cup Contents(s)
  BY <1>3, <1>4 DEF Contents
<1>. QED BY <1>5 DEF t

\* An item comes last, whatever it is put behind.
LEMMA AppendLast ==
    ASSUME NEW S, NEW a \in Seq(S), NEW s \in Seq(S), NEW x \in S
    PROVE  a \o s \in Seq(S) /\ a \o Append(s, x) = Append(a \o s, x)
OBVIOUS

\* What is kept are the items in the set, all of them.
LEMMA ThoseAre ==
    ASSUME NEW S, NEW P
    PROVE  \A s \in Seq(S) : Contents(Those(s, P)) = Contents(s) \cap P
<1>. DEFINE T == {s \in Seq(S) : Contents(Those(s, P)) = Contents(s) \cap P}
<1>1. << >> \in T
  <2>1. << >> \in Seq(S) /\ Those(<< >>, P) = << >> /\ Contents(<< >>) = {}
    BY ThoseOfNone DEF Contents
  <2>. QED BY <2>1
<1>2. ASSUME NEW s \in Seq(S), NEW x \in S, s \in T PROVE Append(s, x) \in T
  <2>1. /\ Those(s, P) \in Seq(S) /\ Append(s, x) \in Seq(S)
        /\ Those(Append(s, x), P) = IF x \in P THEN Append(Those(s, P), x) ELSE Those(s, P)
    BY ThoseType, ThoseOfAppend
  <2>2. Contents(Append(s, x)) = Contents(s) \cup {x}
    BY ItemsOfAppend
  <2>3. Contents(Append(Those(s, P), x)) = Contents(Those(s, P)) \cup {x}
    BY <2>1, ItemsOfAppend
  <2>4. Contents(Those(s, P)) = Contents(s) \cap P
    BY <1>2
  <2>. QED BY <2>1, <2>2, <2>3, <2>4
<1>. HIDE DEF T
<1>3. \A s \in Seq(S) : s \in T
  BY <1>1, <1>2, FromTheEnd
<1>. QED BY <1>3 DEF T

\* Of two sequences put together, what is kept of the one and then of the other.
LEMMA ThoseOfBoth ==
    ASSUME NEW S, NEW P, NEW a \in Seq(S)
    PROVE  \A s \in Seq(S) : Those(a \o s, P) = Those(a, P) \o Those(s, P)
<1>. DEFINE T == {s \in Seq(S) : Those(a \o s, P) = Those(a, P) \o Those(s, P)}
<1>0. Those(a, P) \in Seq(S)
  BY ThoseType
<1>1. << >> \in T
  <2>1. << >> \in Seq(S) /\ Those(<< >>, P) = << >> /\ a \o << >> = a
    BY ThoseOfNone
  <2>2. Those(a, P) \o << >> = Those(a, P)
    BY <1>0
  <2>. QED BY <2>1, <2>2
<1>2. ASSUME NEW s \in Seq(S), NEW x \in S, s \in T PROVE Append(s, x) \in T
  <2>. DEFINE ka == Those(a, P)
              ks == Those(s, P)
              both == a \o s
  <2>1. /\ ks \in Seq(S) /\ Append(s, x) \in Seq(S)
        /\ Those(Append(s, x), P) = IF x \in P THEN Append(ks, x) ELSE ks
    BY ThoseType, ThoseOfAppend
  <2>2. both \in Seq(S) /\ a \o Append(s, x) = Append(both, x)
    BY AppendLast
  <2>3. Those(Append(both, x), P) = IF x \in P THEN Append(Those(both, P), x) ELSE Those(both, P)
    <3>. HIDE DEF both
    <3>. QED BY <2>2, ThoseOfAppend
  <2>4. Those(both, P) = ka \o ks
    BY <1>2
  <2>5. ka \o Append(ks, x) = Append(ka \o ks, x)
    BY <1>0, <2>1, AppendLast
  <2>. HIDE DEF both, ka, ks
  <2>6. Those(a \o Append(s, x), P) = ka \o Those(Append(s, x), P)
    BY <2>1, <2>2, <2>3, <2>4, <2>5
  <2>. QED BY <2>1, <2>6 DEF ka
<1>. HIDE DEF T
<1>3. \A s \in Seq(S) : s \in T
  BY <1>1, <1>2, FromTheEnd
<1>. QED BY <1>3 DEF T

\* What is kept of what was kept is in both sets.
LEMMA ThoseOfThose ==
    ASSUME NEW S, NEW P, NEW Q
    PROVE  \A s \in Seq(S) : Those(Those(s, P), Q) = Those(s, P \cap Q)
<1>. DEFINE T == {s \in Seq(S) : Those(Those(s, P), Q) = Those(s, P \cap Q)}
<1>1. << >> \in T
  <2>1. << >> \in Seq(S) /\ \A R : Those(<< >>, R) = << >>
    BY ThoseOfNone
  <2>. QED BY <2>1
<1>2. ASSUME NEW s \in Seq(S), NEW x \in S, s \in T PROVE Append(s, x) \in T
  <2>1. /\ Those(s, P) \in Seq(S) /\ Append(s, x) \in Seq(S)
        /\ Those(Append(s, x), P) = IF x \in P THEN Append(Those(s, P), x) ELSE Those(s, P)
    BY ThoseType, ThoseOfAppend
  <2>2. Those(Append(s, x), P \cap Q)
            = IF x \in P \cap Q THEN Append(Those(s, P \cap Q), x) ELSE Those(s, P \cap Q)
    BY ThoseOfAppend
  <2>3. Those(Append(Those(s, P), x), Q)
            = IF x \in Q THEN Append(Those(Those(s, P), Q), x) ELSE Those(Those(s, P), Q)
    BY <2>1, ThoseOfAppend
  <2>4. Those(Those(s, P), Q) = Those(s, P \cap Q)
    BY <1>2
  <2>5. Those(Those(Append(s, x), P), Q) = Those(Append(s, x), P \cap Q)
    <3>. HIDE DEF T
    <3>1. CASE x \in P
      <4>1. x \in P \cap Q <=> x \in Q
        BY <3>1
      <4>2. Those(Those(Append(s, x), P), Q) = Those(Append(Those(s, P), x), Q)
        BY <2>1, <3>1
      <4>. QED BY <2>2, <2>3, <2>4, <4>1, <4>2
    <3>2. CASE x \notin P
      <4>1. x \notin P \cap Q
        BY <3>2
      <4>. QED BY <2>1, <2>2, <2>4, <3>2, <4>1
    <3>. QED BY <3>1, <3>2
  <2>. QED BY <2>1, <2>5
<1>. HIDE DEF T
<1>3. \A s \in Seq(S) : s \in T
  BY <1>1, <1>2, FromTheEnd
<1>. QED BY <1>3 DEF T

\* A sequence with every item replaced.
Mapped(s, f) == [i \in DOMAIN s |-> f[s[i]]]

\* Nothing is replaced of nothing.
LEMMA MappedNone ==
    ASSUME NEW f
    PROVE  Mapped(<< >>, f) = << >>
BY DEF Mapped

\* What is replaced is as long.
LEMMA MappedLength ==
    ASSUME NEW S, NEW f, NEW s \in Seq(S)
    PROVE  Len(Mapped(s, f)) = Len(s)
<1>. DEFINE r == Mapped(s, f)
            V == {f[s[i]] : i \in 1..Len(s)}
<1>1. DOMAIN s = 1..Len(s) /\ Len(s) \in Nat
  OBVIOUS
<1>2. r \in [1..Len(s) -> V]
  BY <1>1 DEF Mapped
<1>. HIDE DEF r, V
<1>. QED BY <1>1, <1>2, SeqOfLength DEF r

\* It is a sequence of the new kind.
LEMMA MappedType ==
    ASSUME NEW S, NEW R, NEW f \in [S -> R], NEW s \in Seq(S)
    PROVE  Mapped(s, f) \in Seq(R)
<1>1. DOMAIN s = 1..Len(s) /\ Len(s) \in Nat /\ \A i \in 1..Len(s) : f[s[i]] \in R
  OBVIOUS
<1>. DEFINE r == Mapped(s, f)
<1>2. r \in [1..Len(s) -> R]
  BY <1>1 DEF Mapped
<1>. HIDE DEF r
<1>. QED BY <1>1, <1>2, SeqOfLength DEF r

\* An item more is a replacement more.
LEMMA MappedAppend ==
    ASSUME NEW S, NEW R, NEW f \in [S -> R], NEW s \in Seq(S), NEW x \in S
    PROVE  Mapped(Append(s, x), f) = Append(Mapped(s, f), f[x])
<1>. DEFINE r == Mapped(s, f)
            t == Append(s, x)
            u == Mapped(t, f)
            n == Len(s)
<1>1. /\ t \in Seq(S) /\ Len(t) = n + 1 /\ n \in Nat /\ DOMAIN s = 1..n
      /\ DOMAIN t = 1..(n + 1) /\ t[n + 1] = x /\ \A i \in 1..n : t[i] = s[i]
  OBVIOUS
<1>2. /\ r \in Seq(R) /\ Len(r) = n /\ u \in Seq(R) /\ Len(u) = n + 1
  <2>. HIDE DEF t, n, r, u
  <2>1. Mapped(s, f) \in Seq(R) /\ Len(Mapped(s, f)) = Len(s)
    <3>1. Mapped(s, f) \in Seq(R)
      BY MappedType
    <3>2. Len(Mapped(s, f)) = Len(s)
      BY MappedLength
    <3>. QED BY <3>1, <3>2
  <2>2. Mapped(t, f) \in Seq(R) /\ Len(Mapped(t, f)) = Len(t)
    BY <1>1, MappedType, MappedLength
  <2>. QED BY <1>1, <2>1, <2>2 DEF n, r, u
<1>3. /\ \A i \in 1..n : r[i] = f[s[i]]
      /\ \A i \in 1..(n + 1) : u[i] = f[t[i]]
  BY <1>1 DEF Mapped
<1>4. f[x] \in R
  OBVIOUS
<1>. HIDE DEF r, t, u, n
<1>5. \A i \in 1..n : u[i] = r[i] /\ i \in 1..(n + 1)
  BY <1>1, <1>3
<1>6. u[n + 1] = f[x]
  BY <1>1, <1>3
<1>7. u = Append(r, f[x])
  BY <1>1, <1>2, <1>4, <1>5, <1>6
<1>. QED BY <1>7 DEF r, t, u

\* A replacement that is in one set when the item is in another.
Carries(f, S, R, P, Q) == f \in [S -> R] /\ \A x \in S : x \in P <=> f[x] \in Q

\* Of what it replaces the one keeps what the other keeps of the items.
LEMMA ThoseMapped ==
    ASSUME NEW S, NEW R, NEW f, NEW P, NEW Q, Carries(f, S, R, P, Q)
    PROVE  \A s \in Seq(S) : Those(Mapped(s, f), Q) = Mapped(Those(s, P), f)
<1>0. f \in [S -> R] /\ \A x \in S : x \in P <=> f[x] \in Q
  BY DEF Carries
<1>. DEFINE T == {s \in Seq(S) : Those(Mapped(s, f), Q) = Mapped(Those(s, P), f)}
<1>1. << >> \in T
  <2>1. << >> \in Seq(S) /\ (\A X : Those(<< >>, X) = << >>) /\ Mapped(<< >>, f) = << >>
    BY ThoseOfNone, MappedNone
  <2>. QED BY <2>1
<1>2. ASSUME NEW s \in Seq(S), NEW x \in S, s \in T PROVE Append(s, x) \in T
  <2>1. /\ Those(s, P) \in Seq(S) /\ Append(s, x) \in Seq(S)
        /\ Those(Append(s, x), P) = IF x \in P THEN Append(Those(s, P), x) ELSE Those(s, P)
    BY ThoseType, ThoseOfAppend
  <2>2. Mapped(Append(s, x), f) = Append(Mapped(s, f), f[x]) /\ Mapped(s, f) \in Seq(R)
    BY <1>0, MappedAppend, MappedType
  <2>3. Mapped(Append(Those(s, P), x), f) = Append(Mapped(Those(s, P), f), f[x])
    <3>. DEFINE k == Those(s, P)
    <3>1. k \in Seq(S)
      BY <2>1
    <3>. HIDE DEF k, T
    <3>2. Mapped(Append(k, x), f) = Append(Mapped(k, f), f[x])
      BY <1>0, <3>1, MappedAppend
    <3>. QED BY <3>2 DEF k
  <2>4. Those(Append(Mapped(s, f), f[x]), Q)
            = IF f[x] \in Q THEN Append(Those(Mapped(s, f), Q), f[x]) ELSE Those(Mapped(s, f), Q)
    BY <1>0, <2>2, ThoseOfAppend
  <2>5. Those(Mapped(s, f), Q) = Mapped(Those(s, P), f)
    BY <1>2
  <2>. QED BY <1>0, <2>1, <2>2, <2>3, <2>4, <2>5
<1>. HIDE DEF T
<1>3. \A s \in Seq(S) : s \in T
  BY <1>1, <1>2, FromTheEnd
<1>. QED BY <1>3 DEF T

\* Two items of a sequence have the same identity only if it is one of some.
Distinct(s, some) ==
    \A i, j \in DOMAIN s : s[i].id = s[j].id => i = j \/ s[i].id \in some

\* The identities in a sequence.
Named(s) == {e.id : e \in Contents(s)}

\* An item more has an identity of its own.
LEMMA DistinctOfAppend ==
    ASSUME NEW S, NEW s \in Seq(S), NEW x, NEW some
    PROVE  Distinct(Append(s, x), some)
               <=> Distinct(s, some) /\ (x.id \in Named(s) => x.id \in some)
<1>. DEFINE t == Append(s, x)
            n == Len(s)
<1>1. /\ DOMAIN s = 1..n /\ n \in Nat /\ DOMAIN t = 1..(n + 1)
      /\ t[n + 1] = x /\ \A i \in 1..n : t[i] = s[i]
  OBVIOUS
<1>2. Named(s) = {s[i].id : i \in 1..n}
  BY <1>1 DEF Named, Contents
<1>3. \A i \in 1..(n + 1) : i \in 1..n \/ i = n + 1
  BY <1>1
<1>4. n + 1 \in 1..(n + 1) /\ n + 1 \notin 1..n /\ \A i \in 1..n : i \in 1..(n + 1)
  BY <1>1
<1>. HIDE DEF t, n
<1>5. ASSUME Distinct(t, some) PROVE Distinct(s, some) /\ (x.id \in Named(s) => x.id \in some)
  <2>1. \A i, j \in 1..(n + 1) : t[i].id = t[j].id => i = j \/ t[i].id \in some
    BY <1>1, <1>5 DEF Distinct
  <2>2. Distinct(s, some)
    BY <1>1, <1>4, <2>1 DEF Distinct
  <2>3. x.id \in Named(s) => x.id \in some
    <3>. HAVE x.id \in Named(s)
    <3>1. PICK i \in 1..n : x.id = s[i].id
      BY <1>2
    <3>2. t[i].id = t[n + 1].id /\ i \in 1..(n + 1) /\ i # n + 1 /\ t[i].id = x.id
      BY <1>1, <1>4, <3>1
    <3>. QED BY <1>4, <2>1, <3>2
  <2>. QED BY <2>2, <2>3
<1>6. ASSUME Distinct(s, some), x.id \in Named(s) => x.id \in some PROVE Distinct(t, some)
  <2>1. \A i, j \in 1..n : s[i].id = s[j].id => i = j \/ s[i].id \in some
    BY <1>1, <1>6 DEF Distinct
  <2>2. ASSUME NEW i \in 1..(n + 1), NEW j \in 1..(n + 1), t[i].id = t[j].id, i # j
        PROVE  t[i].id \in some
    <3>1. CASE i \in 1..n /\ j \in 1..n
      BY <1>1, <2>1, <2>2, <3>1
    <3>2. CASE i = n + 1 /\ j \in 1..n
      <4>1. x.id = s[j].id /\ t[i] = x
        BY <1>1, <2>2, <3>2
      <4>. QED BY <1>2, <1>6, <3>2, <4>1
    <3>3. CASE i \in 1..n /\ j = n + 1
      <4>1. x.id = s[i].id /\ t[i].id = x.id
        BY <1>1, <2>2, <3>3
      <4>. QED BY <1>2, <1>6, <3>3, <4>1
    <3>. QED BY <1>3, <2>2, <3>1, <3>2, <3>3
  <2>. QED BY <1>1, <2>2 DEF Distinct
<1>. QED BY <1>5, <1>6 DEF t

\* What is kept of a sequence has no identity twice that it had not.
LEMMA DistinctOfThose ==
    ASSUME NEW S, NEW P, NEW some
    PROVE  \A s \in Seq(S) : Distinct(s, some) => Distinct(Those(s, P), some)
<1>. DEFINE T == {s \in Seq(S) : Distinct(s, some) => Distinct(Those(s, P), some)}
<1>1. << >> \in T
  <2>1. << >> \in Seq(S) /\ Those(<< >>, P) = << >>
    BY ThoseOfNone
  <2>. QED BY <2>1
<1>2. ASSUME NEW s \in Seq(S), NEW x \in S, s \in T PROVE Append(s, x) \in T
  <2>1. Those(Append(s, x), P) = IF x \in P THEN Append(Those(s, P), x) ELSE Those(s, P)
    BY ThoseOfAppend
  <2>2. Those(s, P) \in Seq(S) /\ Append(s, x) \in Seq(S)
    BY ThoseType
  <2>3. Distinct(s, some) => Distinct(Those(s, P), some)
    BY <1>2
  <2>4. Named(Those(s, P)) \subseteq Named(s)
    BY ThoseAre DEF Named
  <2>. HIDE DEF T
  <2>5. ASSUME Distinct(Append(s, x), some) PROVE Distinct(Those(Append(s, x), P), some)
    <3>1. Distinct(s, some) /\ (x.id \in Named(s) => x.id \in some)
      BY <2>5, DistinctOfAppend
    <3>2. Distinct(Append(Those(s, P), x), some)
      BY <2>2, <2>3, <2>4, <3>1, DistinctOfAppend
    <3>. QED BY <2>1, <2>3, <3>1, <3>2
  <2>. QED BY <2>2, <2>5 DEF T
<1>. HIDE DEF T
<1>3. \A s \in Seq(S) : s \in T
  BY <1>1, <1>2, FromTheEnd
<1>. QED BY <1>3 DEF T

\* Two sequences put together have no identity twice but some, if neither had and none of
\* the others is in both.
LEMMA DistinctOfBoth ==
    ASSUME NEW S, NEW a \in Seq(S), NEW b \in Seq(S), NEW some,
           Distinct(a, some), Distinct(b, some), Named(a) \cap Named(b) \subseteq some
    PROVE  Distinct(a \o b, some)
<1>. DEFINE T == {s \in Seq(S) : Distinct(s, some) /\ Named(a) \cap Named(s) \subseteq some
                                    => Distinct(a \o s, some)}
<1>1. << >> \in T
  <2>1. << >> \in Seq(S) /\ a \o << >> = a
    OBVIOUS
  <2>. QED BY <2>1
<1>2. ASSUME NEW s \in Seq(S), NEW x \in S, s \in T PROVE Append(s, x) \in T
  <2>1. Append(s, x) \in Seq(S) /\ a \o Append(s, x) = Append(a \o s, x) /\ a \o s \in Seq(S)
    BY AppendLast
  <2>2. Named(Append(s, x)) = Named(s) \cup {x.id} /\ Named(a \o s) = Named(a) \cup Named(s)
    BY ItemsOfAppend, ItemsOfBoth DEF Named
  <2>3. Distinct(s, some) /\ Named(a) \cap Named(s) \subseteq some => Distinct(a \o s, some)
    BY <1>2
  <2>. HIDE DEF T
  <2>4. ASSUME Distinct(Append(s, x), some), Named(a) \cap Named(Append(s, x)) \subseteq some
        PROVE  Distinct(a \o Append(s, x), some)
    <3>1. Distinct(s, some) /\ (x.id \in Named(s) => x.id \in some)
      BY <2>4, DistinctOfAppend
    <3>2. Distinct(a \o s, some) /\ (x.id \in Named(a) => x.id \in some)
      BY <2>2, <2>3, <2>4, <3>1
    <3>3. Distinct(Append(a \o s, x), some)
      BY <2>1, <2>2, <3>1, <3>2, DistinctOfAppend
    <3>. QED BY <2>1, <3>3
  <2>. QED BY <2>1, <2>4 DEF T
<1>. HIDE DEF T
<1>3. \A s \in Seq(S) : s \in T
  BY <1>1, <1>2, FromTheEnd
<1>. QED BY <1>3 DEF T

\* What is kept for one reason and what is kept for another, that excludes it, have no
\* identity in common that the sequence did not have twice.
LEMMA ThoseApart ==
    ASSUME NEW S, NEW s \in Seq(S), NEW P, NEW Q, P \cap Q = {}, NEW some, Distinct(s, some)
    PROVE  Named(Those(s, P)) \cap Named(Those(s, Q)) \subseteq some
<1>. SUFFICES ASSUME NEW x \in Named(Those(s, P)), x \in Named(Those(s, Q)) PROVE x \in some
  OBVIOUS
<1>1. Contents(Those(s, P)) = Contents(s) \cap P /\ Contents(Those(s, Q)) = Contents(s) \cap Q
  BY ThoseAre
<1>2. PICK d \in Contents(s) \cap P : x = d.id
  BY <1>1 DEF Named
<1>3. PICK e \in Contents(s) \cap Q : x = e.id
  BY <1>1 DEF Named
<1>4. PICK i \in DOMAIN s : d = s[i]
  BY DEF Contents
<1>5. PICK j \in DOMAIN s : e = s[j]
  BY DEF Contents
<1>6. i # j
  BY <1>2, <1>3, <1>4, <1>5
<1>. QED BY <1>2, <1>3, <1>4, <1>5, <1>6 DEF Distinct

\* Sequences whose items have the same identities, one by one.
AlikeBy(s, t) == DOMAIN s = DOMAIN t /\ \A i \in DOMAIN s : s[i].id = t[i].id

\* They name the same, and are as distinct.
LEMMA AlikeIs ==
    ASSUME NEW s, NEW t, AlikeBy(s, t), NEW some
    PROVE  Named(s) = Named(t) /\ (Distinct(s, some) => Distinct(t, some))
<1>1. DOMAIN s = DOMAIN t /\ \A i \in DOMAIN s : s[i].id = t[i].id
  BY DEF AlikeBy
<1>2. Named(s) = {s[i].id : i \in DOMAIN s} /\ Named(t) = {t[i].id : i \in DOMAIN t}
  BY DEF Named, Contents
<1>3. Named(s) = Named(t)
  BY <1>1, <1>2
<1>4. ASSUME Distinct(s, some) PROVE Distinct(t, some)
  BY <1>1, <1>4 DEF Distinct
<1>. QED BY <1>3, <1>4
=============================================================================
