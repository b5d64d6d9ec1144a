--------------------------- MODULE EstimateProofs ---------------------------
(***************************************************************************)
(* Proofs about what the quotes are computed from, for every value of the  *)
(* constants.                                                              *)
(*   VolObi       the running statistics of a window are those of exactly  *)
(*                the values in it, and a quote keeps its distance;        *)
(*   TradeFlow    a public trade is counted once, and marked once;         *)
(*   LiveMetrics  a fill is marked once at every horizon.                  *)
(***************************************************************************)
EXTENDS VolObi, TradeFlow, LiveMetrics, Induction

-----------------------------------------------------------------------------
(* VolObi: sums and squares along a window. *)

\* The largest member of a set of places.
LEMMA MaxIs ==
    ASSUME NEW n \in Nat, NEW t \in SUBSET (1..n), t # {}
    PROVE  Max(t) \in t /\ \A y \in t : Max(t) >= y
<1>1. t \subseteq Nat /\ \A k \in t : k <= n
  OBVIOUS
<1>2. PICK m \in t : \A k \in t : k <= m
  BY <1>1, LargestOf
<1>3. \A y \in t : m >= y
  BY <1>1, <1>2
<1>. QED BY <1>2, <1>3 DEF Max

\* Of the first places the last one.
LEMMA MaxOfFirst ==
    ASSUME NEW n \in Nat, NEW k \in 1..n
    PROVE  Max(1..k) = k
<1>1. 1..k \in SUBSET (1..n) /\ 1..k # {} /\ k \in 1..k
  OBVIOUS
<1>2. Max(1..k) \in 1..k /\ Max(1..k) >= k
  BY <1>1, MaxIs
<1>. QED BY <1>2

\* A fold over the places of a sequence, as FoldLeft has it.
LeftFold(h, n, w) ==
    h = [t \in SUBSET (1..n) |-> IF t = {} THEN 0 ELSE h[t \ {Max(t)}] + w[Max(t)]]

\* It ends at the running sum.
LEMMA LeftFoldIs ==
    ASSUME NEW f, NEW n, NEW w, RunningSum(f, n, w)
    PROVE  (CHOOSE h : LeftFold(h, n, w))[1..n] = f[n]
<1>. DEFINE top == [t \in SUBSET (1..n) |-> Max(t)]
            h == CHOOSE g : LeftFold(g, n, w)
<1>1. n \in Nat /\ w \in [1..n -> Int] /\ IsFiniteSet(1..n)
  BY FS_Interval DEF RunningSum
<1>2. \A t \in SUBSET (1..n) : top[t] = Max(t) /\ (t # {} => Max(t) \in t)
  BY <1>1, MaxIs
<1>3. \A k \in 1..n : top[1..k] = k
  <2>. TAKE k \in 1..n
  <2>1. 1..k \in SUBSET (1..n)
    BY <1>1
  <2>. QED BY <1>1, <2>1, MaxOfFirst
<1>. HIDE DEF top
<1>4. PICK g \in [SUBSET (1..n) -> Int] : FoldsOver(g, 1..n, w, top)
  <2>1. Chooses(top, 1..n)
    BY <1>2 DEF Chooses
  <2>. QED BY <1>1, <2>1, FoldsExist
<1>5. LeftFold(g, n, w)
  <2>1. g = [t \in SUBSET (1..n) |-> g[t]]
    OBVIOUS
  <2>2. \A t \in SUBSET (1..n) :
           g[t] = IF t = {} THEN 0 ELSE g[t \ {Max(t)}] + w[Max(t)]
    BY <1>2, <1>4 DEF FoldsOver
  <2>. QED BY <2>1, <2>2 DEF LeftFold
<1>6. LeftFold(h, n, w)
  BY <1>5
<1>. HIDE DEF h
<1>7. FoldsOver(h, 1..n, w, top)
  BY <1>2, <1>6 DEF FoldsOver, LeftFold
<1>. QED BY <1>3, <1>7, FoldIsRunningSum DEF h

\* SumAll is the sum along the sequence.
LEMMA SumAllIs ==
    ASSUME NEW s, s \in Seq(Int), NEW f, RunningSum(f, Len(s), s)
    PROVE  SumAll(s) = f[Len(s)]
<1>. DEFINE n == Len(s)
<1>1. DOMAIN s = 1..n
  OBVIOUS
<1>2. SumAll(s) = (CHOOSE h : LeftFold(h, n, s))[1..n]
  <2>. HIDE DEF n
  <2>. QED BY <1>1 DEF SumAll, FoldLeft, MapThenFoldSet, LeftFold
<1>. QED BY <1>2, LeftFoldIs

\* The squares of the distances from c.
SquareOf(s, c) == [k \in 1..Len(s) |-> (s[k] - c) * (s[k] - c)]

\* SquaresFrom is their sum along the sequence.
LEMMA SquaresAre ==
    ASSUME NEW s, s \in Seq(Int), NEW c \in Int, NEW f, RunningSum(f, Len(s), SquareOf(s, c))
    PROVE  SquaresFrom(s, c) = f[Len(s)]
<1>. DEFINE n == Len(s)
            w == SquareOf(s, c)
            A(h) == h = [t \in SUBSET (1..n) |->
                           IF t = {} THEN 0
                           ELSE h[t \ {Max(t)}] + (s[Max(t)] - c) * (s[Max(t)] - c)]
<1>1. DOMAIN s = 1..n /\ n \in Nat
  OBVIOUS
<1>2. SquaresFrom(s, c) = (CHOOSE h : A(h))[1..n]
  <2>. HIDE DEF n
  <2>. QED BY <1>1 DEF SquaresFrom, FoldLeft, MapThenFoldSet
<1>3. ASSUME NEW h PROVE A(h) <=> LeftFold(h, n, w)
  <2>1. \A t \in SUBSET (1..n) : t # {} => w[Max(t)] = (s[Max(t)] - c) * (s[Max(t)] - c)
    BY <1>1, MaxIs DEF SquareOf
  <2>. HIDE DEF w, n
  <2>2. [t \in SUBSET (1..n) |-> IF t = {} THEN 0 ELSE h[t \ {Max(t)}] + w[Max(t)]]
        = [t \in SUBSET (1..n) |->
              IF t = {} THEN 0 ELSE h[t \ {Max(t)}] + (s[Max(t)] - c) * (s[Max(t)] - c)]
    BY <2>1
  <2>. QED BY <2>2 DEF LeftFold
<1>4. (CHOOSE h : A(h)) = (CHOOSE h : LeftFold(h, n, w))
  <2>. HIDE DEF A, n, w
  <2>. QED BY <1>3
<1>. HIDE DEF A
<1>. QED BY <1>2, <1>4, LeftFoldIs

\* The running sum of a sequence is there, and SumAll is a number.
LEMMA SumsAlong ==
    ASSUME NEW s \in Seq(Int)
    PROVE  /\ SumAll(s) \in Int
           /\ \E f : RunningSum(f, Len(s), s) /\ SumAll(s) = f[Len(s)]
<1>1. Len(s) \in Nat /\ s \in [1..Len(s) -> Int]
  OBVIOUS
<1>2. PICK f : RunningSum(f, Len(s), s)
  BY <1>1, RunningSumExists
<1>3. SumAll(s) = f[Len(s)]
  BY <1>2, SumAllIs
<1>4. f[Len(s)] \in Int
  BY <1>1, <1>2 DEF RunningSum
<1>. QED BY <1>2, <1>3, <1>4

\* The sum of nothing.
LEMMA SumOfNone == SumAll(<<>>) = 0
<1>1. <<>> \in Seq(Int) /\ Len(<<>>) = 0
  OBVIOUS
<1>2. PICK f : RunningSum(f, Len(<<>>), <<>>) /\ SumAll(<<>>) = f[Len(<<>>)]
  BY <1>1, SumsAlong
<1>. QED BY <1>1, <1>2 DEF RunningSum

\* One more value adds to the sum.
LEMMA SumOfAppend ==
    ASSUME NEW s \in Seq(Int), NEW v \in Int
    PROVE  SumAll(Append(s, v)) = SumAll(s) + v
<1>. DEFINE r == Append(s, v)
            n == Len(s)
<1>1. r \in Seq(Int) /\ Len(r) = n + 1 /\ n \in Nat /\ r[n + 1] = v
      /\ \A k \in 1..n : r[k] = s[k]
  OBVIOUS
<1>2. PICK f : RunningSum(f, n, s) /\ SumAll(s) = f[n]
  BY SumsAlong
<1>. DEFINE g == [k \in 0..(n + 1) |-> IF k = n + 1 THEN f[n] + v ELSE f[k]]
<1>. HIDE DEF r, n
<1>3. RunningSum(g, n + 1, r)
  <2>1. r \in [1..(n + 1) -> Int]
    BY <1>1
  <2>2. f \in [0..n -> Int] /\ f[0] = 0 /\ \A k \in 1..n : f[k] = f[k - 1] + s[k]
    BY <1>2 DEF RunningSum
  <2>3. g \in [0..(n + 1) -> Int] /\ g[0] = 0
    BY <1>1, <2>2
  <2>4. ASSUME NEW k \in 1..(n + 1) PROVE g[k] = g[k - 1] + r[k]
    <3>1. CASE k = n + 1
      <4>1. g[k] = f[n] + v /\ g[k - 1] = f[n] /\ r[k] = v
        BY <1>1, <3>1
      <4>. HIDE DEF g
      <4>. QED BY <4>1
    <3>2. CASE k # n + 1
      <4>1. k \in 1..n /\ k - 1 \in 0..n /\ k - 1 # n + 1
        BY <1>1, <3>2
      <4>2. g[k] = f[k] /\ g[k - 1] = f[k - 1] /\ r[k] = s[k]
        BY <1>1, <3>2, <4>1
      <4>. HIDE DEF g
      <4>. QED BY <2>2, <4>1, <4>2
    <3>. QED BY <3>1, <3>2
  <2>. HIDE DEF g
  <2>. QED BY <1>1, <2>1, <2>3, <2>4 DEF RunningSum
<1>4. g[n + 1] = f[n] + v
  BY <1>1
<1>. HIDE DEF g
<1>5. SumAll(r) = g[n + 1]
  BY <1>1, <1>3, SumAllIs
<1>. QED BY <1>2, <1>4, <1>5 DEF r

\* The first value leaves the sum.
LEMMA SumOfTail ==
    ASSUME NEW s \in Seq(Int), Len(s) > 0
    PROVE  SumAll(s) = s[1] + SumAll(Tail(s))
<1>. DEFINE r == Tail(s)
            n == Len(r)
<1>1. r \in Seq(Int) /\ Len(r) = n /\ Len(s) = n + 1 /\ n \in Nat /\ s[1] \in Int
      /\ \A k \in 1..n : r[k] = s[k + 1] /\ s[k + 1] \in Int
  OBVIOUS
<1>2. PICK f : RunningSum(f, n + 1, s) /\ SumAll(s) = f[n + 1]
  BY <1>1, SumsAlong
<1>. DEFINE g == [k \in 0..n |-> f[k + 1] - s[1]]
<1>. HIDE DEF r, n
<1>3. RunningSum(g, n, r)
  <2>1. r \in [1..n -> Int]
    BY <1>1
  <2>2. f \in [0..(n + 1) -> Int] /\ f[0] = 0 /\ \A k \in 1..(n + 1) : f[k] = f[k - 1] + s[k]
    BY <1>2 DEF RunningSum
  <2>3. \A k \in 0..n : k + 1 \in 1..(n + 1) /\ k + 1 \in 0..(n + 1)
    BY <1>1
  <2>4. g \in [0..n -> Int]
    BY <1>1, <2>2, <2>3
  <2>5. g[0] = 0
    <3>1. 0 \in 0..n /\ 1 \in 1..(n + 1) /\ f[1] = f[0] + s[1]
      <4>1. 1 \in 1..(n + 1) /\ 1 - 1 = 0
        BY <1>1
      <4>. QED BY <1>1, <2>2, <4>1
    <3>. QED BY <1>1, <2>2, <3>1
  <2>6. ASSUME NEW k \in 1..n PROVE g[k] = g[k - 1] + r[k]
    <3>1. k \in 0..n /\ k - 1 \in 0..n /\ (k - 1) + 1 = k /\ k + 1 \in 1..(n + 1)
          /\ k \in 0..(n + 1) /\ k + 1 \in 0..(n + 1) /\ (k + 1) - 1 = k
      BY <1>1
    <3>2. g[k] = f[k + 1] - s[1] /\ g[k - 1] = f[k] - s[1]
      BY <3>1
    <3>3. f[k + 1] = f[k] + r[k] /\ r[k] \in Int
      BY <1>1, <2>2, <3>1
    <3>4. f[k] \in Int /\ f[k + 1] \in Int
      BY <2>2, <3>1
    <3>. HIDE DEF g
    <3>. QED BY <1>1, <3>2, <3>3, <3>4
  <2>. HIDE DEF g
  <2>. QED BY <1>1, <2>1, <2>4, <2>5, <2>6 DEF RunningSum
<1>4. g[n] = f[n + 1] - s[1] /\ f[n + 1] \in Int
  BY <1>1, <1>2 DEF RunningSum
<1>. HIDE DEF g
<1>5. SumAll(r) = g[n]
  BY <1>1, <1>3, SumAllIs
<1>. QED BY <1>1, <1>2, <1>4, <1>5 DEF r

\* The squares of the values.
Squared(s) == [k \in 1..Len(s) |-> s[k] * s[k]]

\* They are a sequence of as many.
LEMMA SquaredIs ==
    ASSUME NEW s \in Seq(Int)
    PROVE  /\ Squared(s) \in Seq(Int) /\ Len(Squared(s)) = Len(s) /\ Len(s) \in Nat
           /\ \A k \in 1..Len(s) : Squared(s)[k] = s[k] * s[k] /\ s[k] \in Int
<1>1. Len(s) \in Nat /\ \A k \in 1..Len(s) : s[k] \in Int
  OBVIOUS
<1>2. \A k \in 1..Len(s) : s[k] * s[k] \in Int
  BY <1>1
<1>3. Squared(s) \in [1..Len(s) -> Int]
  BY <1>2 DEF Squared
<1>4. Squared(s) \in Seq(Int) /\ Len(Squared(s)) = Len(s)
  BY <1>1, <1>3, SeqOfLength
<1>. QED BY <1>1, <1>4 DEF Squared

\* The squares of one more, and of one less.
LEMMA SquaredSteps ==
    ASSUME NEW s \in Seq(Int)
    PROVE  /\ \A v \in Int : SumAll(Squared(Append(s, v))) = SumAll(Squared(s)) + v * v
           /\ Len(s) > 0 => SumAll(Squared(s)) = s[1] * s[1] + SumAll(Squared(Tail(s)))
<1>1. Squared(s) \in Seq(Int) /\ Len(Squared(s)) = Len(s)
  BY SquaredIs
<1>2. ASSUME NEW v \in Int
      PROVE  v * v \in Int /\ Squared(Append(s, v)) = Append(Squared(s), v * v)
  <2>0. v * v \in Int
    BY <1>2
  <2>. DEFINE r == Append(s, v)
              t == Append(Squared(s), v * v)
              n == Len(s)
  <2>1. r \in Seq(Int) /\ Len(r) = n + 1 /\ n \in Nat /\ r[n + 1] = v
        /\ \A k \in 1..n : r[k] = s[k]
    OBVIOUS
  <2>2. t \in Seq(Int) /\ Len(t) = n + 1 /\ t[n + 1] = v * v
        /\ \A k \in 1..n : t[k] = Squared(s)[k]
    BY <1>1, <2>0
  <2>3. \A k \in 1..n : Squared(s)[k] = s[k] * s[k]
    BY SquaredIs
  <2>. HIDE DEF r, t, n
  <2>4. t = [k \in 1..(n + 1) |-> t[k]]
    BY <2>1, <2>2
  <2>5. \A k \in 1..(n + 1) : k = n + 1 \/ k \in 1..n
    BY <2>1
  <2>6. \A k \in 1..(n + 1) : t[k] = r[k] * r[k]
    BY <2>1, <2>2, <2>3, <2>5
  <2>7. t = [k \in 1..(n + 1) |-> r[k] * r[k]]
    BY <2>4, <2>6
  <2>8. Squared(r) = t
    BY <2>1, <2>7 DEF Squared
  <2>. QED BY <2>0, <2>8 DEF r, t
<1>3. ASSUME Len(s) > 0 PROVE Squared(Tail(s)) = Tail(Squared(s))
  <2>. DEFINE r == Tail(s)
              t == Tail(Squared(s))
              n == Len(s) - 1
  <2>1. r \in Seq(Int) /\ Len(r) = n /\ n \in Nat /\ \A k \in 1..n : r[k] = s[k + 1]
    BY <1>3
  <2>2. t \in Seq(Int) /\ Len(t) = n /\ \A k \in 1..n : t[k] = Squared(s)[k + 1]
    BY <1>1, <1>3
  <2>3. \A k \in 1..n : k + 1 \in 1..Len(s)
    BY <1>3
  <2>. HIDE DEF r, t, n
  <2>4. t = [k \in 1..n |-> t[k]]
    BY <2>2
  <2>5. \A k \in 1..Len(s) : Squared(s)[k] = s[k] * s[k]
    BY SquaredIs
  <2>6. \A k \in 1..n : t[k] = r[k] * r[k]
    BY <2>1, <2>2, <2>3, <2>5
  <2>7. t = [k \in 1..n |-> r[k] * r[k]]
    BY <2>4, <2>6
  <2>8. Squared(r) = t
    BY <2>1, <2>7 DEF Squared
  <2>. QED BY <2>8 DEF r, t
<1>4. ASSUME NEW v \in Int
      PROVE  SumAll(Squared(Append(s, v))) = SumAll(Squared(s)) + v * v
  BY <1>1, <1>2, SumOfAppend
<1>5. ASSUME Len(s) > 0
      PROVE  SumAll(Squared(s)) = s[1] * s[1] + SumAll(Squared(Tail(s)))
  <2>1. Squared(s)[1] = s[1] * s[1]
    BY <1>5, SquaredIs
  <2>2. SumAll(Squared(s)) = Squared(s)[1] + SumAll(Tail(Squared(s)))
    BY <1>1, <1>5, SumOfTail
  <2>. QED BY <1>3, <1>5, <2>1, <2>2
<1>. QED BY <1>4, <1>5

\* The squared deviations from any centre, from the sums of the values and their
\* squares; they are not negative.
LEMMA SquaresAbout ==
    ASSUME NEW s \in Seq(Int), NEW c \in Int
    PROVE  /\ SquaresFrom(s, c) = SumAll(Squared(s)) - 2 * c * SumAll(s) + Len(s) * c * c
           /\ SquaresFrom(s, c) >= 0
<1>. DEFINE n == Len(s)
            w == SquareOf(s, c)
<1>1. n \in Nat /\ \A k \in 1..n : s[k] \in Int /\ Squared(s)[k] = s[k] * s[k]
  BY SquaredIs
<1>2. Squared(s) \in Seq(Int) /\ Len(Squared(s)) = n
  BY SquaredIs
<1>3. \A k \in 1..n : w[k] = (s[k] - c) * (s[k] - c) /\ w[k] \in Int /\ w[k] >= 0
  <2>. TAKE k \in 1..n
  <2>1. w[k] = (s[k] - c) * (s[k] - c) /\ s[k] \in Int
    BY <1>1 DEF SquareOf
  <2>. DEFINE d == s[k] - c
  <2>2. d \in Int
    BY <2>1
  <2>. HIDE DEF d
  <2>3. d * d \in Int /\ d * d >= 0
    BY <2>2
  <2>. QED BY <2>1, <2>3 DEF d
<1>4. w \in [1..n -> Int]
  BY <1>3 DEF SquareOf
<1>5. PICK f : RunningSum(f, n, s) /\ SumAll(s) = f[n]
  BY SumsAlong
<1>6. PICK q : RunningSum(q, n, Squared(s)) /\ SumAll(Squared(s)) = q[n]
  BY <1>2, SumsAlong
<1>. DEFINE g == [k \in 0..n |-> q[k] - 2 * c * f[k] + k * c * c]
<1>. HIDE DEF n, w
<1>7. f \in [0..n -> Int] /\ f[0] = 0 /\ \A k \in 1..n : f[k] = f[k - 1] + s[k]
  BY <1>5 DEF RunningSum
<1>8. q \in [0..n -> Int] /\ q[0] = 0 /\ \A k \in 1..n : q[k] = q[k - 1] + s[k] * s[k]
  BY <1>1, <1>6 DEF RunningSum
<1>9. RunningSum(g, n, w)
  <2>1. \A k \in 0..n : q[k] - 2 * c * f[k] + k * c * c \in Int
    <3>. TAKE k \in 0..n
    <3>1. q[k] \in Int /\ f[k] \in Int /\ k \in Int
      BY <1>1, <1>7, <1>8
    <3>. QED BY <3>1
  <2>2. g \in [0..n -> Int]
    BY <2>1
  <2>3. g[0] = 0
    <3>1. 0 \in 0..n /\ 0 - 2 * c * 0 + 0 * c * c = 0
      BY <1>1
    <3>. QED BY <1>7, <1>8, <3>1
  <2>4. ASSUME NEW k \in 1..n PROVE g[k] = g[k - 1] + w[k]
    <3>1. k \in 0..n /\ k - 1 \in 0..n /\ k \in Int
      BY <1>1
    <3>2. f[k] = f[k - 1] + s[k] /\ q[k] = q[k - 1] + s[k] * s[k]
      BY <1>7, <1>8
    <3>3. f[k - 1] \in Int /\ q[k - 1] \in Int /\ s[k] \in Int
      BY <1>1, <1>7, <1>8, <3>1
    <3>4. /\ g[k] = q[k] - 2 * c * f[k] + k * c * c
          /\ g[k - 1] = q[k - 1] - 2 * c * f[k - 1] + (k - 1) * c * c
          /\ w[k] = (s[k] - c) * (s[k] - c)
      BY <1>3, <3>1
    <3>. DEFINE a == f[k - 1]  b == q[k - 1]  x == s[k]
    <3>5. a \in Int /\ b \in Int /\ x \in Int /\ k \in Int
      BY <3>1, <3>3
    <3>6. /\ g[k] = (b + x * x) - 2 * c * (a + x) + k * c * c
          /\ g[k - 1] = b - 2 * c * a + (k - 1) * c * c /\ w[k] = (x - c) * (x - c)
      BY <3>2, <3>4
    <3>. HIDE DEF a, b, x, g
    <3>7. (b + x * x) - 2 * c * (a + x) + k * c * c
          = (b - 2 * c * a + (k - 1) * c * c) + (x - c) * (x - c)
      BY <3>5
    <3>. QED BY <3>6, <3>7
  <2>. HIDE DEF g
  <2>. QED BY <1>1, <1>4, <2>2, <2>3, <2>4 DEF RunningSum
<1>10. g[n] = q[n] - 2 * c * f[n] + n * c * c
  BY <1>1
<1>. HIDE DEF g
<1>11. SquaresFrom(s, c) = g[n]
  BY <1>9, SquaresAre DEF n, w
<1>12. g[n] >= 0
  <2>1. \A k \in 0..n : g[k] >= 0
    BY <1>3, <1>9, RunningSumRises
  <2>. QED BY <1>1, <2>1
<1>. QED BY <1>5, <1>6, <1>10, <1>11, <1>12 DEF n

\* v is d times a number.
Multiple(v, d) == \E q \in Int : v = d * q

\* Sums of multiples are multiples.
LEMMA SumOfMultiples ==
    ASSUME NEW s \in Seq(Int), NEW d \in Nat \ {0}, \A k \in 1..Len(s) : Multiple(s[k], d)
    PROVE  Multiple(SumAll(s), d)
<1>. DEFINE n == Len(s)
            w == [k \in 1..n |-> CHOOSE q \in Int : s[k] = d * q]
<1>0. n \in Nat
  OBVIOUS
<1>1. \A k \in 1..n : w[k] \in Int /\ s[k] = d * w[k]
  <2>. TAKE k \in 1..n
  <2>1. w[k] = CHOOSE q \in Int : s[k] = d * q
    OBVIOUS
  <2>2. \E q \in Int : s[k] = d * q
    BY DEF Multiple
  <2>. HIDE DEF w
  <2>. QED BY <2>1, <2>2
<1>2. w \in [1..n -> Int] /\ s \in [1..n -> Int]
  <2>1. w = [k \in 1..n |-> w[k]]
    OBVIOUS
  <2>2. s \in [1..n -> Int]
    OBVIOUS
  <2>. HIDE DEF w
  <2>. QED BY <1>0, <1>1, <2>1, <2>2
<1>. HIDE DEF w
<1>3. PICK f : RunningSum(f, n, w)
  BY <1>0, <1>1, <1>2, RunningSumExists
<1>. DEFINE g == [k \in 0..n |-> d * f[k]]
<1>. HIDE DEF n
<1>4. f \in [0..n -> Int] /\ f[0] = 0 /\ \A k \in 1..n : f[k] = f[k - 1] + w[k]
  BY <1>3 DEF RunningSum
<1>5. RunningSum(g, n, s)
  <2>1. \A k \in 0..n : d * f[k] \in Int
    BY <1>4
  <2>2. g \in [0..n -> Int]
    BY <2>1
  <2>3. g[0] = 0
    BY <1>0, <1>1, <1>4
  <2>4. ASSUME NEW k \in 1..n PROVE g[k] = g[k - 1] + s[k]
    <3>1. k \in 0..n /\ k - 1 \in 0..n
      BY <1>0, <1>1
    <3>2. g[k] = d * f[k] /\ g[k - 1] = d * f[k - 1] /\ s[k] = d * w[k]
      BY <1>0, <1>1, <3>1
    <3>3. f[k] = f[k - 1] + w[k] /\ f[k - 1] \in Int /\ w[k] \in Int
      BY <1>0, <1>1, <1>4, <3>1
    <3>. DEFINE a == f[k - 1]  b == w[k]
    <3>. HIDE DEF g, a, b
    <3>4. a \in Int /\ b \in Int /\ d \in Int
      BY <3>3 DEF a, b
    <3>5. d * (a + b) = d * a + d * b
      BY <3>4
    <3>. QED BY <3>2, <3>3, <3>5 DEF a, b
  <2>. HIDE DEF g
  <2>. QED BY <1>0, <1>1, <1>2, <2>2, <2>3, <2>4 DEF RunningSum
<1>6. n \in 0..n /\ g[n] = d * f[n] /\ f[n] \in Int
  BY <1>0, <1>1, <1>4
<1>. HIDE DEF g
<1>7. SumAll(s) = g[n]
  BY <1>5, SumAllIs DEF n
<1>. QED BY <1>6, <1>7 DEF Multiple

-----------------------------------------------------------------------------
(* The windows and their moments.                                          *)

\* Division is exact where it should be.
LEMMA ExactDivision ==
    ASSUME NEW n \in Nat \ {0}, NEW a \in Int
    PROVE  /\ \A q \in Int : a = n * q => a \div n = q
           /\ a % n = 0 => Multiple(a, n)
<1>1. a = n * (a \div n) + (a % n) /\ a \div n \in Int /\ a % n \in 0..(n - 1)
  OBVIOUS
<1>2. ASSUME NEW q \in Int, a = n * q PROVE a \div n = q
  BY <1>1, <1>2
<1>3. a % n = 0 => Multiple(a, n)
  BY <1>1 DEF Multiple
<1>. QED BY <1>2, <1>3

\* Welford's update: the squared deviations from the mean as a value comes.
LEMMA Welford ==
    ASSUME NEW n \in Nat, NEW old \in Int, NEW new \in Int, NEW v \in Int, NEW sq \in Int,
           (n + 1) * new = n * old + v
    PROVE  (sq - n * old * old) + (v - old) * (v - new) = (sq + v * v) - (n + 1) * new * new
<1>1. v = (n + 1) * new - n * old
  OBVIOUS
<1>. DEFINE x == (n + 1) * new - n * old
<1>2. (sq - n * old * old) + (x - old) * (x - new) = (sq + x * x) - (n + 1) * new * new
  OBVIOUS
<1>. QED BY <1>1, <1>2

\* Where the k-th of the last n values is when the next goes to cell at.
CellOf(at, n, k) ==
    IF at + k - 1 - n >= 0 THEN at + k - 1 - n ELSE at + k - 1 - n + WindowSteps

\* What every value is a multiple of.
Exact(v) == v \in Int /\ \A d \in 1..WindowSteps : Multiple(v, d)

\* A window holds the values vs, and has their moments.
Measured(st, vs) ==
    /\ vs \in Seq(Int) /\ Len(vs) <= WindowSteps /\ \A k \in 1..Len(vs) : Exact(vs[k])
    /\ st \in [buf : [0..(WindowSteps - 1) -> Int], at : 0..(WindowSteps - 1),
               n : Nat, sum : Int, m2 : Int, mean : Int]
    /\ st.n = Len(vs) /\ st.sum = SumAll(vs) /\ st.n * st.mean = st.sum
    /\ st.m2 = SumAll(Squared(vs)) - st.n * st.mean * st.mean
    /\ st.n = 0 => st.mean = 0
    /\ \A k \in 1..Len(vs) : st.buf[CellOf(st.at, Len(vs), k)] = vs[k]

\* The same in numbers.
LEMMA Numbers ==
    ASSUME NEW st, NEW vs, Measured(st, vs)
    PROVE  /\ WindowSteps \in Nat \ {0} /\ Len(vs) \in Nat /\ Len(vs) <= WindowSteps
           /\ st.at \in 0..(WindowSteps - 1) /\ st.n = Len(vs) /\ vs \in Seq(Int)
           /\ st.buf \in [0..(WindowSteps - 1) -> Int]
           /\ st.sum \in Int /\ st.m2 \in Int /\ st.mean \in Int
           /\ SumAll(vs) \in Int /\ SumAll(Squared(vs)) \in Int
           /\ \A c \in Int : SquaresFrom(vs, c) >= 0 /\
                SquaresFrom(vs, c) = SumAll(Squared(vs)) - 2 * c * SumAll(vs) + Len(vs) * c * c
<1>1. vs \in Seq(Int) /\ Len(vs) \in Nat
  BY DEF Measured
<1>2. SumAll(vs) \in Int /\ SumAll(Squared(vs)) \in Int
  BY <1>1, SumsAlong, SquaredIs
<1>3. WindowSteps \in Nat \ {0}
  BY UnitAssumption
<1>4. \A c \in Int : SquaresFrom(vs, c) >= 0 /\
         SquaresFrom(vs, c) = SumAll(Squared(vs)) - 2 * c * SumAll(vs) + Len(vs) * c * c
  BY <1>1, SquaresAbout
<1>. QED BY <1>1, <1>2, <1>3, <1>4 DEF Measured

\* An exact mean makes the squared deviations from it what Welford's update keeps.
LEMMA AboutTheMean ==
    ASSUME NEW vs \in Seq(Int), NEW mean \in Int, Len(vs) * mean = SumAll(vs)
    PROVE  /\ SquaresFrom(vs, mean) = SumAll(Squared(vs)) - Len(vs) * mean * mean
           /\ SumAll(Squared(vs)) - Len(vs) * mean * mean >= 0
<1>. DEFINE n == Len(vs)  q == SumAll(Squared(vs))  x == SumAll(vs)
<1>1. n \in Nat /\ q \in Int /\ x \in Int /\ n * mean = x
  BY SumsAlong, SquaredIs
<1>2. SquaresFrom(vs, mean) = q - 2 * mean * x + n * mean * mean /\ SquaresFrom(vs, mean) >= 0
  BY SquaresAbout
<1>. HIDE DEF n, q, x
<1>3. q - 2 * mean * (n * mean) + n * mean * mean = q - n * mean * mean
  BY <1>1
<1>4. SquaresFrom(vs, mean) = q - n * mean * mean
  BY <1>1, <1>2, <1>3
<1>. QED BY <1>2, <1>4 DEF n, q, x

\* A measured window agrees with what it was fed.
LEMMA MeasuredAgrees ==
    ASSUME NEW st, NEW vs, Measured(st, vs)
    PROVE  MomentsOf(st, vs)
<1>1. st.mean \in Int /\ st.n \in Nat /\ st.n = Len(vs) /\ vs \in Seq(Int)
  BY Numbers
<1>2. st.sum = SumAll(vs) /\ st.n * st.mean = st.sum
      /\ st.m2 = SumAll(Squared(vs)) - st.n * st.mean * st.mean
  BY DEF Measured
<1>3. st.mean * st.n = st.n * st.mean
  BY <1>1
<1>4. SquaresFrom(vs, st.mean) = st.m2
  BY <1>1, <1>2, AboutTheMean
<1>. QED BY <1>1, <1>2, <1>3, <1>4 DEF MomentsOf

\* A mean that is exact is the quotient.
LEMMA ExactMean ==
    ASSUME NEW vs \in Seq(Int), Len(vs) \in 1..WindowSteps, \A k \in 1..Len(vs) : Exact(vs[k])
    PROVE  /\ SumAll(vs) \div Len(vs) \in Int
           /\ Len(vs) * (SumAll(vs) \div Len(vs)) = SumAll(vs)
<1>. DEFINE d == Len(vs)
<1>1. d \in Nat \ {0} /\ \A k \in 1..Len(vs) : Multiple(vs[k], d)
  BY UnitAssumption DEF Exact
<1>2. SumAll(vs) \in Int
  BY SumsAlong
<1>. HIDE DEF d
<1>3. Multiple(SumAll(vs), d)
  BY <1>1, SumOfMultiples
<1>4. PICK q \in Int : SumAll(vs) = d * q
  BY <1>3 DEF Multiple
<1>5. SumAll(vs) \div d = q
  BY <1>1, <1>2, <1>4, ExactDivision
<1>. QED BY <1>4, <1>5 DEF d

\* What Pushed does where there is room.
Added(s, v) ==
    LET sum == s.sum + v
        mean == sum \div (s.n + 1)
    IN  [buf |-> [s.buf EXCEPT ![s.at] = v],
         at |-> IF s.at + 1 >= WindowSteps THEN 0 ELSE s.at + 1,
         n |-> s.n + 1, sum |-> sum, mean |-> mean,
         m2 |-> NotNegative(s.m2 + (v - s.mean) * (v - mean))]

\* The cell after cell at.
CellAfter(at) == IF at + 1 >= WindowSteps THEN 0 ELSE at + 1

\* Where the value is that came last.
LEMMA CellsTurn ==
    ASSUME NEW at \in 0..(WindowSteps - 1), NEW n \in Nat, n < WindowSteps
    PROVE  CellAfter(at) \in 0..(WindowSteps - 1) /\ CellOf(CellAfter(at), n + 1, n + 1) = at
<1>1. WindowSteps \in Nat \ {0}
  BY UnitAssumption
<1>. QED BY <1>1 DEF CellOf, CellAfter

\* And where the others stay.
LEMMA CellsStay ==
    ASSUME NEW at \in 0..(WindowSteps - 1), NEW n \in Nat, n < WindowSteps, NEW k \in 1..n
    PROVE  /\ CellOf(CellAfter(at), n + 1, k) = CellOf(at, n, k) /\ CellOf(at, n, k) # at
           /\ CellOf(at, n, k) \in 0..(WindowSteps - 1)
<1>1. WindowSteps \in Nat \ {0}
  BY UnitAssumption
<1>. QED BY <1>1 DEF CellOf, CellAfter

\* And the values of it when the first went.
LEMMA CellsLeave ==
    ASSUME NEW at \in 0..(WindowSteps - 1), NEW n \in Nat, n = WindowSteps
    PROVE  /\ CellOf(at, n, 1) = at
           /\ \A k \in 1..(n - 1) : CellOf(at, n - 1, k) = CellOf(at, n, k + 1)
<1>1. WindowSteps \in Nat \ {0}
  BY UnitAssumption
<1>. QED BY <1>1 DEF CellOf

\* A value that comes is measured.
LEMMA AddedIs ==
    ASSUME NEW st, NEW vs, Measured(st, vs), Len(vs) < WindowSteps, NEW v, Exact(v)
    PROVE  Measured(Added(st, v), Append(vs, v))
<1>. DEFINE n == Len(vs)
            ws == Append(vs, v)
            sum == st.sum + v
            mean == sum \div (st.n + 1)
            m2 == st.m2 + (v - st.mean) * (v - mean)
            to == CellAfter(st.at)
            buf == [st.buf EXCEPT ![st.at] = v]
            new == Added(st, v)
<1>1. /\ n \in Nat /\ vs \in Seq(Int) /\ v \in Int /\ st.n = n
      /\ st.sum = SumAll(vs) /\ n * st.mean = st.sum
      /\ st.m2 = SumAll(Squared(vs)) - n * st.mean * st.mean
      /\ st.sum \in Int /\ st.mean \in Int /\ SumAll(Squared(vs)) \in Int
  BY Numbers DEF Measured, Exact
<1>2. /\ ws \in Seq(Int) /\ Len(ws) = n + 1 /\ ws[n + 1] = v
      /\ \A k \in 1..n : ws[k] = vs[k]
  BY <1>1
<1>3. \A k \in 1..(n + 1) : Exact(ws[k])
  <2>1. \A k \in 1..(n + 1) : k = n + 1 \/ k \in 1..n
    BY <1>1
  <2>2. \A k \in 1..n : Exact(vs[k])
    BY DEF Measured
  <2>. HIDE DEF ws, n
  <2>. QED BY <1>2, <2>1, <2>2
<1>4. SumAll(ws) = sum /\ SumAll(Squared(ws)) = SumAll(Squared(vs)) + v * v
  BY <1>1, SumOfAppend, SquaredSteps
<1>5. mean \in Int /\ (n + 1) * mean = sum
  <2>1. Len(ws) \in 1..WindowSteps
    BY <1>1, <1>2, UnitAssumption
  <2>. HIDE DEF ws, n
  <2>2. /\ SumAll(ws) \div (n + 1) \in Int
        /\ (n + 1) * (SumAll(ws) \div (n + 1)) = SumAll(ws)
    BY <1>2, <1>3, <2>1, ExactMean
  <2>. QED BY <1>1, <1>4, <2>2
<1>6. /\ m2 = SumAll(Squared(ws)) - (n + 1) * mean * mean
      /\ m2 >= 0
  <2>. DEFINE sq == SumAll(Squared(vs))  old == st.mean
  <2>1. sq \in Int /\ old \in Int /\ n \in Nat /\ v \in Int /\ mean \in Int
        /\ (n + 1) * mean = n * old + v
    BY <1>1, <1>5
  <2>2. m2 = (sq - n * old * old) + (v - old) * (v - mean)
    BY <1>1
  <2>3. Len(ws) * mean = SumAll(ws)
    BY <1>2, <1>4, <1>5
  <2>. HIDE DEF sq, old, mean, m2, n, ws
  <2>4. m2 = (sq + v * v) - (n + 1) * mean * mean
    BY <2>1, <2>2, Welford
  <2>5. SumAll(Squared(ws)) - Len(ws) * mean * mean >= 0
    BY <1>2, <2>1, <2>3, AboutTheMean
  <2>6. m2 = SumAll(Squared(ws)) - (n + 1) * mean * mean
    BY <1>4, <2>4 DEF sq
  <2>. QED BY <1>2, <2>5, <2>6
<1>7. NotNegative(m2) = m2 /\ m2 \in Int
  <2>1. m2 \in Int
    <3>1. st.m2 \in Int
      BY Numbers
    <3>. DEFINE a == st.m2  b == st.mean  c == mean
    <3>2. a \in Int /\ b \in Int /\ c \in Int /\ v \in Int
      BY <1>1, <1>5, <3>1
    <3>3. m2 = a + (v - b) * (v - c)
      OBVIOUS
    <3>. HIDE DEF a, b, c, m2
    <3>. QED BY <3>2, <3>3
  <2>. HIDE DEF m2
  <2>. QED BY <1>6, <2>1 DEF NotNegative
<1>8. st.at \in 0..(WindowSteps - 1) /\ st.buf \in [0..(WindowSteps - 1) -> Int]
      /\ n < WindowSteps
  BY Numbers
<1>9. /\ to \in 0..(WindowSteps - 1) /\ CellOf(to, n + 1, n + 1) = st.at
      /\ \A k \in 1..n : /\ CellOf(to, n + 1, k) = CellOf(st.at, n, k)
                         /\ CellOf(st.at, n, k) # st.at
                         /\ CellOf(st.at, n, k) \in 0..(WindowSteps - 1)
  <2>. HIDE DEF n
  <2>1. CellAfter(st.at) \in 0..(WindowSteps - 1) /\ CellOf(CellAfter(st.at), n + 1, n + 1) = st.at
    BY <1>1, <1>8, CellsTurn
  <2>2. ASSUME NEW k \in 1..n
        PROVE  /\ CellOf(CellAfter(st.at), n + 1, k) = CellOf(st.at, n, k)
               /\ CellOf(st.at, n, k) # st.at /\ CellOf(st.at, n, k) \in 0..(WindowSteps - 1)
    BY <1>1, <1>8, CellsStay
  <2>. QED BY <2>1, <2>2
<1>10. /\ new.buf = buf /\ new.at = to /\ new.n = n + 1 /\ new.sum = sum
       /\ new.mean = mean /\ new.m2 = m2
       /\ new = [buf |-> buf, at |-> to, n |-> n + 1, sum |-> sum, mean |-> mean, m2 |-> m2]
  BY <1>1, <1>7 DEF Added, CellAfter
<1>11. buf \in [0..(WindowSteps - 1) -> Int] /\ buf[st.at] = v
       /\ \A c \in 0..(WindowSteps - 1) : c # st.at => buf[c] = st.buf[c]
  BY <1>1, <1>8
<1>12. \A k \in 1..(n + 1) : buf[CellOf(to, n + 1, k)] = ws[k]
  <2>1. \A k \in 1..(n + 1) : k = n + 1 \/ k \in 1..n
    BY <1>1
  <2>2. \A k \in 1..n : st.buf[CellOf(st.at, n, k)] = vs[k]
    BY DEF Measured
  <2>. HIDE DEF buf, to, ws, n
  <2>. QED BY <1>2, <1>9, <1>11, <2>1, <2>2
<1>. HIDE DEF new, buf, to, ws, n, mean, m2
<1>13. n + 1 <= WindowSteps /\ n + 1 # 0 /\ n + 1 \in Nat /\ sum \in Int
  <2>1. WindowSteps \in Nat
    BY UnitAssumption
  <2>2. sum \in Int
    BY <1>1
  <2>. QED BY <1>1, <1>8, <2>1, <2>2
<1>. HIDE DEF sum
<1>14. new \in [buf : [0..(WindowSteps - 1) -> Int], at : 0..(WindowSteps - 1),
                n : Nat, sum : Int, m2 : Int, mean : Int]
  BY <1>5, <1>7, <1>9, <1>10, <1>11, <1>13
<1>15. new.m2 = SumAll(Squared(ws)) - new.n * new.mean * new.mean
  BY <1>6, <1>10
<1>16. Measured(new, ws)
  BY <1>2, <1>3, <1>4, <1>5, <1>10, <1>12, <1>13, <1>14, <1>15 DEF Measured
<1>. QED BY <1>16 DEF new, ws

\* The oldest value of a full window goes, by the reverse of the update.
LEMMA EvictedIs ==
    ASSUME NEW st, NEW vs, Measured(st, vs), Len(vs) = WindowSteps
    PROVE  Measured(Evicted(st), Tail(vs)) /\ Len(Tail(vs)) = Len(vs) - 1
<1>. DEFINE n == Len(vs)
            ws == Tail(vs)
            old == st.buf[st.at]
            mean == IF st.n > 1 THEN st.mean + (st.mean - old) \div (st.n - 1) ELSE 0
            m2 == st.m2 - (old - st.mean) * (old - mean)
            new == Evicted(st)
<1>1. /\ n \in Nat \ {0} /\ vs \in Seq(Int) /\ st.n = n /\ n = WindowSteps
      /\ st.sum = SumAll(vs) /\ n * st.mean = st.sum
      /\ st.m2 = SumAll(Squared(vs)) - n * st.mean * st.mean
      /\ st.sum \in Int /\ st.mean \in Int /\ SumAll(Squared(vs)) \in Int
      /\ st.at \in 0..(WindowSteps - 1) /\ st.buf \in [0..(WindowSteps - 1) -> Int]
  BY Numbers DEF Measured
<1>2. /\ ws \in Seq(Int) /\ Len(ws) = n - 1 /\ vs[1] \in Int
      /\ \A k \in 1..(n - 1) : ws[k] = vs[k + 1]
  BY <1>1
<1>3. /\ CellOf(st.at, n, 1) = st.at
      /\ \A k \in 1..(n - 1) : CellOf(st.at, n - 1, k) = CellOf(st.at, n, k + 1)
  <2>. HIDE DEF n
  <2>. QED BY <1>1, CellsLeave
<1>4. \A k \in 1..n : st.buf[CellOf(st.at, n, k)] = vs[k] /\ Exact(vs[k])
  BY DEF Measured
<1>5. old = vs[1] /\ old \in Int
  <2>1. 1 \in 1..n
    BY <1>1
  <2>. HIDE DEF n
  <2>. QED BY <1>2, <1>3, <1>4, <2>1
<1>6. \A k \in 1..(n - 1) : Exact(ws[k]) /\ st.buf[CellOf(st.at, n - 1, k)] = ws[k]
  <2>1. \A k \in 1..(n - 1) : k + 1 \in 1..n
    BY <1>1
  <2>. HIDE DEF n, ws
  <2>. QED BY <1>2, <1>3, <1>4, <2>1
<1>7. /\ SumAll(ws) = st.sum - old /\ SumAll(Squared(ws)) = SumAll(Squared(vs)) - old * old
      /\ SumAll(ws) \in Int /\ SumAll(Squared(ws)) \in Int
  <2>1. SumAll(vs) = vs[1] + SumAll(ws)
    BY <1>1, SumOfTail
  <2>2. SumAll(Squared(vs)) = vs[1] * vs[1] + SumAll(Squared(ws))
    <3>1. Len(vs) > 0
      BY <1>1
    <3>. QED BY <1>1, <3>1, SquaredSteps
  <2>3. SumAll(ws) \in Int /\ SumAll(Squared(ws)) \in Int
    BY <1>2, SumsAlong, SquaredIs
  <2>4. vs[1] * vs[1] \in Int
    BY <1>2
  <2>. DEFINE a == SumAll(Squared(vs))  b == SumAll(Squared(ws))  c == vs[1] * vs[1]
              d == SumAll(vs)  e == SumAll(ws)
  <2>. HIDE DEF a, b, c, d, e, n, ws, old
  <2>5. a = c + b => b = a - c
    BY <2>3, <2>4, <1>1 DEF a, b, c
  <2>6. d = vs[1] + e => e = d - vs[1]
    BY <2>3, <1>1, <1>2 DEF d, e
  <2>. QED BY <1>1, <1>5, <2>1, <2>2, <2>3, <2>5, <2>6 DEF a, b, c, d, e
<1>8. mean \in Int /\ (n - 1) * mean = SumAll(ws) /\ (n - 1 = 0 => mean = 0)
  <2>1. CASE n = 1
    <3>1. n * st.mean = st.mean
      BY <1>1, <2>1
    <3>2. SumAll(ws) = 0
      <4>1. Len(ws) = 0
        BY <1>2, <2>1
      <4>. HIDE DEF ws
      <4>2. ws = <<>>
        BY <1>2, <4>1
      <4>. QED BY <4>2, SumOfNone
    <3>3. mean = 0
      BY <1>1, <2>1
    <3>. HIDE DEF mean, ws
    <3>. QED BY <2>1, <3>2, <3>3
  <2>2. CASE n # 1
    <3>. DEFINE q == SumAll(ws) \div (n - 1)
    <3>1. Len(ws) \in 1..WindowSteps /\ Len(ws) = n - 1
      BY <1>1, <1>2, <2>2
    <3>2. q \in Int /\ (n - 1) * q = SumAll(ws)
      <4>. HIDE DEF n, ws
      <4>1. \A k \in 1..Len(ws) : Exact(ws[k])
        BY <1>6, <3>1
      <4>2. /\ SumAll(ws) \div Len(ws) \in Int
            /\ Len(ws) * (SumAll(ws) \div Len(ws)) = SumAll(ws)
        BY <1>2, <3>1, <4>1, ExactMean
      <4>. QED BY <3>1, <4>2
    <3>. DEFINE x == st.mean - old  m == n - 1
    <3>. HIDE DEF q
    <3>3. x = m * (q - st.mean)
      <4>. DEFINE u == st.mean
      <4>1. m * q = n * u - old /\ u \in Int /\ n \in Int /\ old \in Int
        BY <1>1, <1>5, <1>7, <3>2
      <4>. HIDE DEF u, n, old
      <4>2. m * (q - u) = m * q - m * u /\ m * u = n * u - u
        BY <3>2, <4>1
      <4>. QED BY <3>2, <4>1, <4>2 DEF u
    <3>4. x \in Int /\ m \in Nat \ {0} /\ q - st.mean \in Int
      <4>1. x \in Int
        BY <1>1, <1>5
      <4>. HIDE DEF n, x
      <4>2. m \in Nat \ {0}
        BY <1>1, <2>2
      <4>. HIDE DEF m
      <4>. QED BY <1>1, <3>2, <4>1, <4>2
    <3>. HIDE DEF x, m
    <3>5. x \div m = q - st.mean
      BY <3>3, <3>4, ExactDivision
    <3>6. mean = st.mean + x \div m
      BY <1>1, <2>2 DEF x, m
    <3>7. mean = q
      <4>. HIDE DEF mean
      <4>. QED BY <1>1, <3>2, <3>5, <3>6
    <3>. HIDE DEF mean
    <3>. QED BY <1>1, <2>2, <3>2, <3>7
  <2>. QED BY <2>1, <2>2
<1>9. m2 = SumAll(Squared(ws)) - (n - 1) * mean * mean /\ m2 >= 0 /\ m2 \in Int
  <2>. DEFINE sq == SumAll(Squared(ws))  now == st.mean  l == n - 1
  <2>1. /\ sq \in Int /\ now \in Int /\ l \in Nat /\ old \in Int /\ mean \in Int /\ n = l + 1
        /\ (l + 1) * now = l * mean + old
    <3>. HIDE DEF mean, old, n, ws
    <3>1. (n - 1) * mean + old = n * st.mean
      BY <1>1, <1>5, <1>7, <1>8
    <3>2. l \in Nat /\ n = l + 1
      BY <1>1
    <3>. HIDE DEF l
    <3>3. l = n - 1 /\ (l + 1) * now = l * mean + old
      BY <1>1, <3>1 DEF l
    <3>. QED BY <1>1, <1>5, <1>7, <1>8, <3>2, <3>3
  <2>2. m2 = ((sq + old * old) - (l + 1) * now * now) - (old - now) * (old - mean)
    <3>1. st.m2 = (sq + old * old) - (l + 1) * now * now
      <4>1. SumAll(Squared(vs)) = sq + old * old
        <5>1. old * old \in Int
          BY <1>5
        <5>. DEFINE c == old * old  a == SumAll(Squared(vs))
        <5>2. sq = a - c /\ a \in Int /\ c \in Int
          BY <1>1, <1>7, <5>1
        <5>. HIDE DEF a, c, sq
        <5>3. a = sq + c
          BY <5>2
        <5>. QED BY <5>3 DEF a, c
      <4>. QED BY <1>1, <4>1
    <3>. QED BY <3>1
  <2>3. Len(ws) * mean = SumAll(ws)
    BY <1>2, <1>8
  <2>. HIDE DEF sq, now, mean, m2, n, ws, old, l
  <2>4. (sq - l * mean * mean) + (old - mean) * (old - now)
            = (sq + old * old) - (l + 1) * now * now
    BY <2>1, Welford
  <2>5. (old - mean) * (old - now) = (old - now) * (old - mean)
        /\ (old - mean) * (old - now) \in Int /\ sq - l * mean * mean \in Int
    BY <2>1
  <2>6. m2 = sq - l * mean * mean
    <3>. DEFINE a == sq - l * mean * mean  b == (old - mean) * (old - now)
    <3>1. a \in Int /\ b \in Int /\ m2 = (a + b) - b
      BY <2>2, <2>4, <2>5
    <3>. HIDE DEF a, b
    <3>2. m2 = a
      BY <3>1
    <3>. QED BY <3>2 DEF a
  <2>7. SumAll(Squared(ws)) - Len(ws) * mean * mean >= 0
    BY <1>2, <2>1, <2>3, AboutTheMean
  <2>. QED BY <1>2, <2>5, <2>6, <2>7 DEF sq, l
<1>10. NotNegative(m2) = m2
  <2>. HIDE DEF m2
  <2>. QED BY <1>9 DEF NotNegative
<1>12. st \in [buf : [0..(WindowSteps - 1) -> Int], at : 0..(WindowSteps - 1),
               n : Nat, sum : Int, m2 : Int, mean : Int]
  BY DEF Measured
<1>11. new = [st EXCEPT !.m2 = m2, !.sum = st.sum - old, !.n = n - 1, !.mean = mean]
  <2>1. ~(st.n < WindowSteps)
    BY <1>1
  <2>2. new = [st EXCEPT !.m2 = NotNegative(m2), !.sum = st.sum - old, !.n = st.n - 1,
                         !.mean = mean]
    BY <1>12, <2>1 DEF Evicted
  <2>. HIDE DEF new, m2, mean, old, n
  <2>. QED BY <1>1, <1>10, <2>2
<1>13. n - 1 \in Nat /\ n - 1 <= WindowSteps
  BY <1>1
<1>. HIDE DEF new, ws, n, mean, m2, old
<1>14. /\ new.buf = st.buf /\ new.at = st.at /\ new.n = n - 1 /\ new.sum = st.sum - old
       /\ new.mean = mean /\ new.m2 = m2
       /\ new \in [buf : [0..(WindowSteps - 1) -> Int], at : 0..(WindowSteps - 1),
                   n : Nat, sum : Int, m2 : Int, mean : Int]
  <2>1. st.sum - old \in Int
    BY <1>1, <1>5
  <2>. QED BY <1>8, <1>9, <1>11, <1>12, <1>13, <2>1
<1>15. Measured(new, ws)
  BY <1>2, <1>6, <1>7, <1>8, <1>9, <1>13, <1>14 DEF Measured
<1>. QED BY <1>2, <1>15 DEF new, ws, n

\* A push measures the last values.
LEMMA PushedIs ==
    ASSUME NEW st, NEW vs, Measured(st, vs), NEW v, Exact(v)
    PROVE  Measured(Pushed(st, v), Latest(Append(vs, v)))
<1>1. /\ vs \in Seq(Int) /\ st.n = Len(vs) /\ Len(vs) \in Nat /\ Len(vs) <= WindowSteps
      /\ WindowSteps \in Nat \ {0} /\ v \in Int
  BY Numbers DEF Exact
<1>2. Pushed(st, v) = Added(Evicted(st), v)
  BY DEF Pushed, Added
<1>3. CASE Len(vs) < WindowSteps
  <2>1. Evicted(st) = st
    BY <1>1, <1>3 DEF Evicted
  <2>2. Latest(Append(vs, v)) = Append(vs, v)
    BY <1>1, <1>3 DEF Latest
  <2>. QED BY <1>2, <1>3, <2>1, <2>2, AddedIs
<1>4. CASE Len(vs) = WindowSteps
  <2>1. Measured(Evicted(st), Tail(vs)) /\ Len(Tail(vs)) < WindowSteps
    BY <1>1, <1>4, EvictedIs
  <2>2. Latest(Append(vs, v)) = Append(Tail(vs), v)
    <3>1. Len(Append(vs, v)) = Len(vs) + 1 /\ ~(Len(Append(vs, v)) <= WindowSteps)
      BY <1>1, <1>4
    <3>2. Tail(Append(vs, v)) = Append(Tail(vs), v)
      <4>1. vs # <<>>
        BY <1>1, <1>4
      <4>. QED BY <1>1, <4>1
    <3>. QED BY <3>1, <3>2 DEF Latest
  <2>. QED BY <1>2, <2>1, <2>2, AddedIs
<1>. QED BY <1>1, <1>3, <1>4

\* Empty windows, new and cleared, are measured.
LEMMA EmptyIsMeasured ==
    /\ Measured(NoStats, <<>>)
    /\ \A st, vs : Measured(st, vs) => Measured(Cleared(st), <<>>)
<1>1. /\ <<>> \in Seq(Int) /\ Len(<<>>) = 0 /\ Squared(<<>>) = <<>> /\ SumAll(<<>>) = 0
      /\ WindowSteps \in Nat \ {0}
  <2>1. <<>> \in Seq(Int) /\ Len(<<>>) = 0
    OBVIOUS
  <2>2. Squared(<<>>) \in Seq(Int) /\ Len(Squared(<<>>)) = 0
    BY <2>1, SquaredIs
  <2>3. Squared(<<>>) = <<>>
    <3>. DEFINE t == Squared(<<>>)
    <3>. HIDE DEF t
    <3>1. t \in Seq(Int) /\ Len(t) = 0
      BY <2>2 DEF t
    <3>2. t = <<>>
      BY <3>1
    <3>. QED BY <3>2 DEF t
  <2>. QED BY <2>1, <2>3, SumOfNone, UnitAssumption
<1>2. ASSUME NEW buf \in [0..(WindowSteps - 1) -> Int]
      PROVE  Measured([NoStats EXCEPT !.buf = buf], <<>>)
  <2>. DEFINE st == [NoStats EXCEPT !.buf = buf]
  <2>1. st = [buf |-> buf, at |-> 0, n |-> 0, sum |-> 0, m2 |-> 0, mean |-> 0]
    BY DEF NoStats
  <2>. HIDE DEF st
  <2>2. st \in [buf : [0..(WindowSteps - 1) -> Int], at : 0..(WindowSteps - 1),
                n : Nat, sum : Int, m2 : Int, mean : Int]
    BY <1>1, <2>1
  <2>3. /\ st.n = 0 /\ st.sum = 0 /\ st.n * st.mean = 0 /\ st.mean = 0 /\ st.m2 = 0
        /\ 0 - st.n * st.mean * st.mean = 0
    BY <2>1
  <2>4. Measured(st, <<>>)
    BY <1>1, <2>2, <2>3 DEF Measured
  <2>. QED BY <2>4 DEF st
<1>3. Measured(NoStats, <<>>)
  <2>. DEFINE buf == [i \in 0..(WindowSteps - 1) |-> 0]
  <2>1. buf \in [0..(WindowSteps - 1) -> Int]
    OBVIOUS
  <2>2. NoStats = [buf |-> buf, at |-> 0, n |-> 0, sum |-> 0, m2 |-> 0, mean |-> 0]
    BY DEF NoStats
  <2>. HIDE DEF buf
  <2>3. NoStats = [NoStats EXCEPT !.buf = buf]
    BY <2>2
  <2>. QED BY <1>2, <2>1, <2>3
<1>4. ASSUME NEW st, NEW vs, Measured(st, vs) PROVE Measured(Cleared(st), <<>>)
  <2>1. st.buf \in [0..(WindowSteps - 1) -> Int]
    BY <1>4, Numbers
  <2>. QED BY <1>2, <2>1 DEF Cleared
<1>. QED BY <1>3, <1>4

\* What the feed brings is exact, and so are the moves of the middle.
LEMMA FedIsExact ==
    /\ \A v \in MidPrices \cup Imbalances : Exact(v)
    /\ \A v, u \in MidPrices : Exact(v - u)
<1>1. ASSUME NEW v \in MidPrices \cup Imbalances PROVE Exact(v)
  <2>1. v \in Int /\ \A d \in 1..WindowSteps : v % d = 0 /\ d \in Nat \ {0}
    BY UnitAssumption
  <2>2. \A d \in 1..WindowSteps : Multiple(v, d)
    BY <2>1, ExactDivision
  <2>. QED BY <2>1, <2>2 DEF Exact
<1>2. ASSUME NEW v, NEW u, Exact(v), Exact(u) PROVE Exact(v - u)
  <2>1. v \in Int /\ u \in Int /\ v - u \in Int
    BY <1>2 DEF Exact
  <2>2. ASSUME NEW d \in 1..WindowSteps PROVE Multiple(v - u, d)
    <3>1. PICK q \in Int : v = d * q
      BY <1>2 DEF Exact, Multiple
    <3>2. PICK p \in Int : u = d * p
      BY <1>2 DEF Exact, Multiple
    <3>3. d \in Int /\ q - p \in Int
      BY UnitAssumption
    <3>4. d * q - d * p = d * (q - p)
      BY <3>3
    <3>. QED BY <3>1, <3>2, <3>3, <3>4 DEF Multiple
  <2>. QED BY <2>1, <2>2 DEF Exact
<1>. QED BY <1>1, <1>2

\* A root is a number.
LEMMA RootIs == ASSUME NEW x \in Nat PROVE Root(x) \in Nat
<1>. DEFINE T == {r \in 0..x : r * r <= x}
<1>1. T \subseteq Nat /\ T # {} /\ \A r \in T : r <= x
  <2>1. 0 \in T
    OBVIOUS
  <2>. QED BY <2>1
<1>2. PICK m \in T : \A r \in T : r <= m
  <2>. HIDE DEF T
  <2>. QED BY <1>1, LargestOf
<1>3. m \in 0..x /\ m * m <= x /\ m \in Nat
  BY <1>2
<1>4. (m + 1) * (m + 1) > x
  <2>1. CASE m + 1 <= x
    <3>1. m + 1 \in 0..x /\ m + 1 \notin T /\ (m + 1) * (m + 1) \in Int
      BY <1>2, <1>3, <2>1
    <3>. QED BY <1>3, <3>1
  <2>2. CASE ~(m + 1 <= x)
    <3>1. m = x
      BY <1>3, <2>2
    <3>2. (x + 1) * (x + 1) = x * x + 2 * x + 1 /\ x * x >= 0 /\ x * x \in Int
      OBVIOUS
    <3>. QED BY <3>1, <3>2
  <2>. QED BY <2>1, <2>2
<1>5. \E r \in 0..x : r * r <= x /\ (r + 1) * (r + 1) > x
  BY <1>3, <1>4
<1>6. Root(x) \in 0..x
  BY <1>5 DEF Root
<1>. QED BY <1>6

\* So are the deviation of a measured window and the signal.
LEMMA SignalIs ==
    ASSUME NEW st, NEW vs, Measured(st, vs), NEW v \in Int
    PROVE  Deviation(st) \in Nat /\ ZScore(st, v) \in Int
<1>1. /\ st.n \in Nat /\ st.mean \in Int /\ st.m2 \in Int /\ vs \in Seq(Int) /\ st.n = Len(vs)
      /\ Len(vs) * st.mean = SumAll(vs)
      /\ st.m2 = SumAll(Squared(vs)) - Len(vs) * st.mean * st.mean
  BY Numbers DEF Measured
<1>2. st.m2 >= 0
  BY <1>1, AboutTheMean
<1>3. Deviation(st) \in Nat
  <2>1. CASE st.n >= 2
    <3>. DEFINE a == st.m2  n == st.n
    <3>1. a \in Nat /\ n \in Nat \ {0}
      BY <1>1, <1>2, <2>1
    <3>. HIDE DEF a, n
    <3>2. a \div n \in Nat
      BY <3>1
    <3>3. Root(a \div n) \in Nat
      BY <3>2, RootIs
    <3>. QED BY <2>1, <3>3 DEF Deviation, a, n
  <2>2. CASE ~(st.n >= 2)
    BY <2>2 DEF Deviation
  <2>. QED BY <2>1, <2>2
<1>. DEFINE d == Deviation(st)
<1>. HIDE DEF d
<1>4. d \in Nat /\ d = Deviation(st)
  BY <1>3 DEF d
<1>5. d # 0 => (v - st.mean) \div d \in Int
  <2>. DEFINE x == v - st.mean
  <2>1. x \in Int
    BY <1>1
  <2>. HIDE DEF x
  <2>2. d # 0 => x \div d \in Int
    BY <1>4, <2>1
  <2>. QED BY <2>2 DEF x
<1>6. ZScore(st, v) \in Int
  BY <1>4, <1>5 DEF ZScore
<1>. QED BY <1>3, <1>6

\* Both windows are measured, and there is no volatility without a move.
VolInv ==
    /\ Measured(moves, past.moves) /\ Measured(tilts, past.tilts)
    /\ \A m \in prevMid : m \in MidPrices /\ prevMid = {m}
    /\ warm \in Nat /\ (past.moves = <<>> => warm > 0)
    /\ vol \in Int /\ alpha \in Int

\* It holds at the start.
LEMMA VolStarts == VolInit => VolInv
<1>. SUFFICES ASSUME VolInit PROVE VolInv
  OBVIOUS
<1>1. moves = NoStats /\ tilts = NoStats /\ past.moves = <<>> /\ past.tilts = <<>>
  BY DEF VolInit
<1>2. Measured(moves, past.moves) /\ Measured(tilts, past.tilts)
  BY <1>1, EmptyIsMeasured
<1>3. warm \in Nat /\ warm > 0
  BY UnitAssumption DEF VolInit
<1>. QED BY <1>2, <1>3 DEF VolInit, VolInv

\* And after a reset.
LEMMA VolResets == VolInv /\ VolReset => VolInv'
<1>. SUFFICES ASSUME VolInv, VolReset PROVE VolInv'
  OBVIOUS
<1>1. moves' = Cleared(moves) /\ tilts' = Cleared(tilts)
      /\ past'.moves = <<>> /\ past'.tilts = <<>>
  BY DEF VolReset
<1>2. Measured(moves', past'.moves) /\ Measured(tilts', past'.tilts)
  BY <1>1, EmptyIsMeasured DEF VolInv
<1>3. warm' \in Nat /\ warm' > 0
  BY UnitAssumption DEF VolReset
<1>. QED BY <1>2, <1>3 DEF VolReset, VolInv

\* A book feeds both windows, and makes a volatility of what it fed.
LEMMA VolFeeds ==
    ASSUME VolInv, NEW mid \in MidPrices, NEW tilt \in Imbalances,
           NEW other \in {{}} \cup {{a} : a \in Overrides}, FeedBook(mid, tilt, other)
    PROVE  VolInv'
<1>1. mid \in Int /\ tilt \in Int /\ WindowSteps \in Nat \ {0} /\ MinWarmup \in Nat
  BY UnitAssumption
<1>2. Measured(tilts', past'.tilts)
  <2>1. tilts' = Pushed(tilts, tilt) /\ past'.tilts = Latest(Append(past.tilts, tilt))
    BY DEF FeedBook
  <2>2. Exact(tilt)
    BY FedIsExact
  <2>. QED BY <2>1, <2>2, PushedIs DEF VolInv
<1>3. /\ Measured(moves', past'.moves) /\ warm' \in Nat
      /\ past'.moves = <<>> => warm' > 0
  <2>1. CASE prevMid = {}
    <3>1. moves' = moves /\ past'.moves = past.moves /\ warm' = warm
      BY <2>1 DEF FeedBook
    <3>. QED BY <3>1 DEF VolInv
  <2>2. CASE prevMid # {}
    <3>1. PICK m \in MidPrices : prevMid = {m}
      BY <2>2 DEF VolInv
    <3>. DEFINE move == mid - m  vs == Append(past.moves, move)
    <3>2. (CHOOSE x \in prevMid : TRUE) = m
      BY <3>1
    <3>3. moves' = Pushed(moves, move) /\ past'.moves = Latest(vs)
          /\ warm' = IF warm = 0 THEN warm ELSE warm - 1
      BY <2>2, <3>2 DEF FeedBook
    <3>4. Exact(move)
      BY FedIsExact
    <3>5. Measured(moves', past'.moves)
      <4>. HIDE DEF move
      <4>. QED BY <3>3, <3>4, PushedIs DEF VolInv
    <3>6. warm' \in Nat
      BY <3>3 DEF VolInv
    <3>7. past'.moves # <<>>
      <4>1. past.moves \in Seq(Int) /\ Len(past.moves) \in Nat /\ move \in Int
        BY <3>4, Numbers DEF VolInv, Exact
      <4>. HIDE DEF move
      <4>2. vs \in Seq(Int) /\ Len(vs) = Len(past.moves) + 1
        BY <4>1
      <4>. HIDE DEF vs
      <4>3. vs # <<>> /\ (Len(vs) > WindowSteps => Len(Tail(vs)) > 0)
        BY <1>1, <4>1, <4>2
      <4>4. Latest(vs) # <<>>
        <5>1. Len(<<>>) = 0
          OBVIOUS
        <5>. DEFINE r == Tail(vs)
        <5>2. Latest(vs) = IF Len(vs) <= WindowSteps THEN vs ELSE r
          BY DEF Latest
        <5>. HIDE DEF r
        <5>3. Len(vs) > WindowSteps => Len(r) > 0
          BY <4>3 DEF r
        <5>. QED BY <1>1, <4>1, <4>2, <4>3, <5>1, <5>2, <5>3
      <4>. QED BY <3>3, <4>4 DEF vs
    <3>. QED BY <3>5, <3>6, <3>7
  <2>. QED BY <2>1, <2>2
<1>4. vol' \in Int /\ alpha' \in Int
  <2>1. CASE warm' > 0
    BY <2>1 DEF FeedBook, VolInv
  <2>2. CASE ~(warm' > 0)
    <3>1. vol' = Deviation(moves')
          /\ alpha' = IF other = {} THEN ZScore(tilts', tilt) ELSE CHOOSE a \in other : TRUE
      BY <2>2 DEF FeedBook
    <3>2. Deviation(moves') \in Nat /\ ZScore(tilts', tilt) \in Int
      BY <1>1, <1>2, <1>3, SignalIs
    <3>3. other # {} => (CHOOSE a \in other : TRUE) \in Int
      <4>1. other \subseteq Int
        BY UnitAssumption
      <4>2. other # {} => (CHOOSE a \in other : TRUE) \in other
        OBVIOUS
      <4>. QED BY <4>1, <4>2
    <3>. QED BY <3>1, <3>2, <3>3
  <2>. QED BY <2>1, <2>2
<1>5. \A m \in prevMid' : m \in MidPrices /\ prevMid' = {m}
  BY DEF FeedBook
<1>. QED BY <1>2, <1>3, <1>4, <1>5 DEF VolInv

\* Every step keeps it.
LEMMA VolSteps == VolInv /\ [VolNext]_volVars => VolInv'
<1>. SUFFICES ASSUME VolInv, [VolNext]_volVars PROVE VolInv'
  OBVIOUS
<1>1. CASE UNCHANGED volVars
  BY <1>1 DEF VolInv, volVars, Measured
<1>2. CASE VolNext
  BY <1>2, VolFeeds, VolResets DEF VolNext
<1>. QED BY <1>1, <1>2

\* A quote is apart, and off the middle by what it must be.
LEMMA SpreadIs ==
    ASSUME VolInv, NEW mid \in prevMid, NEW quarters \in -5..5
    PROVE  LET s == Spread(mid, quarters)
           IN  /\ s # <<>> =>
                    /\ s[1] < s[2]
                    /\ MinHalf > 0 => s[1] <= mid - MinHalf /\ s[2] >= mid + MinHalf
               /\ past.moves = <<>> => s = <<>>
<1>. DEFINE q == IF quarters > 4 THEN 4 ELSE IF quarters < -4 THEN -4 ELSE quarters
            fair == mid + alpha
            bid == fair - (vol * (4 + q)) \div 4
            ask == fair + (vol * (4 - q)) \div 4
            low == IF MinHalf > 0 /\ bid > mid - MinHalf THEN mid - MinHalf ELSE bid
            high == IF MinHalf > 0 /\ ask < mid + MinHalf THEN mid + MinHalf ELSE ask
            down == (low \div TickSize) * TickSize
            up == -((-high) \div TickSize) * TickSize
            s == Spread(mid, quarters)
<1>1. /\ mid \in Int /\ alpha \in Int /\ vol \in Int /\ warm \in Nat
      /\ MinHalf \in Nat /\ TickSize \in Nat \ {0}
  BY UnitAssumption DEF VolInv
<1>2. s = IF warm > 0 \/ down >= up THEN <<>> ELSE <<down, up>>
  BY DEF Spread
<1>3. bid \in Int /\ ask \in Int
  <2>1. q \in Int
    OBVIOUS
  <2>. HIDE DEF q
  <2>. DEFINE x == vol * (4 + q)  y == vol * (4 - q)
  <2>2. x \in Int /\ y \in Int
    BY <1>1, <2>1
  <2>. HIDE DEF x, y
  <2>3. x \div 4 \in Int /\ y \div 4 \in Int
    BY <2>2
  <2>. QED BY <1>1, <2>3 DEF x, y
<1>. HIDE DEF bid, ask, fair, q
<1>4. /\ low \in Int /\ high \in Int
      /\ MinHalf > 0 => low <= mid - MinHalf /\ high >= mid + MinHalf
  BY <1>1, <1>3
<1>. HIDE DEF low, high
<1>. DEFINE Floor(x) == (x \div TickSize) * TickSize
<1>5. \A x \in Int : Floor(x) \in Int /\ Floor(x) <= x
  BY <1>1
<1>6. down \in Int /\ up \in Int /\ down <= low /\ up >= high
  <2>1. down = Floor(low) /\ up = -Floor(-high)
    OBVIOUS
  <2>2. -high \in Int
    BY <1>4
  <2>. HIDE DEF down, up, Floor
  <2>3. Floor(low) \in Int /\ Floor(low) <= low /\ Floor(-high) \in Int /\ Floor(-high) <= -high
    BY <1>4, <1>5, <2>2
  <2>. QED BY <1>4, <2>1, <2>3
<1>. HIDE DEF s, down, up
<1>7. s # <<>> => /\ s[1] < s[2]
                  /\ MinHalf > 0 => s[1] <= mid - MinHalf /\ s[2] >= mid + MinHalf
  <2>. HAVE s # <<>>
  <2>1. s = <<down, up>> /\ ~(down >= up)
    BY <1>2
  <2>2. s[1] = down /\ s[2] = up
    BY <2>1
  <2>. QED BY <1>1, <1>4, <1>6, <2>1, <2>2
<1>8. past.moves = <<>> => s = <<>>
  BY <1>2 DEF VolInv
<1>. QED BY <1>7, <1>8 DEF s

\* What the windows say is exact, and what is quoted from it keeps its distance.
LEMMA WindowsHold == VolInv => MomentsAgree /\ SpreadKeepsFloor
<1>. SUFFICES ASSUME VolInv PROVE MomentsAgree /\ SpreadKeepsFloor
  OBVIOUS
<1>1. MomentsOf(moves, past.moves) /\ MomentsOf(tilts, past.tilts)
  BY MeasuredAgrees DEF VolInv
<1>2. ASSUME NEW mid \in prevMid, NEW quarters \in -5..5
      PROVE  LET s == Spread(mid, quarters)
             IN  /\ s # <<>> =>
                      /\ s[1] < s[2]
                      /\ MinHalf > 0 => s[1] <= mid - MinHalf /\ s[2] >= mid + MinHalf
                 /\ past.moves = <<>> => s = <<>>
  BY SpreadIs
<1>. QED BY <1>1, <1>2 DEF MomentsAgree, SpreadKeepsFloor

\* For any window length, any run of middle prices and signals, evictions and resets, the
\* windows have the mean and the squared deviations of exactly the last values, and a
\* quote made from them never crosses and keeps its least distance from the middle.
THEOREM WindowsAreMeasured == VolSpec => [](MomentsAgree /\ SpreadKeepsFloor)
<1>. QED BY VolStarts, VolSteps, WindowsHold, PTL DEF VolSpec

-----------------------------------------------------------------------------
(* TradeFlow: whose trades the fits are made from. *)

FlowEvents == [id : FlowTrades, side : Pressure, age : Nat]
StillRecent == {e \in FlowEvents : e.age <= FlowWindow}
DueOn(s) == {e \in FlowEvents : Due(e) /\ e.side = s}
Undue == {e \in FlowEvents : ~Due(e)}
NewAge == [e \in FlowEvents |-> [e EXCEPT !.age = 0]]
MoreAge == [e \in FlowEvents |-> [e EXCEPT !.age = IF @ > FlowWindow THEN @ ELSE @ + 1]]

\* Of the trades in the window, of those that wait for a mark, and of the marks of a side,
\* what is in each of them was heard, and is in it once, and in one of the last two.
FlowTypes ==
    /\ trades \in Seq(FlowEvents) /\ unmarked \in Seq(FlowEvents)
    /\ marks \in [Pressure -> Seq(FlowEvents)]
    /\ quoted \in {"nothing", "estimates", "base", "refused"}
FlowHeard ==
    /\ Named(trades) \subseteq heard \cup gone /\ Named(unmarked) \subseteq heard \cup gone
    /\ \A s \in Pressure : Named(marks[s]) \subseteq heard \cup gone
FlowApart ==
    /\ Distinct(trades, gone) /\ Distinct(unmarked, gone)
    /\ \A s \in Pressure : Distinct(marks[s], gone)
    /\ Named(marks["plus"]) \cap Named(marks["minus"]) \subseteq gone
    /\ \A s \in Pressure : Named(unmarked) \cap Named(marks[s]) \subseteq gone
FlowInv == FlowTypes /\ FlowHeard /\ FlowApart /\ quoted # "base"

\* A sequence that is another's, or a part of it.
PartOf(r, s) ==
    /\ r \in Seq(FlowEvents) /\ Named(r) \subseteq Named(s)
    /\ \A some : Distinct(s, some) => Distinct(r, some)

\* What the window leaves of a sequence.
LEMMA RecentIs ==
    ASSUME NEW s \in Seq(FlowEvents)
    PROVE  PartOf(Recent(s), s)
<1>1. \A i \in DOMAIN s : s[i] \in FlowEvents
  OBVIOUS
<1>2. {i \in DOMAIN s : s[i].age <= FlowWindow} = {i \in DOMAIN s : s[i] \in StillRecent}
  BY <1>1 DEF StillRecent
<1>3. Recent(s) = Those(s, StillRecent)
  BY <1>2 DEF Recent, Those
<1>4. Those(s, StillRecent) \in Seq(FlowEvents) /\ Named(Those(s, StillRecent)) \subseteq Named(s)
  BY ThoseType, ThoseAre DEF Named
<1>5. \A some : Distinct(s, some) => Distinct(Those(s, StillRecent), some)
  BY DistinctOfThose
<1>. QED BY <1>3, <1>4, <1>5 DEF PartOf

\* Time changes no identity.
LEMMA OlderIs ==
    ASSUME NEW s \in Seq(FlowEvents)
    PROVE  PartOf(Older(s), s)
<1>1. MoreAge \in [FlowEvents -> FlowEvents] /\ \A e \in FlowEvents : MoreAge[e].id = e.id
  <2>1. ASSUME NEW e \in FlowEvents
        PROVE  LET o == [e EXCEPT !.age = IF @ > FlowWindow THEN @ ELSE @ + 1]
               IN  o \in FlowEvents /\ o.id = e.id
    BY DEF FlowEvents
  <2>. QED BY <2>1 DEF MoreAge
<1>2. \A i \in DOMAIN s : s[i] \in FlowEvents
  OBVIOUS
<1>3. Older(s) = Mapped(s, MoreAge)
  <2>1. \A i \in DOMAIN s :
           MoreAge[s[i]] = [s[i] EXCEPT !.age = IF @ > FlowWindow THEN @ ELSE @ + 1]
    BY <1>2 DEF MoreAge
  <2>. QED BY <2>1 DEF Older, Mapped
<1>. HIDE DEF MoreAge
<1>4. Mapped(s, MoreAge) \in Seq(FlowEvents)
  BY <1>1, MappedType
<1>5. AlikeBy(s, Mapped(s, MoreAge))
  BY <1>1, <1>2 DEF AlikeBy, Mapped
<1>6. Named(s) = Named(Mapped(s, MoreAge))
      /\ \A some : Distinct(s, some) => Distinct(Mapped(s, MoreAge), some)
  BY <1>5, AlikeIs
<1>. QED BY <1>3, <1>4, <1>6 DEF PartOf

\* The trades of a side that are marked at a book update, and those that wait on.
MarkedNow(s) == Those(unmarked, DueOn(s))

\* What waits on is a part of what waited.
LEMMA StillWaitingIs ==
    ASSUME FlowTypes
    PROVE  PartOf(StillWaiting, unmarked) /\ StillWaiting = Those(unmarked, Undue)
<1>1. unmarked \in Seq(FlowEvents) /\ \A i \in DOMAIN unmarked : unmarked[i] \in FlowEvents
  BY DEF FlowTypes
<1>2. {i \in DOMAIN unmarked : ~Due(unmarked[i])} = {i \in DOMAIN unmarked : unmarked[i] \in Undue}
  BY <1>1 DEF Undue
<1>3. StillWaiting = Those(unmarked, Undue)
  BY <1>2 DEF StillWaiting, Those
<1>4. Those(unmarked, Undue) \in Seq(FlowEvents)
      /\ Named(Those(unmarked, Undue)) \subseteq Named(unmarked)
  BY <1>1, ThoseType, ThoseAre DEF Named
<1>5. \A some : Distinct(unmarked, some) => Distinct(Those(unmarked, Undue), some)
  BY <1>1, DistinctOfThose
<1>. QED BY <1>3, <1>4, <1>5 DEF PartOf

\* The marks of a side get what is due of it, in its order.
LEMMA MarkedIs ==
    ASSUME FlowTypes, NEW s \in Pressure
    PROVE  /\ PartOf(MarkedNow(s), unmarked)
           /\ Marked(s) \in Seq(FlowEvents)
           /\ Named(Marked(s)) = Named(marks[s]) \cup Named(MarkedNow(s))
           /\ \A some : /\ Distinct(marks[s], some) /\ Distinct(MarkedNow(s), some)
                        /\ Named(marks[s]) \cap Named(MarkedNow(s)) \subseteq some
                        => Distinct(Marked(s), some)
<1>. DEFINE due == MarkedNow(s)
            new == Mapped(due, NewAge)
<1>1. /\ unmarked \in Seq(FlowEvents) /\ marks[s] \in Seq(FlowEvents)
      /\ \A i \in DOMAIN unmarked : unmarked[i] \in FlowEvents
  BY DEF FlowTypes
<1>2. due \in Seq(FlowEvents) /\ Named(due) \subseteq Named(unmarked)
  BY <1>1, ThoseType, ThoseAre DEF Named, MarkedNow
<1>3. PartOf(due, unmarked)
  <2>1. \A some : Distinct(unmarked, some) => Distinct(due, some)
    BY <1>1, DistinctOfThose DEF MarkedNow
  <2>. QED BY <1>2, <2>1 DEF PartOf
<1>4. NewAge \in [FlowEvents -> FlowEvents] /\ \A e \in FlowEvents : NewAge[e].id = e.id
  <2>1. ASSUME NEW e \in FlowEvents
        PROVE  [e EXCEPT !.age = 0] \in FlowEvents /\ [e EXCEPT !.age = 0].id = e.id
    BY DEF FlowEvents
  <2>. QED BY <2>1 DEF NewAge
<1>5. Marked(s) = marks[s] \o new
  <2>1. {i \in DOMAIN unmarked : Due(unmarked[i]) /\ unmarked[i].side = s}
            = {i \in DOMAIN unmarked : unmarked[i] \in DueOn(s)}
    BY <1>1 DEF DueOn
  <2>2. due = KeptAt(unmarked, {i \in DOMAIN unmarked : Due(unmarked[i]) /\ unmarked[i].side = s})
    BY <2>1 DEF MarkedNow, Those
  <2>. HIDE DEF due
  <2>3. \A i \in DOMAIN due : NewAge[due[i]] = [due[i] EXCEPT !.age = 0]
    <3>1. \A i \in DOMAIN due : due[i] \in FlowEvents
      BY <1>2
    <3>. QED BY <3>1 DEF NewAge
  <2>4. new = [i \in DOMAIN due |-> [due[i] EXCEPT !.age = 0]]
    BY <2>3 DEF Mapped
  <2>. HIDE DEF new
  <2>. QED BY <2>2, <2>4 DEF Marked
<1>. HIDE DEF due, NewAge
<1>6. new \in Seq(FlowEvents)
  BY <1>2, <1>4, MappedType
<1>7. AlikeBy(due, new)
  <2>1. \A i \in DOMAIN due : due[i] \in FlowEvents
    BY <1>2
  <2>. QED BY <1>4, <2>1 DEF AlikeBy, Mapped
<1>. HIDE DEF new
<1>8. Named(new) = Named(due) /\ \A some : Distinct(due, some) => Distinct(new, some)
  BY <1>7, AlikeIs
<1>9. Named(marks[s] \o new) = Named(marks[s]) \cup Named(due)
  <2>1. Contents(marks[s] \o new) = Contents(marks[s]) \cup Contents(new)
    BY <1>1, <1>6, ItemsOfBoth
  <2>2. Named(marks[s] \o new) = Named(marks[s]) \cup Named(new)
    BY <2>1 DEF Named
  <2>. QED BY <1>8, <2>2
<1>10. ASSUME NEW some, Distinct(marks[s], some), Distinct(due, some),
              Named(marks[s]) \cap Named(due) \subseteq some
       PROVE  Distinct(marks[s] \o new, some)
  <2>1. Distinct(new, some) /\ Named(marks[s]) \cap Named(new) \subseteq some
    BY <1>8, <1>10
  <2>. QED BY <1>1, <1>6, <1>10, <2>1, DistinctOfBoth
<1>11. marks[s] \o new \in Seq(FlowEvents)
  BY <1>1, <1>6
<1>. QED BY <1>3, <1>5, <1>9, <1>10, <1>11 DEF due

\* A part of a sequence has no more in it, and nothing twice that it had not.
LEMMA PartsNamed ==
    ASSUME NEW r, NEW s, PartOf(r, s), NEW some
    PROVE  /\ r \in Seq(FlowEvents) /\ Named(r) \subseteq Named(s)
           /\ Distinct(s, some) => Distinct(r, some)
BY DEF PartOf

\* What was distinct stays so as identities are forgotten.
LEMMA ForgettingIs ==
    ASSUME NEW s, NEW some, Distinct(s, some), NEW more, some \subseteq more
    PROVE  Distinct(s, more)
BY DEF Distinct

\* A new event behind a sequence: its trade was not heard, or was forgotten.
LEMMA NewEventIs ==
    ASSUME NEW s \in Seq(FlowEvents), Named(s) \subseteq heard \cup gone, Distinct(s, gone),
           NEW e \in FlowEvents, e.id \notin heard
    PROVE  /\ Append(s, e) \in Seq(FlowEvents)
           /\ Named(Append(s, e)) = Named(s) \cup {e.id}
           /\ Distinct(Append(s, e), gone)
<1>1. Append(s, e) \in Seq(FlowEvents) /\ Contents(Append(s, e)) = Contents(s) \cup {e}
  BY ItemsOfAppend
<1>2. Named(Append(s, e)) = Named(s) \cup {e.id}
  BY <1>1 DEF Named
<1>3. e.id \in Named(s) => e.id \in gone
  OBVIOUS
<1>4. Distinct(Append(s, e), gone)
  BY <1>3, DistinctOfAppend
<1>. QED BY <1>1, <1>2, <1>4

\* A trade that is heard is kept once in the window, and waits once for its mark.
LEMMA HearTradeHolds ==
    ASSUME FlowInv, NEW id \in FlowTrades, NEW side \in Pressure, NEW usable \in BOOLEAN,
           HearTrade(id, side, usable)
    PROVE  FlowInv'
<1>. DEFINE e == [id |-> id, side |-> side, age |-> 0]
<1>1. /\ id \notin heard /\ quoted' = quoted
      /\ \/ /\ usable /\ trades' = Recent(Append(trades, e)) /\ unmarked' = Recent(Append(unmarked, e))
            /\ marks' = [s \in Pressure |-> Recent(marks[s])]
         \/ /\ ~usable /\ trades' = trades /\ unmarked' = unmarked /\ marks' = marks
  BY DEF HearTrade
<1>2. gone \subseteq gone' /\ heard \cup {id} \subseteq heard' \cup gone'
  BY DEF HearTrade, SeenWith
<1>3. e \in FlowEvents /\ e.id = id
  BY DEF FlowEvents
<1>. HIDE DEF e
<1>4. /\ trades \in Seq(FlowEvents) /\ unmarked \in Seq(FlowEvents)
      /\ \A s \in Pressure : marks[s] \in Seq(FlowEvents)
      /\ marks \in [Pressure -> Seq(FlowEvents)] /\ Pressure = {"plus", "minus"}
  BY DEF FlowInv, FlowTypes, Pressure
<1>5. CASE ~usable
  <2>1. FlowTypes' /\ quoted' # "base"
    BY <1>1, <1>5 DEF FlowInv, FlowTypes
  <2>2. FlowHeard'
    BY <1>1, <1>2, <1>5 DEF FlowInv, FlowHeard
  <2>3. FlowApart'
    <3>1. /\ Distinct(trades, gone') /\ Distinct(unmarked, gone')
          /\ \A s \in Pressure : Distinct(marks[s], gone')
      BY <1>2, ForgettingIs DEF FlowInv, FlowApart
    <3>. QED BY <1>1, <1>2, <1>5, <3>1 DEF FlowInv, FlowApart
  <2>. QED BY <2>1, <2>2, <2>3 DEF FlowInv
<1>6. CASE usable
  <2>. DEFINE t == Append(trades, e)
              u == Append(unmarked, e)
  <2>1. /\ t \in Seq(FlowEvents) /\ Named(t) = Named(trades) \cup {id} /\ Distinct(t, gone)
        /\ u \in Seq(FlowEvents) /\ Named(u) = Named(unmarked) \cup {id} /\ Distinct(u, gone)
    BY <1>1, <1>3, <1>4, NewEventIs DEF FlowInv, FlowHeard, FlowApart
  <2>. HIDE DEF t, u
  <2>2. /\ trades' = Recent(t) /\ unmarked' = Recent(u)
        /\ marks' = [s \in Pressure |-> Recent(marks[s])]
    BY <1>1, <1>6 DEF t, u
  <2>3. PartOf(trades', t) /\ PartOf(unmarked', u) /\ \A s \in Pressure : PartOf(marks'[s], marks[s])
    BY <1>4, <2>1, <2>2, RecentIs
  <2>4. /\ trades' \in Seq(FlowEvents) /\ unmarked' \in Seq(FlowEvents)
        /\ \A s \in Pressure : marks'[s] \in Seq(FlowEvents)
        /\ Named(trades') \subseteq Named(trades) \cup {id}
        /\ Named(unmarked') \subseteq Named(unmarked) \cup {id}
        /\ \A s \in Pressure : Named(marks'[s]) \subseteq Named(marks[s])
    BY <2>1, <2>3, PartsNamed
  <2>5. FlowTypes' /\ quoted' # "base"
    BY <1>1, <2>2, <2>4 DEF FlowInv, FlowTypes
  <2>6. FlowHeard'
    BY <1>2, <2>4 DEF FlowInv, FlowHeard
  <2>7. /\ Distinct(trades', gone) /\ Distinct(unmarked', gone)
        /\ \A s \in Pressure : Distinct(marks'[s], gone)
    BY <2>1, <2>3, PartsNamed DEF FlowInv, FlowApart
  <2>8. /\ Distinct(trades', gone') /\ Distinct(unmarked', gone')
        /\ \A s \in Pressure : Distinct(marks'[s], gone')
    BY <1>2, <2>7, ForgettingIs
  <2>9. Named(marks'["plus"]) \cap Named(marks'["minus"]) \subseteq gone'
    BY <1>2, <1>4, <2>4 DEF FlowInv, FlowApart
  <2>10. \A s \in Pressure : Named(unmarked') \cap Named(marks'[s]) \subseteq gone'
    <3>1. \A s \in Pressure : id \in Named(marks[s]) => id \in gone
      BY <1>1 DEF FlowInv, FlowHeard
    <3>. QED BY <1>2, <2>4, <3>1 DEF FlowInv, FlowApart
  <2>11. FlowApart'
    BY <2>8, <2>9, <2>10 DEF FlowApart
  <2>. QED BY <2>5, <2>6, <2>11 DEF FlowInv
<1>. QED BY <1>5, <1>6

\* A book update marks every trade that is due, on its side, and lets none wait on that
\* it marked.
LEMMA FlowBookHolds ==
    ASSUME FlowInv, FlowBook
    PROVE  FlowInv'
<1>1. /\ trades' = Recent(trades) /\ unmarked' = Recent(StillWaiting)
      /\ marks' = [s \in Pressure |-> Recent(Marked(s))]
      /\ heard' = heard /\ gone' = gone /\ quoted' = quoted
  BY DEF FlowBook
<1>2. FlowTypes /\ FlowHeard /\ FlowApart /\ quoted # "base" /\ Pressure = {"plus", "minus"}
      /\ trades \in Seq(FlowEvents) /\ unmarked \in Seq(FlowEvents)
  BY DEF FlowInv, FlowTypes, Pressure
<1>3. PartOf(StillWaiting, unmarked) /\ StillWaiting = Those(unmarked, Undue)
  BY <1>2, StillWaitingIs
<1>4. \A s \in Pressure : /\ PartOf(MarkedNow(s), unmarked) /\ Marked(s) \in Seq(FlowEvents)
                          /\ Named(Marked(s)) = Named(marks[s]) \cup Named(MarkedNow(s))
  BY <1>2, MarkedIs
<1>5. \A s \in Pressure : Named(MarkedNow(s)) \subseteq Named(unmarked)
  BY <1>4, PartsNamed
<1>6. \A s \in Pressure : Distinct(Marked(s), gone)
  <2>. TAKE s \in Pressure
  <2>1. /\ Distinct(marks[s], gone) /\ Distinct(MarkedNow(s), gone)
        /\ Named(marks[s]) \cap Named(MarkedNow(s)) \subseteq gone
    BY <1>2, <1>4, <1>5, PartsNamed DEF FlowApart
  <2>. QED BY <1>2, <2>1, MarkedIs
<1>7. \A s \in Pressure : Named(StillWaiting) \cap Named(MarkedNow(s)) \subseteq gone
  <2>. TAKE s \in Pressure
  <2>1. Undue \cap DueOn(s) = {}
    BY DEF Undue, DueOn
  <2>. QED BY <1>2, <1>3, <2>1, ThoseApart DEF FlowApart, MarkedNow
<1>8. Named(MarkedNow("plus")) \cap Named(MarkedNow("minus")) \subseteq gone
  <2>1. DueOn("plus") \cap DueOn("minus") = {}
    BY DEF DueOn
  <2>. QED BY <1>2, <2>1, ThoseApart DEF FlowApart, MarkedNow
<1>9. StillWaiting \in Seq(FlowEvents) /\ Named(StillWaiting) \subseteq Named(unmarked)
      /\ Distinct(StillWaiting, gone)
  BY <1>2, <1>3, PartsNamed DEF FlowApart
<1>10. /\ PartOf(trades', trades) /\ PartOf(unmarked', StillWaiting)
       /\ \A s \in Pressure : PartOf(marks'[s], Marked(s))
  BY <1>1, <1>2, <1>4, <1>9, RecentIs
<1>11. /\ trades' \in Seq(FlowEvents) /\ unmarked' \in Seq(FlowEvents)
       /\ \A s \in Pressure : marks'[s] \in Seq(FlowEvents)
       /\ Named(trades') \subseteq Named(trades) /\ Named(unmarked') \subseteq Named(StillWaiting)
       /\ \A s \in Pressure : Named(marks'[s]) \subseteq Named(marks[s]) \cup Named(MarkedNow(s))
  BY <1>4, <1>10, PartsNamed
<1>12. FlowTypes' /\ quoted' # "base"
  BY <1>1, <1>2, <1>11 DEF FlowTypes
<1>13. FlowHeard'
  BY <1>1, <1>2, <1>5, <1>9, <1>11 DEF FlowHeard
<1>14. /\ Distinct(trades', gone') /\ Distinct(unmarked', gone')
       /\ \A s \in Pressure : Distinct(marks'[s], gone')
  BY <1>1, <1>2, <1>6, <1>9, <1>10, PartsNamed DEF FlowApart
<1>15. Named(marks'["plus"]) \cap Named(marks'["minus"]) \subseteq gone'
  BY <1>1, <1>2, <1>5, <1>8, <1>11 DEF FlowApart
<1>16. \A s \in Pressure : Named(unmarked') \cap Named(marks'[s]) \subseteq gone'
  BY <1>1, <1>2, <1>7, <1>9, <1>11 DEF FlowApart
<1>17. FlowApart'
  BY <1>14, <1>15, <1>16 DEF FlowApart
<1>. QED BY <1>12, <1>13, <1>17 DEF FlowInv

\* The gate lets no tick through on parameters that were not blended with the estimates,
\* unless they were refused.
LEMMA FlowTickHolds ==
    ASSUME FlowInv, NEW accepted \in BOOLEAN, FlowTick(accepted)
    PROVE  FlowInv'
<1>1. trades' = trades /\ unmarked' = unmarked /\ marks' = marks /\ heard' = heard /\ gone' = gone
  BY DEF FlowTick
<1>2. quoted' = IF ~summary THEN "nothing" ELSE IF blended' THEN "estimates"
                ELSE IF accepted THEN "base" ELSE "refused"
  BY DEF FlowTick
<1>3. summary /\ accepted => blended'
  <2>1. CASE summary /\ accepted /\ (sinceRefresh >= RefreshEvery \/ Forced)
    BY <2>1 DEF FlowTick, Refreshed
  <2>2. CASE summary /\ ~(sinceRefresh >= RefreshEvery \/ Forced)
    BY <2>2 DEF FlowTick, Forced
  <2>. QED BY <2>1, <2>2
<1>4. quoted' \in {"nothing", "estimates", "base", "refused"} /\ quoted' # "base"
  BY <1>2, <1>3
<1>5. FlowTypes' /\ FlowHeard' /\ FlowApart'
  BY <1>1, <1>4 DEF FlowInv, FlowTypes, FlowHeard, FlowApart
<1>. QED BY <1>4, <1>5 DEF FlowInv

\* Time passes and changes no identity.
LEMMA FlowElapseHolds ==
    ASSUME FlowInv, FlowElapse
    PROVE  FlowInv'
<1>1. /\ trades' = Older(trades) /\ unmarked' = Older(unmarked)
      /\ marks' = [s \in Pressure |-> Older(marks[s])]
      /\ heard' = heard /\ gone' = gone /\ quoted' = quoted
  BY DEF FlowElapse
<1>2. FlowTypes /\ FlowHeard /\ FlowApart /\ quoted # "base" /\ Pressure = {"plus", "minus"}
      /\ trades \in Seq(FlowEvents) /\ unmarked \in Seq(FlowEvents)
      /\ \A s \in Pressure : marks[s] \in Seq(FlowEvents)
  BY DEF FlowInv, FlowTypes, Pressure
<1>3. /\ PartOf(trades', trades) /\ PartOf(unmarked', unmarked)
      /\ \A s \in Pressure : PartOf(marks'[s], marks[s])
  BY <1>1, <1>2, OlderIs
<1>4. /\ trades' \in Seq(FlowEvents) /\ unmarked' \in Seq(FlowEvents)
      /\ \A s \in Pressure : marks'[s] \in Seq(FlowEvents)
      /\ Named(trades') \subseteq Named(trades) /\ Named(unmarked') \subseteq Named(unmarked)
      /\ \A s \in Pressure : Named(marks'[s]) \subseteq Named(marks[s])
      /\ Distinct(trades', gone) /\ Distinct(unmarked', gone)
      /\ \A s \in Pressure : Distinct(marks'[s], gone)
  BY <1>2, <1>3, PartsNamed DEF FlowApart
<1>5. FlowTypes' /\ quoted' # "base"
  BY <1>1, <1>2, <1>4 DEF FlowTypes
<1>6. FlowHeard'
  BY <1>1, <1>2, <1>4 DEF FlowHeard
<1>7. FlowApart'
  BY <1>1, <1>2, <1>4 DEF FlowApart
<1>. QED BY <1>5, <1>6, <1>7 DEF FlowInv

\* At the start nothing was heard.
LEMMA FlowStarts == FlowInit => FlowInv
<1>. SUFFICES ASSUME FlowInit PROVE FlowInv
  OBVIOUS
<1>1. /\ trades = << >> /\ unmarked = << >> /\ marks = [s \in Pressure |-> << >>]
      /\ quoted = "nothing"
  BY DEF FlowInit
<1>2. << >> \in Seq(FlowEvents) /\ Named(<< >>) = {} /\ Distinct(<< >>, gone)
  BY DEF Named, Contents, Distinct
<1>3. \A s \in Pressure : marks[s] = << >>
  BY <1>1
<1>4. FlowTypes
  BY <1>1, <1>2 DEF FlowTypes
<1>5. FlowHeard
  BY <1>1, <1>2, <1>3 DEF FlowHeard
<1>6. FlowApart
  BY <1>1, <1>2, <1>3 DEF FlowApart, Pressure
<1>. QED BY <1>1, <1>4, <1>5, <1>6 DEF FlowInv

\* Every step keeps it.
LEMMA FlowSteps == FlowInv /\ [FlowNext]_flowVars => FlowInv'
<1>. SUFFICES ASSUME FlowInv, [FlowNext]_flowVars PROVE FlowInv'
  OBVIOUS
<1>1. ASSUME NEW id \in FlowTrades, NEW side \in Pressure, NEW usable \in BOOLEAN,
             HearTrade(id, side, usable)
      PROVE  FlowInv'
  BY <1>1, HearTradeHolds
<1>2. CASE FlowBook
  BY <1>2, FlowBookHolds
<1>3. ASSUME NEW accepted \in BOOLEAN, FlowTick(accepted) PROVE FlowInv'
  BY <1>3, FlowTickHolds
<1>4. CASE FlowElapse
  BY <1>4, FlowElapseHolds
<1>5. CASE UNCHANGED flowVars
  BY <1>5 DEF flowVars, FlowInv, FlowTypes, FlowHeard, FlowApart
<1>. QED BY <1>1, <1>2, <1>3, <1>4, <1>5 DEF FlowNext

\* The invariant is what the property says of the windows and of the gate.
LEMMA TradesAreRested == FlowInv => QuotesRestOnTrades
<1>. SUFFICES ASSUME FlowInv PROVE QuotesRestOnTrades
  OBVIOUS
<1>1. \A s : (Distinct(s, gone) => Once(s)) /\ Ids(s) = Named(s)
  BY DEF Distinct, Once, Ids, Named, Contents
<1>2. Once(trades) /\ Once(unmarked) /\ \A s \in Pressure : Once(marks[s])
  BY <1>1 DEF FlowInv, FlowApart
<1>3. Ids(marks["plus"]) \cap Ids(marks["minus"]) \subseteq gone
  BY <1>1 DEF FlowInv, FlowApart
<1>4. Ids(unmarked) \cap UNION {Ids(marks[s]) : s \in Pressure} \subseteq gone
  BY <1>1 DEF FlowInv, FlowApart
<1>. QED BY <1>2, <1>3, <1>4 DEF FlowInv, QuotesRestOnTrades

\* However often a public trade is announced, for any window, deadline and bound on the
\* identities kept, it counts once, waits for one mark and gets one; and a tick that the
\* gate lets through quotes on parameters blended from such trades, or on refused ones.
THEOREM FlowTradesCountOnce == FlowSpec => []QuotesRestOnTrades
<1>. QED BY FlowStarts, FlowSteps, TradesAreRested, PTL DEF FlowSpec

-----------------------------------------------------------------------------
(* LiveMetrics: what becomes of a fill. *)

Fills == [id : FillIds, side : FillSides, age : Nat, done : SUBSET Horizons]
Samples == [id : FillIds, side : FillSides, bad : BOOLEAN, age : Nat]
InWindow == {e \in Samples : e.age <= MarkWindow}
OnSide(s) == {e \in Samples : e.side = s}
DueAt(h) == {e \in Fills : DueFor(e, h)}
Incomplete == {e \in Fills : ~Complete(e)}
NowDone == [e \in Fills |-> [e EXCEPT !.done = @ \cup {h \in Horizons : DueFor(e, h)}]]

MetricsTypes ==
    /\ unsettled \in Seq(Fills)
    /\ samples \in [Horizons -> Seq(Samples)]
    /\ bySide \in [Horizons -> [FillSides -> Seq(Samples)]]
    /\ lines \in [FillIds \X Horizons -> Nat] /\ filled \subseteq FillIds

\* A fill waits in one place, and nothing was written of a fill that was not recorded.
FillsApart ==
    /\ Distinct(unsettled, {}) /\ Named(unsettled) \subseteq filled
    /\ \A id \in FillIds \ filled, h \in Horizons : lines[<<id, h>>] = 0 /\ <<id, h>> \notin lost

MetricsInv == MetricsTypes /\ FillsApart /\ MarkedOnce

\* What the samples of a side are, and what the window leaves of samples.
LEMMA OfSideIs ==
    ASSUME NEW r \in Seq(Samples), NEW s
    PROVE  /\ OfSide(r, s) = Those(r, OnSide(s)) /\ Pruned(r) = Those(r, InWindow)
           /\ OfSide(r, s) \in Seq(Samples) /\ Pruned(r) \in Seq(Samples)
<1>1. \A i \in DOMAIN r : r[i] \in Samples
  OBVIOUS
<1>2. {i \in DOMAIN r : r[i].side = s} = {i \in DOMAIN r : r[i] \in OnSide(s)}
  BY <1>1 DEF OnSide
<1>3. {i \in DOMAIN r : r[i].age <= MarkWindow} = {i \in DOMAIN r : r[i] \in InWindow}
  BY <1>1 DEF InWindow
<1>4. OfSide(r, s) = Those(r, OnSide(s)) /\ Pruned(r) = Those(r, InWindow)
  BY <1>2, <1>3 DEF OfSide, Pruned, Those
<1>5. Those(r, OnSide(s)) \in Seq(Samples) /\ Those(r, InWindow) \in Seq(Samples)
  BY ThoseType
<1>. QED BY <1>4, <1>5

\* The samples of a side are the same whether the side is picked before new ones come, or
\* after.
LEMMA OfSideOfBoth ==
    ASSUME NEW r \in Seq(Samples), NEW x \in Seq(Samples), NEW s
    PROVE  OfSide(r \o x, s) = OfSide(r, s) \o OfSide(x, s) /\ r \o x \in Seq(Samples)
<1>1. r \o x \in Seq(Samples)
  OBVIOUS
<1>2. Those(r \o x, OnSide(s)) = Those(r, OnSide(s)) \o Those(x, OnSide(s))
  BY ThoseOfBoth
<1>. QED BY <1>1, <1>2, OfSideIs

\* Nor does it matter whether it is picked before or after the old ones go.
LEMMA OfSidePruned ==
    ASSUME NEW r \in Seq(Samples), NEW s
    PROVE  OfSide(Pruned(r), s) = Pruned(OfSide(r, s)) /\ Pruned(r) \in Seq(Samples)
<1>1. Pruned(r) = Those(r, InWindow) /\ OfSide(r, s) = Those(r, OnSide(s))
      /\ Pruned(r) \in Seq(Samples) /\ OfSide(r, s) \in Seq(Samples)
  BY OfSideIs
<1>2. OfSide(Pruned(r), s) = Those(Pruned(r), OnSide(s))
      /\ Pruned(OfSide(r, s)) = Those(OfSide(r, s), InWindow)
  BY <1>1, OfSideIs
<1>3. Those(Those(r, InWindow), OnSide(s)) = Those(r, InWindow \cap OnSide(s))
      /\ Those(Those(r, OnSide(s)), InWindow) = Those(r, OnSide(s) \cap InWindow)
  BY ThoseOfThose
<1>4. InWindow \cap OnSide(s) = OnSide(s) \cap InWindow
  OBVIOUS
<1>. QED BY <1>1, <1>2, <1>3, <1>4

\* Or before or after time passes.
LEMMA OfSideLater ==
    ASSUME NEW r \in Seq(Samples), NEW s
    PROVE  OfSide(Later(r), s) = Later(OfSide(r, s)) /\ Later(r) \in Seq(Samples)
<1>. DEFINE f == [e \in Samples |-> [e EXCEPT !.age = IF @ > MarkWindow THEN @ ELSE @ + 1]]
<1>1. f \in [Samples -> Samples] /\ \A e \in Samples : f[e].side = e.side
  <2>1. ASSUME NEW e \in Samples
        PROVE  LET o == [e EXCEPT !.age = IF @ > MarkWindow THEN @ ELSE @ + 1]
               IN  o \in Samples /\ o.side = e.side
    BY DEF Samples
  <2>. QED BY <2>1
<1>2. ASSUME NEW q \in Seq(Samples) PROVE Later(q) = Mapped(q, f)
  <2>1. \A i \in DOMAIN q : q[i] \in Samples
    OBVIOUS
  <2>2. \A i \in DOMAIN q :
           f[q[i]] = [q[i] EXCEPT !.age = IF @ > MarkWindow THEN @ ELSE @ + 1]
    BY <2>1
  <2>. HIDE DEF f
  <2>. QED BY <2>2 DEF Later, Mapped
<1>. HIDE DEF f
<1>3. Carries(f, Samples, Samples, OnSide(s), OnSide(s))
  BY <1>1 DEF OnSide, Carries
<1>4. Those(Mapped(r, f), OnSide(s)) = Mapped(Those(r, OnSide(s)), f)
  BY <1>3, ThoseMapped
<1>5. Mapped(r, f) \in Seq(Samples)
  BY <1>1, MappedType
<1>6. OfSide(r, s) = Those(r, OnSide(s)) /\ OfSide(r, s) \in Seq(Samples)
  BY OfSideIs
<1>7. OfSide(Mapped(r, f), s) = Those(Mapped(r, f), OnSide(s))
  BY <1>5, OfSideIs
<1>. QED BY <1>2, <1>4, <1>5, <1>6, <1>7

-----------------------------------------------------------------------------

\* What a middle price settles at a horizon, and what waits on.
LEMMA SettledIs ==
    ASSUME MetricsTypes, NEW h \in Horizons, NEW bad
    PROVE  /\ Settled(h, bad) \in Seq(Samples)
           /\ \A id : id \in Of(Settled(h, bad))
                 <=> \E e \in Contents(unsettled) : e.id = id /\ DueFor(e, h)
<1>. DEFINE due == Those(unsettled, DueAt(h))
            f == [e \in Fills |-> [id |-> e.id, side |-> e.side, bad |-> e.side \in bad, age |-> 0]]
            new == Mapped(due, f)
<1>1. unsettled \in Seq(Fills) /\ \A i \in DOMAIN unsettled : unsettled[i] \in Fills
  BY DEF MetricsTypes
<1>2. due \in Seq(Fills) /\ Contents(due) = Contents(unsettled) \cap DueAt(h)
  BY <1>1, ThoseType, ThoseAre
<1>3. {i \in DOMAIN unsettled : DueFor(unsettled[i], h)}
          = {i \in DOMAIN unsettled : unsettled[i] \in DueAt(h)}
  BY <1>1 DEF DueAt
<1>4. due = KeptAt(unsettled, {i \in DOMAIN unsettled : DueFor(unsettled[i], h)})
  BY <1>3 DEF Those
<1>5. f \in [Fills -> Samples] /\ \A e \in Fills : f[e].id = e.id
  <2>1. ASSUME NEW e \in Fills
        PROVE  [id |-> e.id, side |-> e.side, bad |-> e.side \in bad, age |-> 0] \in Samples
    BY DEF Fills, Samples
  <2>. QED BY <2>1
<1>. HIDE DEF due
<1>6. \A i \in DOMAIN due : due[i] \in Fills
  BY <1>2
<1>7. Settled(h, bad) = new
  <2>1. \A i \in DOMAIN due : f[due[i]] = [id |-> due[i].id, side |-> due[i].side,
                                          bad |-> due[i].side \in bad, age |-> 0]
    BY <1>6
  <2>. HIDE DEF f
  <2>. QED BY <1>4, <2>1 DEF Settled, Mapped
<1>. HIDE DEF f
<1>8. new \in Seq(Samples)
  BY <1>2, <1>5, MappedType
<1>9. Of(new) = {e.id : e \in Contents(due)}
  <2>1. DOMAIN new = DOMAIN due /\ \A i \in DOMAIN due : new[i].id = due[i].id
    BY <1>5, <1>6 DEF Mapped
  <2>. HIDE DEF new
  <2>. QED BY <2>1 DEF Of, Contents
<1>10. \A e \in Contents(unsettled) : e \in DueAt(h) <=> DueFor(e, h)
  BY <1>1 DEF DueAt, Contents
<1>. QED BY <1>2, <1>7, <1>8, <1>9, <1>10

\* Who waits on: the fills that waited, with what was due done, unless that is all.
LEMMA StillPendingIs ==
    ASSUME MetricsTypes
    PROVE  /\ StillPending \in Seq(Fills)
           /\ Contents(StillPending) = {NowDone[e] : e \in Contents(unsettled)} \cap Incomplete
           /\ Distinct(unsettled, {}) => Distinct(StillPending, {})
           /\ Contents(unsettled) \subseteq Fills
           /\ \A e \in Fills : /\ NowDone[e] \in Fills /\ NowDone[e].id = e.id
                               /\ NowDone[e].done = e.done \cup {h \in Horizons : DueFor(e, h)}
<1>. DEFINE marked == Mapped(unsettled, NowDone)
<1>1. unsettled \in Seq(Fills) /\ \A i \in DOMAIN unsettled : unsettled[i] \in Fills
  BY DEF MetricsTypes
<1>2. \A e \in Fills : /\ NowDone[e] \in Fills /\ NowDone[e].id = e.id
                       /\ NowDone[e].done = e.done \cup {h \in Horizons : DueFor(e, h)}
  <2>1. ASSUME NEW e \in Fills, NEW d \in SUBSET Horizons
        PROVE  /\ [e EXCEPT !.done = @ \cup d] \in Fills /\ [e EXCEPT !.done = @ \cup d].id = e.id
               /\ [e EXCEPT !.done = @ \cup d].done = e.done \cup d
    BY DEF Fills
  <2>2. ASSUME NEW e \in Fills PROVE {h \in Horizons : DueFor(e, h)} \in SUBSET Horizons
    OBVIOUS
  <2>. QED BY <2>1, <2>2 DEF NowDone
<1>3. NowDone \in [Fills -> Fills]
  BY <1>2 DEF NowDone
<1>4. marked = [i \in DOMAIN unsettled |->
            [unsettled[i] EXCEPT !.done = @ \cup {h \in Horizons : DueFor(unsettled[i], h)}]]
  <2>1. \A i \in DOMAIN unsettled : NowDone[unsettled[i]] =
            [unsettled[i] EXCEPT !.done = @ \cup {h \in Horizons : DueFor(unsettled[i], h)}]
    BY <1>1 DEF NowDone
  <2>. QED BY <2>1 DEF Mapped
<1>5. marked \in Seq(Fills)
  BY <1>1, <1>3, MappedType
<1>6. DOMAIN marked = DOMAIN unsettled /\ \A i \in DOMAIN unsettled : marked[i] = NowDone[unsettled[i]]
  BY DEF Mapped
<1>7. StillPending = KeptAt(marked, {i \in DOMAIN marked : ~Complete(marked[i])})
  <2>. HIDE DEF marked
  <2>. QED BY <1>4 DEF StillPending
<1>. HIDE DEF marked
<1>8. StillPending = Those(marked, Incomplete)
  <2>1. \A i \in DOMAIN marked : marked[i] \in Fills
    BY <1>5
  <2>2. {i \in DOMAIN marked : ~Complete(marked[i])} = {i \in DOMAIN marked : marked[i] \in Incomplete}
    BY <2>1 DEF Incomplete
  <2>. QED BY <1>7, <2>2 DEF Those
<1>9. Contents(marked) = {NowDone[e] : e \in Contents(unsettled)}
  BY <1>6 DEF Contents
<1>10. Distinct(unsettled, {}) => Distinct(marked, {})
  <2>1. AlikeBy(unsettled, marked)
    BY <1>1, <1>2, <1>6 DEF AlikeBy
  <2>. QED BY <2>1, AlikeIs
<1>11. StillPending \in Seq(Fills) /\ Contents(StillPending) = Contents(marked) \cap Incomplete
       /\ (Distinct(marked, {}) => Distinct(StillPending, {}))
  BY <1>5, <1>8, ThoseType, ThoseAre, DistinctOfThose
<1>12. Contents(unsettled) \subseteq Fills
  BY <1>1 DEF Contents
<1>. QED BY <1>2, <1>9, <1>10, <1>11, <1>12

-----------------------------------------------------------------------------

\* A fill that waits is among the pending ones.
LEMMA WaitingIs ==
    ASSUME NEW id, NEW h
    PROVE  Waiting(id, h) <=> \E e \in Contents(unsettled) : e.id = id /\ h \notin e.done
BY DEF Waiting, Contents

\* Of sequences without a double, an identity is of one item.
LEMMA OneOfAName ==
    ASSUME NEW s, Distinct(s, {}), NEW d \in Contents(s), NEW e \in Contents(s), d.id = e.id
    PROVE  d = e
BY DEF Distinct, Contents

\* What the recorded rows say of one fill and horizon.
Marking(id, h) ==
    /\ lines[<<id, h>>] <= 1
    /\ Waiting(id, h) => lines[<<id, h>>] = 0 /\ <<id, h>> \notin lost
    /\ <<id, h>> \in lost => lines[<<id, h>>] = 0
    /\ id \in pushed \/ Waiting(id, h) \/ lines[<<id, h>>] = 1 \/ <<id, h>> \in lost

SidesAgree == \A h \in Horizons, s \in FillSides : OfSide(samples[h], s) = bySide[h][s]

\* MarkedOnce, of each fill and horizon.
LEMMA MarkedOnceIs ==
    MarkedOnce <=> (\A id \in filled, h \in Horizons : Marking(id, h)) /\ SidesAgree
BY DEF MarkedOnce, Marking, SidesAgree

\* A fill that is recorded waits for every horizon; what is pushed out for it waits no
\* more, and no other.
LEMMA RecordFillHolds ==
    ASSUME MetricsInv, NEW id \in FillIds, NEW side \in FillSides, RecordFill(id, side)
    PROVE  MetricsInv'
<1>. DEFINE e == [id |-> id, side |-> side, age |-> 0, done |-> {}]
            all == Append(unsettled, e)
<1>1. /\ id \notin filled /\ filled' = filled \cup {id}
      /\ samples' = samples /\ bySide' = bySide /\ lines' = lines /\ lost' = lost
      /\ \/ Len(all) > PendingMax /\ unsettled' = Tail(all) /\ pushed' = pushed \cup {all[1].id}
         \/ unsettled' = all /\ pushed' = pushed
  BY DEF RecordFill
<1>2. unsettled \in Seq(Fills) /\ e \in Fills /\ e.id = id /\ e.done = {} /\ PendingMax \in Nat \ {0}
  BY MetricsAssumption DEF MetricsInv, MetricsTypes, Fills
<1>. HIDE DEF e
<1>3. all \in Seq(Fills) /\ Contents(all) = Contents(unsettled) \cup {e} /\ Len(all) = Len(unsettled) + 1
      /\ Len(unsettled) \in Nat
  BY <1>2, ItemsOfAppend
<1>4. Distinct(all, {}) /\ Named(all) = Named(unsettled) \cup {id}
  <2>1. Named(all) = Named(unsettled) \cup {id}
    BY <1>2, <1>3 DEF Named
  <2>2. id \notin Named(unsettled) /\ Distinct(unsettled, {})
    BY <1>1 DEF MetricsInv, FillsApart
  <2>. QED BY <1>2, <2>1, <2>2, DistinctOfAppend
<1>. HIDE DEF all
<1>5. /\ unsettled' \in Seq(Fills) /\ Distinct(unsettled', {})
      /\ Contents(unsettled') \subseteq Contents(all) /\ Named(unsettled') \subseteq Named(all)
      /\ pushed \subseteq pushed' /\ \A d \in Contents(all) : d \in Contents(unsettled') \/ d.id \in pushed'
  <2>1. CASE unsettled' = all /\ pushed' = pushed
    BY <1>3, <1>4, <2>1
  <2>2. CASE Len(all) > PendingMax /\ unsettled' = Tail(all) /\ pushed' = pushed \cup {all[1].id}
    <3>1. Len(all) \in Nat \ {0, 1} /\ DOMAIN all = 1..Len(all)
      BY <1>2, <1>3, <2>2
    <3>. DEFINE n == Len(all) - 1
    <3>2. /\ n \in Nat /\ Tail(all) \in Seq(Fills) /\ DOMAIN Tail(all) = 1..n
          /\ \A i \in 1..n : Tail(all)[i] = all[i + 1] /\ i + 1 \in 1..Len(all)
      BY <1>3, <3>1
    <3>3. \A i \in 1..Len(all) : i = 1 \/ (i - 1 \in 1..n /\ (i - 1) + 1 = i)
      BY <3>1
    <3>. HIDE DEF n
    <3>4. Contents(Tail(all)) \subseteq Contents(all)
      BY <3>1, <3>2 DEF Contents
    <3>5. \A d \in Contents(all) : d \in Contents(Tail(all)) \/ d = all[1]
      <4>. TAKE d \in Contents(all)
      <4>1. PICK i \in 1..Len(all) : d = all[i]
        BY <3>1 DEF Contents
      <4>. DEFINE j == i - 1
      <4>2. i = 1 \/ (j \in 1..n /\ j + 1 = i)
        BY <3>3
      <4>. HIDE DEF j
      <4>. QED BY <3>2, <4>1, <4>2 DEF Contents
    <3>6. Distinct(Tail(all), {})
      <4>1. \A i, j \in 1..Len(all) : all[i].id = all[j].id => i = j
        BY <1>4, <3>1 DEF Distinct
      <4>2. ASSUME NEW i \in 1..n, NEW j \in 1..n, Tail(all)[i].id = Tail(all)[j].id PROVE i = j
        <5>1. i + 1 = j + 1
          BY <3>2, <4>1, <4>2
        <5>. QED BY <5>1
      <4>. QED BY <3>2, <4>2 DEF Distinct
    <3>. QED BY <2>2, <3>2, <3>4, <3>5, <3>6 DEF Named
  <2>. QED BY <1>1, <2>1, <2>2
<1>6. MetricsTypes'
  BY <1>1, <1>5 DEF MetricsInv, MetricsTypes
<1>7. FillsApart'
  <2>1. Named(unsettled') \subseteq filled'
    BY <1>1, <1>4, <1>5 DEF MetricsInv, FillsApart
  <2>2. \A i \in FillIds \ filled', h \in Horizons : lines'[<<i, h>>] = 0 /\ <<i, h>> \notin lost'
    BY <1>1 DEF MetricsInv, FillsApart
  <2>. QED BY <1>5, <2>1, <2>2 DEF FillsApart
<1>8. SidesAgree'
  BY <1>1, MarkedOnceIs DEF MetricsInv, SidesAgree
<1>9. ASSUME NEW i \in filled', NEW h \in Horizons PROVE Marking(i, h)'
  <2>1. Waiting(i, h)' <=> \E d \in Contents(unsettled') : d.id = i /\ h \notin d.done
    BY DEF Waiting, Contents
  <2>2. Waiting(i, h) <=> \E d \in Contents(unsettled) : d.id = i /\ h \notin d.done
    BY WaitingIs
  <2>3. CASE i = id
    <3>1. lines'[<<i, h>>] = 0 /\ <<i, h>> \notin lost'
      BY <1>1, <2>3 DEF MetricsInv, FillsApart
    <3>2. Waiting(i, h)' \/ i \in pushed'
      BY <1>2, <1>3, <1>5, <2>1, <2>3
    <3>. QED BY <3>1, <3>2 DEF Marking
  <2>4. CASE i # id
    <3>1. Marking(i, h)
      BY <1>1, <2>4, MarkedOnceIs DEF MetricsInv
    <3>2. Waiting(i, h)' => Waiting(i, h)
      BY <1>2, <1>3, <1>5, <2>1, <2>2, <2>4
    <3>3. Waiting(i, h) => Waiting(i, h)' \/ i \in pushed'
      BY <1>3, <1>5, <2>1, <2>2
    <3>. QED BY <1>1, <1>5, <3>1, <3>2, <3>3 DEF Marking
  <2>. QED BY <2>3, <2>4
<1>10. MarkedOnce'
  <2>1. (\A i \in filled', h \in Horizons : Marking(i, h)') /\ SidesAgree'
    BY <1>8, <1>9
  <2>. QED BY <2>1 DEF MarkedOnce, Marking, SidesAgree
<1>. QED BY <1>6, <1>7, <1>10 DEF MetricsInv

\* The rows that this middle price adds.
NewMarkouts(bad) == {m \in FillIds \X Horizons : m[1] \in Of(Settled(m[2], bad))}

\* What is settled waited, and waits no more; what waited and is not settled waits on.
LEMMA SettlingIs ==
    ASSUME MetricsInv, NEW bad, unsettled' = StillPending, NEW id, NEW h \in Horizons
    PROVE  /\ <<id, h>> \in NewMarkouts(bad) => Waiting(id, h) /\ id \in filled
           /\ Waiting(id, h)' <=> Waiting(id, h) /\ <<id, h>> \notin NewMarkouts(bad)
<1>1. MetricsTypes /\ Distinct(unsettled, {}) /\ Named(unsettled) \subseteq filled
  BY DEF MetricsInv, FillsApart
<1>2. /\ Contents(StillPending) = {NowDone[e] : e \in Contents(unsettled)} \cap Incomplete
      /\ Contents(unsettled) \subseteq Fills
      /\ \A e \in Fills : /\ NowDone[e] \in Fills /\ NowDone[e].id = e.id
                          /\ NowDone[e].done = e.done \cup {g \in Horizons : DueFor(e, g)}
  BY <1>1, StillPendingIs
<1>3. \A x : x \in Of(Settled(h, bad)) <=> \E e \in Contents(unsettled) : e.id = x /\ DueFor(e, h)
  BY <1>1, SettledIs
<1>4. Waiting(id, h) <=> \E e \in Contents(unsettled) : e.id = id /\ h \notin e.done
  BY WaitingIs
<1>5. Waiting(id, h)' <=> \E e \in Contents(StillPending) : e.id = id /\ h \notin e.done
  <2>1. Waiting(id, h)' <=> \E e \in Contents(unsettled') : e.id = id /\ h \notin e.done
    BY DEF Waiting, Contents
  <2>. QED BY <2>1
<1>6. \A e \in Contents(unsettled) : e.id \in FillIds /\ e.done \subseteq Horizons /\ e.id \in filled
  BY <1>1, <1>2 DEF Fills, Named
<1>7. <<id, h>> \in NewMarkouts(bad) <=> \E e \in Contents(unsettled) : e.id = id /\ DueFor(e, h)
  <2>1. <<id, h>> \in NewMarkouts(bad) <=> id \in FillIds /\ id \in Of(Settled(h, bad))
    BY DEF NewMarkouts
  <2>. QED BY <1>3, <1>6, <2>1
<1>8. \A e \in Contents(unsettled) : DueFor(e, h) => h \notin e.done
  BY DEF DueFor
<1>9. <<id, h>> \in NewMarkouts(bad) => Waiting(id, h) /\ id \in filled
  BY <1>4, <1>6, <1>7, <1>8
<1>10. ASSUME Waiting(id, h)' PROVE Waiting(id, h) /\ <<id, h>> \notin NewMarkouts(bad)
  <2>1. PICK d \in Contents(StillPending) : d.id = id /\ h \notin d.done
    BY <1>5, <1>10
  <2>2. PICK e \in Contents(unsettled) : d = NowDone[e]
    BY <1>2
  <2>3. e.id = id /\ h \notin e.done /\ ~DueFor(e, h)
    BY <1>2, <2>1, <2>2
  <2>4. \A f \in Contents(unsettled) : f.id = id => f = e
    BY <1>1, <2>3, OneOfAName
  <2>. QED BY <1>4, <1>7, <2>3, <2>4
<1>11. ASSUME Waiting(id, h), <<id, h>> \notin NewMarkouts(bad) PROVE Waiting(id, h)'
  <2>1. PICK e \in Contents(unsettled) : e.id = id /\ h \notin e.done
    BY <1>4, <1>11
  <2>2. ~DueFor(e, h)
    BY <1>7, <1>11, <2>1
  <2>3. NowDone[e] \in Fills /\ NowDone[e].id = id /\ h \notin NowDone[e].done
    BY <1>2, <2>1, <2>2
  <2>4. NowDone[e] \in Incomplete
    BY <2>3 DEF Incomplete, Complete
  <2>. QED BY <1>2, <1>5, <2>1, <2>3, <2>4
<1>. QED BY <1>9, <1>10, <1>11

\* A middle price gives every fill that is due its row and its sample, on its side, or
\* loses the row with the write.
LEMMA SettleHolds ==
    ASSUME MetricsInv, NEW bad \in SUBSET FillSides, Settle(bad)
    PROVE  MetricsInv'
<1>. DEFINE new == NewMarkouts(bad)
            X(h) == Settled(h, bad)
<1>1. /\ unsettled' = StillPending /\ filled' = filled /\ pushed' = pushed
      /\ \/ /\ lines' = [m \in DOMAIN lines |-> IF m \in new THEN lines[m] + 1 ELSE lines[m]]
            /\ samples' = [h \in Horizons |-> Pruned(samples[h] \o X(h))]
            /\ bySide' = [h \in Horizons |-> [s \in FillSides |->
                             Pruned(bySide[h][s] \o OfSide(X(h), s))]]
            /\ lost' = lost
         \/ /\ lost' = lost \cup new /\ lines' = lines
            /\ samples' = [h \in Horizons |-> samples[h] \o X(h)]
            /\ bySide' = [h \in Horizons |-> [s \in FillSides |->
                             bySide[h][s] \o OfSide(X(h), s)]]
  BY DEF Settle, NewMarkouts
<1>2. MetricsTypes /\ FillsApart /\ SidesAgree
      /\ \A id \in filled, h \in Horizons : Marking(id, h)
  BY MarkedOnceIs DEF MetricsInv
<1>3. \A h \in Horizons : /\ X(h) \in Seq(Samples) /\ samples[h] \in Seq(Samples)
                          /\ \A s \in FillSides : bySide[h][s] = OfSide(samples[h], s)
  BY <1>2, SettledIs DEF MetricsTypes, SidesAgree
<1>. HIDE DEF X
<1>4. /\ \A id \in FillIds, h \in Horizons :
            <<id, h>> \in new => Waiting(id, h) /\ id \in filled
      /\ \A id \in FillIds, h \in Horizons :
            Waiting(id, h)' <=> Waiting(id, h) /\ <<id, h>> \notin new
  BY <1>1, SettlingIs
<1>5. /\ lines \in [FillIds \X Horizons -> Nat]
      /\ \/ /\ lines' = [m \in FillIds \X Horizons |-> IF m \in new THEN lines[m] + 1 ELSE lines[m]]
            /\ lost' = lost
         \/ lines' = lines /\ lost' = lost \cup new
  BY <1>1, <1>2 DEF MetricsTypes
<1>. HIDE DEF new
<1>6. \A h \in Horizons, s \in FillSides :
         LET both == samples[h] \o X(h)
         IN  /\ both \in Seq(Samples) /\ OfSide(both, s) \in Seq(Samples)
             /\ bySide[h][s] \o OfSide(X(h), s) = OfSide(both, s)
             /\ Pruned(both) \in Seq(Samples) /\ Pruned(OfSide(both, s)) \in Seq(Samples)
             /\ OfSide(Pruned(both), s) = Pruned(OfSide(both, s))
  <2>. TAKE h \in Horizons, s \in FillSides
  <2>. DEFINE both == samples[h] \o X(h)
  <2>1. both \in Seq(Samples) /\ bySide[h][s] \o OfSide(X(h), s) = OfSide(both, s)
    <3>1. X(h) \in Seq(Samples) /\ samples[h] \in Seq(Samples) /\ bySide[h][s] = OfSide(samples[h], s)
      BY <1>3
    <3>2. OfSide(samples[h] \o X(h), s) = OfSide(samples[h], s) \o OfSide(X(h), s)
          /\ samples[h] \o X(h) \in Seq(Samples)
      BY <3>1, OfSideOfBoth
    <3>. QED BY <3>1, <3>2
  <2>. HIDE DEF both
  <2>2. OfSide(both, s) \in Seq(Samples)
    BY <2>1, OfSideIs
  <2>3. /\ Pruned(both) \in Seq(Samples) /\ Pruned(OfSide(both, s)) \in Seq(Samples)
        /\ OfSide(Pruned(both), s) = Pruned(OfSide(both, s))
    BY <2>1, <2>2, OfSidePruned
  <2>. QED BY <2>1, <2>2, <2>3 DEF both
<1>7. /\ samples' \in [Horizons -> Seq(Samples)]
      /\ bySide' \in [Horizons -> [FillSides -> Seq(Samples)]]
      /\ SidesAgree'
  <2>1. CASE /\ samples' = [h \in Horizons |-> Pruned(samples[h] \o X(h))]
             /\ bySide' = [h \in Horizons |-> [s \in FillSides |->
                              Pruned(bySide[h][s] \o OfSide(X(h), s))]]
    <3>0. \E s \in FillSides : TRUE
      BY DEF FillSides
    <3>1. samples' \in [Horizons -> Seq(Samples)]
      BY <1>6, <2>1, <3>0
    <3>2. bySide' \in [Horizons -> [FillSides -> Seq(Samples)]]
      BY <1>6, <2>1
    <3>3. SidesAgree'
      BY <1>6, <2>1 DEF SidesAgree
    <3>. QED BY <3>1, <3>2, <3>3
  <2>2. CASE /\ samples' = [h \in Horizons |-> samples[h] \o X(h)]
             /\ bySide' = [h \in Horizons |-> [s \in FillSides |->
                              bySide[h][s] \o OfSide(X(h), s)]]
    <3>0. \E s \in FillSides : TRUE
      BY DEF FillSides
    <3>1. samples' \in [Horizons -> Seq(Samples)]
      BY <1>6, <2>2, <3>0
    <3>2. bySide' \in [Horizons -> [FillSides -> Seq(Samples)]]
      BY <1>6, <2>2
    <3>3. SidesAgree'
      BY <1>6, <2>2 DEF SidesAgree
    <3>. QED BY <3>1, <3>2, <3>3
  <2>. QED BY <1>1, <2>1, <2>2
<1>8. MetricsTypes'
  <2>1. lines' \in [FillIds \X Horizons -> Nat]
    BY <1>5
  <2>2. unsettled' \in Seq(Fills)
    BY <1>1, <1>2, StillPendingIs
  <2>. QED BY <1>1, <1>2, <1>7, <2>1, <2>2 DEF MetricsTypes
<1>9. \A id \in FillIds, h \in Horizons :
         /\ <<id, h>> \in FillIds \X Horizons /\ lines[<<id, h>>] \in Nat
         /\ \/ /\ lines'[<<id, h>>] = IF <<id, h>> \in new THEN lines[<<id, h>>] + 1
                                      ELSE lines[<<id, h>>]
               /\ <<id, h>> \in lost' <=> <<id, h>> \in lost
            \/ /\ lines'[<<id, h>>] = lines[<<id, h>>]
               /\ <<id, h>> \in lost' <=> <<id, h>> \in lost \/ <<id, h>> \in new
  BY <1>5
<1>10. FillsApart'
  <2>1. Distinct(unsettled', {}) /\ Named(unsettled') \subseteq Named(unsettled)
    <3>1. /\ Distinct(unsettled, {}) => Distinct(StillPending, {})
          /\ Contents(StillPending) = {NowDone[e] : e \in Contents(unsettled)} \cap Incomplete
          /\ \A e \in Contents(unsettled) : NowDone[e].id = e.id
      BY <1>2, StillPendingIs
    <3>. QED BY <1>1, <1>2, <3>1 DEF FillsApart, Named
  <2>2. ASSUME NEW id \in FillIds \ filled, NEW h \in Horizons
        PROVE  lines'[<<id, h>>] = 0 /\ <<id, h>> \notin lost'
    <3>1. lines[<<id, h>>] = 0 /\ <<id, h>> \notin lost /\ <<id, h>> \notin new
      BY <1>2, <1>4, <2>2 DEF FillsApart
    <3>. QED BY <1>9, <2>2, <3>1
  <2>. QED BY <1>1, <1>2, <2>1, <2>2 DEF FillsApart
<1>11. filled \subseteq FillIds
  BY DEF MetricsInv, MetricsTypes
<1>12. ASSUME NEW id \in filled, NEW h \in Horizons PROVE Marking(id, h)'
  <2>1. Marking(id, h) /\ id \in FillIds
    BY <1>2, <1>11
  <2>2. <<id, h>> \in new => Waiting(id, h)
    BY <1>4, <2>1
  <2>3. Waiting(id, h)' <=> Waiting(id, h) /\ <<id, h>> \notin new
    BY <1>4, <2>1
  <2>4. CASE /\ lines'[<<id, h>>] = IF <<id, h>> \in new THEN lines[<<id, h>>] + 1
                                    ELSE lines[<<id, h>>]
             /\ <<id, h>> \in lost' <=> <<id, h>> \in lost
    BY <1>1, <2>1, <2>2, <2>3, <2>4 DEF Marking
  <2>5. CASE /\ lines'[<<id, h>>] = lines[<<id, h>>]
             /\ <<id, h>> \in lost' <=> <<id, h>> \in lost \/ <<id, h>> \in new
    BY <1>1, <2>1, <2>2, <2>3, <2>5 DEF Marking
  <2>. QED BY <1>9, <2>1, <2>4, <2>5
<1>13. MarkedOnce'
  <2>1. (\A id \in filled', h \in Horizons : Marking(id, h)') /\ SidesAgree'
    BY <1>1, <1>7, <1>12
  <2>. QED BY <2>1 DEF MarkedOnce, Marking, SidesAgree
<1>. QED BY <1>8, <1>10, <1>13 DEF MetricsInv

\* Time changes no fill and no sample but for its age.
LEMMA MetricsElapseHolds ==
    ASSUME MetricsInv, MetricsElapse
    PROVE  MetricsInv'
<1>1. /\ unsettled' = Later(unsettled)
      /\ samples' = [h \in Horizons |-> Later(samples[h])]
      /\ bySide' = [h \in Horizons |-> [s \in FillSides |-> Later(bySide[h][s])]]
      /\ filled' = filled /\ pushed' = pushed /\ lines' = lines /\ lost' = lost
  BY DEF MetricsElapse
<1>2. MetricsTypes /\ FillsApart /\ SidesAgree
      /\ \A id \in filled, h \in Horizons : Marking(id, h)
  BY MarkedOnceIs DEF MetricsInv
<1>3. \A h \in Horizons : /\ samples[h] \in Seq(Samples)
                          /\ \A s \in FillSides : bySide[h][s] = OfSide(samples[h], s)
  BY <1>2 DEF MetricsTypes, SidesAgree
<1>4. \A h \in Horizons, s \in FillSides :
         /\ Later(samples[h]) \in Seq(Samples) /\ Later(bySide[h][s]) \in Seq(Samples)
         /\ OfSide(Later(samples[h]), s) = Later(bySide[h][s])
  <2>. TAKE h \in Horizons, s \in FillSides
  <2>1. bySide[h][s] \in Seq(Samples)
    BY <1>3, OfSideIs
  <2>. QED BY <1>3, <2>1, OfSideLater
<1>5. /\ samples' \in [Horizons -> Seq(Samples)]
      /\ bySide' \in [Horizons -> [FillSides -> Seq(Samples)]]
      /\ SidesAgree'
  <2>1. \E s \in FillSides : TRUE
    BY DEF FillSides
  <2>2. samples' \in [Horizons -> Seq(Samples)]
    BY <1>1, <1>4, <2>1
  <2>3. bySide' \in [Horizons -> [FillSides -> Seq(Samples)]]
    BY <1>1, <1>4
  <2>4. SidesAgree'
    BY <1>1, <1>4 DEF SidesAgree
  <2>. QED BY <2>2, <2>3, <2>4
<1>. DEFINE f == [e \in Fills |-> [e EXCEPT !.age = IF @ > MarkWindow THEN @ ELSE @ + 1]]
<1>6. f \in [Fills -> Fills] /\ \A e \in Fills : f[e].id = e.id /\ f[e].done = e.done
  <2>1. ASSUME NEW e \in Fills
        PROVE  LET o == [e EXCEPT !.age = IF @ > MarkWindow THEN @ ELSE @ + 1]
               IN  o \in Fills /\ o.id = e.id /\ o.done = e.done
    BY DEF Fills
  <2>. QED BY <2>1
<1>7. unsettled \in Seq(Fills) /\ \A i \in DOMAIN unsettled : unsettled[i] \in Fills
  BY <1>2 DEF MetricsTypes
<1>8. Later(unsettled) = Mapped(unsettled, f)
  <2>1. \A i \in DOMAIN unsettled :
           f[unsettled[i]] = [unsettled[i] EXCEPT !.age = IF @ > MarkWindow THEN @ ELSE @ + 1]
    BY <1>7
  <2>. HIDE DEF f
  <2>. QED BY <2>1 DEF Later, Mapped
<1>. HIDE DEF f
<1>9. /\ unsettled' \in Seq(Fills) /\ AlikeBy(unsettled, unsettled')
      /\ DOMAIN unsettled' = DOMAIN unsettled
      /\ \A i \in DOMAIN unsettled : /\ unsettled'[i].id = unsettled[i].id
                                     /\ unsettled'[i].done = unsettled[i].done
  <2>1. Mapped(unsettled, f) \in Seq(Fills)
    BY <1>6, <1>7, MappedType
  <2>2. DOMAIN Mapped(unsettled, f) = DOMAIN unsettled
        /\ \A i \in DOMAIN unsettled : Mapped(unsettled, f)[i] = f[unsettled[i]]
    BY DEF Mapped
  <2>. QED BY <1>1, <1>6, <1>7, <1>8, <2>1, <2>2 DEF AlikeBy
<1>10. MetricsTypes'
  BY <1>1, <1>2, <1>5, <1>9 DEF MetricsTypes
<1>11. FillsApart'
  <2>1. Named(unsettled) = Named(unsettled')
        /\ (Distinct(unsettled, {}) => Distinct(unsettled', {}))
    BY <1>9, AlikeIs
  <2>. QED BY <1>1, <1>2, <2>1 DEF FillsApart
<1>12. \A id, h : Waiting(id, h)' <=> Waiting(id, h)
  BY <1>9 DEF Waiting
<1>13. MarkedOnce'
  <2>1. (\A id \in filled', h \in Horizons : Marking(id, h)') /\ SidesAgree'
    BY <1>1, <1>2, <1>5, <1>12 DEF Marking
  <2>. QED BY <2>1 DEF MarkedOnce, Marking, SidesAgree
<1>. QED BY <1>10, <1>11, <1>13 DEF MetricsInv

\* At the start there is no fill.
LEMMA MetricsStarts == MetricsInit => MetricsInv
<1>. SUFFICES ASSUME MetricsInit PROVE MetricsInv
  OBVIOUS
<1>1. /\ unsettled = << >> /\ samples = [h \in Horizons |-> << >>]
      /\ bySide = [h \in Horizons |-> [s \in FillSides |-> << >>]]
      /\ lines = [m \in FillIds \X Horizons |-> 0] /\ filled = {} /\ lost = {}
  BY DEF MetricsInit
<1>2. \A S : << >> \in Seq(S)
  OBVIOUS
<1>3. MetricsTypes
  BY <1>1, <1>2 DEF MetricsTypes
<1>4. FillsApart
  BY <1>1 DEF FillsApart, Distinct, Named, Contents
<1>5. \A s : OfSide(<< >>, s) = << >>
  <2>. TAKE s
  <2>1. << >> \in Seq(Samples)
    OBVIOUS
  <2>2. OfSide(<< >>, s) = Those(<< >>, OnSide(s))
    BY <2>1, OfSideIs
  <2>. QED BY <2>2, ThoseOfNone
<1>6. MarkedOnce
  BY <1>1, <1>5 DEF MarkedOnce
<1>. QED BY <1>3, <1>4, <1>6 DEF MetricsInv

\* Every step keeps it.
LEMMA MetricsSteps == MetricsInv /\ [MetricsNext]_metricsVars => MetricsInv'
<1>. SUFFICES ASSUME MetricsInv, [MetricsNext]_metricsVars PROVE MetricsInv'
  OBVIOUS
<1>1. ASSUME NEW id \in FillIds, NEW side \in FillSides, RecordFill(id, side) PROVE MetricsInv'
  BY <1>1, RecordFillHolds
<1>2. ASSUME NEW bad \in SUBSET FillSides, Settle(bad) PROVE MetricsInv'
  BY <1>2, SettleHolds
<1>3. CASE MetricsElapse
  BY <1>3, MetricsElapseHolds
<1>4. CASE UNCHANGED metricsVars
  BY <1>4 DEF metricsVars, MetricsInv, MetricsTypes, FillsApart, MarkedOnce, Waiting, OfSide
<1>. QED BY <1>1, <1>2, <1>3, <1>4 DEF MetricsNext

\* For any horizons, window and length of the pending deque, every fill is marked at every
\* horizon once: it waits for it, or has its one row, or the write of that row failed,
\* unless it was pushed out; and the samples of a side are those of both, of that side.
THEOREM FillsAreMarkedOnce == MetricsSpec => []MarkedOnce
<1>1. MetricsInv => MarkedOnce
  BY DEF MetricsInv
<1>. QED BY <1>1, MetricsStarts, MetricsSteps, PTL DEF MetricsSpec
=============================================================================
