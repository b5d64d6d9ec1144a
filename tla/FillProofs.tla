----------------------------- MODULE FillProofs -----------------------------
(***************************************************************************)
(* Proofs about FillAccounting: the totals count a trade at most once,     *)
(* none that is told is left out, and each is applied to the position it   *)
(* was executed against.  MCTradingParts runs the same module on a small   *)
(* instance.                                                               *)
(***************************************************************************)
EXTENDS FillAccounting, Induction

FillTypes ==
    /\ tape \in Seq({1, -1}) /\ Len(tape) <= MaxTrades
    /\ told \in 0..Len(tape) /\ after \in 0..Len(tape)
    /\ linked \in BOOLEAN /\ started \in BOOLEAN
    /\ run \in {"down", "starting", "trading"}
    /\ position \in Int /\ local \in Int
    /\ pending \in Seq(Trades) /\ seen \in SUBSET Trades /\ recent \in Seq(Trades)
    /\ tally \in [Trades -> Nat] /\ saved \in [Trades -> Nat] /\ base \in [Trades -> Int]
    /\ odd \in SUBSET Trades /\ loose \in SUBSET Trades

Ledgers == [seen : SUBSET Trades, recent : Seq(Trades), local : Int, started : BOOLEAN,
            tally : [Trades -> Nat], base : [Trades -> Int], loose : SUBSET Trades]

Members(s) == {s[k] : k \in 1..Len(s)}

\* A trade the ledger knows something of.
Noted(acc, i) == acc.tally[i] > 0 \/ i \in acc.seen \/ i \in Members(acc.recent)

\* A trade is in recent_trades with only younger ones after it, or was pushed out of it
\* by younger ones.
Remembers(rec, i) ==
    \/ \E k \in 1..Len(rec) : rec[k] = i /\ \A m \in (k + 1)..Len(rec) : rec[m] > i
    \/ Len(rec) = RecentMax /\ \A m \in 1..Len(rec) : rec[m] > i

\* What was told is all a ledger knows of, recent_trades holds a trade once, and what is
\* counted is counted once and remembered, unless it is loose.
Kept(acc) ==
    /\ Len(acc.recent) <= RecentMax
    /\ \A k, m \in 1..Len(acc.recent) : acc.recent[k] = acc.recent[m] => k = m
    /\ \A i \in Trades : Noted(acc, i) => i <= told
    /\ \A i \in Trades \ acc.loose : acc.tally[i] <= 1
    /\ \A i \in Trades \ acc.loose :
           i > after /\ acc.tally[i] > 0 => Remembers(acc.recent, i)

\* What is on disk was counted.
SavedFits ==
    /\ \A i \in Trades : saved[i] > 0 => i <= told
    /\ \A i \in Trades \ loose : saved[i] <= 1
    /\ run = "starting" => \A i \in Trades : saved[i] > 0 => i <= after
    /\ run = "trading" => \A i \in Trades : saved[i] > 0 => tally[i] > 0

\* A batch is the trades from lo to the last one told, those from new on for the first
\* time: all of them, or no more than a first message repeats.
Covers(lo, new) ==
    /\ Len(pending) = told - lo + 1
    /\ Members(pending) = lo..told
    /\ told - lo < SnapTrades \/ lo = new
    /\ \A i \in Trades : Noted(Ledger, i) \/ saved[i] > 0 => i < new

\* What a batch adds is odd, or it is applied to the right positions.
AddsOdd(lo) == \A i \in lo..told : i > after /\ tally[i] = 0 => i \in odd

AddsInStep(lo, new) ==
    /\ local = PositionAt(new - 1) /\ new > after
    /\ \A i \in lo..(new - 1) : i > after => tally[i] > 0 /\ i \notin loose

BatchFits ==
    pending # <<>> => \E lo \in 1..told : \E new \in lo..(told + 1) :
        Covers(lo, new) /\ (run = "trading" => AddsOdd(lo) \/ AddsInStep(lo, new))

\* What this run of the program knows of is counted, and what it was told is counted or
\* about to be, unless it is odd.
NothingMissed ==
    /\ run # "down" => \A i \in Trades :
           i > after /\ (i \in seen \/ i \in Members(recent)) /\ i \notin odd
               => run = "trading" /\ tally[i] > 0
    /\ run = "trading" => \A i \in Trades :
           i > after /\ i <= told /\ i \notin odd => tally[i] > 0 \/ i \in Members(pending)

\* The position that was told is that after the trades that were, unless it came first.
PositionFits ==
    /\ linked \/ run = "trading" =>
           /\ after <= told
           /\ position = PositionAt(told) \/ (told < Len(tape) /\ told + 1 \in odd)
    /\ run = "trading" => started /\ (Quiet => local = position)
    /\ run = "down" => Quiet /\ ~linked

BaseFits ==
    \A i \in Trades :
        i \notin odd \cup loose /\ (tally[i] > 0 \/ saved[i] > 0) => base[i] = PositionAt(i - 1)

FillInv ==
    /\ FillTypes /\ Kept(Ledger) /\ SavedFits /\ BatchFits
    /\ NothingMissed /\ PositionFits /\ BaseFits

-----------------------------------------------------------------------------
(* Numbers and sequences. *)

\* The constants are numbers, and recent_trades holds a whole first message.
LEMMA FillNumbers ==
    /\ MaxTrades \in Nat /\ SnapTrades \in Nat \ {0} /\ RecentMax \in Nat \ {0}
    /\ SnapTrades <= RecentMax
BY FillAssumption

\* The larger and the smaller of two numbers.
LEMMA OfTwo ==
    ASSUME NEW a \in Int, NEW b \in Int
    PROVE  /\ Max({a, b}) = IF a >= b THEN a ELSE b
           /\ Min({a, b}) = IF a <= b THEN a ELSE b
<1>1. Max({a, b}) \in {a, b} /\ \A y \in {a, b} : Max({a, b}) >= y
  <2>1. \E x \in {a, b} : \A y \in {a, b} : x >= y
    OBVIOUS
  <2>. QED BY <2>1 DEF Max
<1>2. Min({a, b}) \in {a, b} /\ \A y \in {a, b} : Min({a, b}) <= y
  <2>1. \E x \in {a, b} : \A y \in {a, b} : x <= y
    OBVIOUS
  <2>. QED BY <2>1 DEF Min
<1>. QED BY <1>1, <1>2

\* t is s and i after it, the first of s gone if it was full.
Shifted(t, s, i) ==
    \E off \in {0, 1} :
        /\ Len(t) = Len(s) + 1 - off /\ (off = 1 => Len(s) = RecentMax)
        /\ t[Len(t)] = i /\ \A k \in 1..(Len(t) - 1) : t[k] = s[k + off]

\* deque(maxlen): what is appended to recent_trades is last, and pushes the first out
\* when it is full.
LEMMA LastOfIs ==
    ASSUME NEW s \in Seq(Trades), Len(s) <= RecentMax, NEW i \in Trades
    PROVE  LET t == LastOf(Append(s, i))
           IN  /\ t \in Seq(Trades) /\ Len(t) <= RecentMax
               /\ Shifted(t, s, i)
<1>. DEFINE u == Append(s, i)
            from == Max({Len(u) - RecentMax + 1, 1})
            off == from - 1
            t == SubSeq(u, from, Len(u))
<1>1. u \in Seq(Trades) /\ Len(u) = Len(s) + 1 /\ Len(s) \in Nat
      /\ u[Len(s) + 1] = i /\ \A k \in 1..Len(s) : u[k] = s[k]
  OBVIOUS
<1>. HIDE DEF u
<1>2. Len(u) - RecentMax + 1 \in Int /\ 1 \in Int
  BY <1>1, FillNumbers
<1>3. from = IF Len(u) - RecentMax + 1 >= 1 THEN Len(u) - RecentMax + 1 ELSE 1
  BY <1>2, OfTwo
<1>4. off \in {0, 1} /\ from = off + 1 /\ (off = 1 => Len(s) = RecentMax)
      /\ from \in 1..Len(u) /\ Len(s) + 1 - off <= RecentMax
  <2>. HIDE DEF from
  <2>. QED BY <1>1, <1>3, FillNumbers
<1>. HIDE DEF from, off
<1>5. t \in Seq(Trades) /\ Len(t) = Len(u) - from + 1
      /\ \A k \in 1..(Len(u) - from + 1) : t[k] = u[from + k - 1]
  BY <1>1, <1>4, SubSeqProperties
<1>. HIDE DEF t
<1>6. Len(t) = Len(s) + 1 - off /\ Len(t) \in 1..(Len(s) + 1)
  BY <1>1, <1>4, <1>5
<1>7. t[Len(t)] = u[from + Len(t) - 1]
  BY <1>5, <1>6
<1>8. from + Len(t) - 1 = Len(s) + 1
  BY <1>1, <1>4, <1>6
<1>9. ASSUME NEW k \in 1..(Len(t) - 1) PROVE t[k] = s[k + off]
  <2>1. t[k] = u[from + k - 1] /\ from + k - 1 = k + off /\ k + off \in 1..Len(s)
    BY <1>1, <1>4, <1>5, <1>6
  <2>. QED BY <2>1, <1>1
<1>10. t[Len(t)] = i /\ Len(t) <= RecentMax
  BY <1>1, <1>4, <1>6, <1>7, <1>8
<1>11. t = LastOf(Append(s, i))
  BY DEF t, u, from, LastOf
<1>12. Shifted(t, s, i)
  BY <1>4, <1>6, <1>9, <1>10 DEF Shifted
<1>. QED BY <1>5, <1>10, <1>11, <1>12

\* It has no other members.
LEMMA LastOfMembers ==
    ASSUME NEW s \in Seq(Trades), Len(s) <= RecentMax, NEW i \in Trades
    PROVE  Members(LastOf(Append(s, i))) \subseteq Members(s) \cup {i}
<1>. DEFINE t == LastOf(Append(s, i))
<1>1. t \in Seq(Trades)
  BY LastOfIs
<1>2. PICK off \in {0, 1} :
          /\ Len(t) = Len(s) + 1 - off /\ t[Len(t)] = i
          /\ \A k \in 1..(Len(t) - 1) : t[k] = s[k + off]
  <2>1. Shifted(t, s, i)
    BY LastOfIs
  <2>. HIDE DEF t
  <2>. QED BY <2>1 DEF Shifted
<1>. HIDE DEF t
<1>3. ASSUME NEW k \in 1..Len(t) PROVE t[k] \in Members(s) \cup {i}
  <2>1. Len(s) \in Nat /\ Len(t) \in Nat
    BY <1>1
  <2>2. CASE k = Len(t)
    BY <1>2, <2>2
  <2>3. CASE k # Len(t)
    <3>1. k \in 1..(Len(t) - 1) /\ k + off \in 1..Len(s)
      BY <1>2, <2>1, <2>3
    <3>. QED BY <1>2, <3>1 DEF Members
  <2>. QED BY <2>2, <2>3
<1>. QED BY <1>3 DEF Members, t

\* A full recent_trades of younger trades: so many have been told since.
LEMMA ManySince ==
    ASSUME NEW rec \in Seq(Nat), Len(rec) = RecentMax, NEW i \in Nat, NEW n \in Nat,
           \A k, m \in 1..Len(rec) : rec[k] = rec[m] => k = m,
           \A m \in 1..Len(rec) : rec[m] > i /\ rec[m] <= n
    PROVE  n - i >= RecentMax
<1>. DEFINE S == 1..RecentMax
            T == (i + 1)..n
            f == [k \in S |-> rec[k]]
<1>1. f \in [S -> T]
  BY FillNumbers
<1>2. \A k, m \in S : f[k] = f[m] => k = m
  OBVIOUS
<1>3. IsFiniteSet(T) /\ Cardinality(T) = IF i + 1 > n THEN 0 ELSE n - (i + 1) + 1
  <2>1. i + 1 \in Int /\ n \in Int
    OBVIOUS
  <2>. QED BY <2>1, FS_Interval
<1>4. IsFiniteSet(S) /\ Cardinality(S) = RecentMax
  <2>1. 1 \in Int /\ RecentMax \in Int
    BY FillNumbers
  <2>2. IsFiniteSet(S)
        /\ Cardinality(S) = IF 1 > RecentMax THEN 0 ELSE RecentMax - 1 + 1
    BY <2>1, FS_Interval
  <2>. QED BY <2>2, FillNumbers
<1>. HIDE DEF S, T, f
<1>5. ~(Cardinality(T) < Cardinality(S))
  BY <1>1, <1>2, <1>3, <1>4, FS_PigeonHole
<1>. QED BY <1>3, <1>4, <1>5, FillNumbers

\* A message of consecutive trades is taken from the oldest on.
LEMMA InTimeIs ==
    ASSUME NEW s \in Seq(Nat), NEW lo \in Nat, Members(s) = lo..(lo + Len(s) - 1)
    PROVE  /\ InTime(s) \in Seq(Nat) /\ Len(InTime(s)) = Len(s)
           /\ \A k \in 1..Len(s) : InTime(s)[k] = lo + k - 1
<1>. DEFINE ids == {s[k] : k \in DOMAIN s}
            Older(i) == {j \in ids : j < i}
            n == Len(s)
<1>1. n \in Nat /\ DOMAIN s = 1..n
  OBVIOUS
<1>2. ids = lo..(lo + n - 1)
  BY <1>1 DEF Members
<1>. HIDE DEF ids, n
<1>3. ASSUME NEW i \in ids PROVE Cardinality(Older(i)) = i - lo
  <2>1. Older(i) = lo..(i - 1)
    BY <1>1, <1>2
  <2>2. i \in Int /\ i >= lo /\ lo \in Int /\ i - 1 \in Int
    BY <1>1, <1>2
  <2>3. Cardinality(lo..(i - 1)) = IF lo > i - 1 THEN 0 ELSE i - 1 - lo + 1
    BY <2>2, FS_Interval
  <2>. HIDE DEF Older
  <2>. QED BY <2>1, <2>2, <2>3
<1>. DEFINE At(k) == CHOOSE i \in ids : Cardinality(Older(i)) = k - 1
<1>4. ASSUME NEW k \in 1..n PROVE At(k) = lo + k - 1
  <2>. DEFINE at == At(k)
  <2>. HIDE DEF Older
  <2>1. lo + k - 1 \in ids
    BY <1>1, <1>2
  <2>2. Cardinality(Older(lo + k - 1)) = k - 1
    BY <1>1, <1>3, <2>1
  <2>3. at \in ids /\ Cardinality(Older(at)) = k - 1
    BY <2>1, <2>2
  <2>. HIDE DEF at
  <2>4. at = lo + k - 1
    BY <1>1, <1>2, <1>3, <2>3
  <2>. QED BY <2>4 DEF at
<1>5. InTime(s) = [k \in 1..n |-> At(k)]
  BY <1>1 DEF InTime, ids
<1>. HIDE DEF At
<1>6. InTime(s) \in [1..n -> Nat] /\ \A k \in 1..n : InTime(s)[k] = lo + k - 1
  BY <1>1, <1>4, <1>5
<1>7. InTime(s) \in Seq(Nat) /\ Len(InTime(s)) = n
  BY <1>1, <1>6, SeqOfLength
<1>. QED BY <1>6, <1>7 DEF n

\* The position after n trades, in terms of a function of the first n.
Sums(t, n, f) ==
    f = [k \in 0..n |-> IF k = 0 THEN 0 ELSE f[k - 1] + t[k]]

\* Two sums over tapes that agree are the same.
LEMMA SumsAgree ==
    ASSUME NEW t, NEW u, NEW n \in Nat, NEW m \in Nat, NEW f, NEW g, NEW j \in 0..n, j <= m,
           Sums(t, n, f), Sums(u, m, g), \A k \in 1..j : t[k] = u[k]
    PROVE  f[j] = g[j]
<1>. DEFINE differ == {k \in 0..j : f[k] # g[k]}
<1>1. CASE differ = {}
  BY <1>1
<1>2. CASE differ # {}
  <2>1. PICK k \in differ : \A i \in differ : k <= i
    <3>1. differ \subseteq Nat
      OBVIOUS
    <3>. HIDE DEF differ
    <3>. QED BY <1>2, <3>1, LeastOf
  <2>2. k \in 0..j /\ f[k] # g[k] /\ k \in 0..n /\ k \in 0..m
    BY <2>1
  <2>3. CASE k = 0
    <3>1. f[0] = 0 /\ g[0] = 0
      BY <2>2 DEF Sums
    <3>. QED BY <2>2, <2>3, <3>1
  <2>4. CASE k # 0
    <3>1. k \in 1..j /\ k - 1 \in 0..j /\ k - 1 < k
      BY <2>2, <2>4
    <3>2. f[k - 1] = g[k - 1]
      BY <2>1, <3>1
    <3>3. f[k] = f[k - 1] + t[k] /\ g[k] = g[k - 1] + u[k]
      BY <2>2, <2>4 DEF Sums
    <3>. QED BY <2>2, <3>1, <3>2, <3>3
  <2>. QED BY <2>3, <2>4
<1>. QED BY <1>1, <1>2

\* The sums of a tape are there, and are numbers.
LEMMA SumsThere ==
    ASSUME NEW t \in Seq({1, -1}), NEW n \in 0..Len(t)
    PROVE  \E f : Sums(t, n, f) /\ f \in [0..n -> Int]
<1>. DEFINE F == [k \in Nat |-> [x \in Int |-> IF k \in 1..n THEN x + t[k] ELSE x]]
<1>0. n \in Nat /\ \A k \in 1..n : t[k] \in Int
  OBVIOUS
<1>1. F \in [Nat -> [Int -> Int]]
  BY <1>0
<1>2. PICK f \in [0..n -> Int] : f[0] = 0 /\ \A k \in 1..n : f[k] = F[k][f[k - 1]]
  <2>1. 0 \in Int
    OBVIOUS
  <2>. HIDE DEF F
  <2>2. \E g : Follows(g, n, Int, 0, F)
    BY <1>0, <1>1, <2>1, StepByStep
  <2>. QED BY <2>2 DEF Follows
<1>3. \A k \in 1..n : f[k] = f[k - 1] + t[k]
  <2>1. \A k \in 1..n : k - 1 \in 0..n /\ k \in Nat
    BY <1>0
  <2>. QED BY <1>0, <1>2, <2>1
<1>4. Sums(t, n, f)
  <2>1. \A k \in 0..n : k = 0 \/ k \in 1..n
    BY <1>0
  <2>2. f = [k \in 0..n |-> f[k]]
    BY <1>2
  <2>3. \A k \in 0..n : f[k] = IF k = 0 THEN 0 ELSE f[k - 1] + t[k]
    BY <1>2, <1>3, <2>1
  <2>. QED BY <2>2, <2>3 DEF Sums
<1>. QED BY <1>2, <1>4

\* PositionAt is such a sum.
LEMMA PositionIs ==
    ASSUME tape \in Seq({1, -1}), NEW n \in 0..Len(tape)
    PROVE  \E f \in [0..n -> Int] : Sums(tape, n, f) /\ PositionAt(n) = f[n]
<1>1. PICK g : Sums(tape, n, g) /\ g \in [0..n -> Int]
  BY SumsThere
<1>2. PICK sum : Sums(tape, n, sum) /\ PositionAt(n) = sum[n]
  <2>. DEFINE choice == CHOOSE f : Sums(tape, n, f)
  <2>1. Sums(tape, n, choice)
    BY <1>1
  <2>2. PositionAt(n) = choice[n]
    BY DEF PositionAt, Sums
  <2>. HIDE DEF choice
  <2>. QED BY <2>1, <2>2
<1>3. sum[n] = g[n]
  <2>1. n \in Nat /\ n \in 0..n /\ n <= n /\ \A k \in 1..n : tape[k] = tape[k]
    OBVIOUS
  <2>2. \A h, e : Sums(tape, n, h) /\ Sums(tape, n, e) => h[n] = e[n]
    BY <2>1, SumsAgree
  <2>. QED BY <1>1, <1>2, <2>2
<1>. QED BY <1>1, <1>2, <1>3

\* A trade moves the position by its size.
LEMMA PositionMoves ==
    ASSUME tape \in Seq({1, -1})
    PROVE  /\ \A n \in 0..Len(tape) : PositionAt(n) \in Int
           /\ \A n \in 1..Len(tape) : PositionAt(n) = PositionAt(n - 1) + tape[n]
<1>1. ASSUME NEW n \in 0..Len(tape) PROVE PositionAt(n) \in Int
  <2>1. n \in 0..n
    OBVIOUS
  <2>. QED BY <2>1, PositionIs
<1>2. ASSUME NEW n \in 1..Len(tape) PROVE PositionAt(n) = PositionAt(n - 1) + tape[n]
  <2>1. n \in 0..Len(tape) /\ n - 1 \in 0..Len(tape) /\ n \in Nat /\ n - 1 \in Nat
        /\ n - 1 \in 0..(n - 1) /\ n - 1 <= n /\ n \in 0..n /\ n # 0
    OBVIOUS
  <2>2. PICK f \in [0..n -> Int] : Sums(tape, n, f) /\ PositionAt(n) = f[n]
    BY <2>1, PositionIs
  <2>3. PICK g \in [0..(n - 1) -> Int] : Sums(tape, n - 1, g) /\ PositionAt(n - 1) = g[n - 1]
    BY <2>1, PositionIs
  <2>4. g[n - 1] = f[n - 1]
    <3>1. \A k \in 1..(n - 1) : tape[k] = tape[k]
      OBVIOUS
    <3>. QED BY SMTT(30), <2>1, <2>2, <2>3, <3>1, SumsAgree
  <2>5. f[n] = f[n - 1] + tape[n]
    BY <2>1, <2>2 DEF Sums
  <2>. QED BY <2>2, <2>3, <2>4, <2>5
<1>. QED BY <1>1, <1>2

\* Later trades do not change it.
LEMMA PositionStays ==
    ASSUME tape \in Seq({1, -1}), tape' \in Seq({1, -1}), Len(tape) <= Len(tape'),
           \A k \in 1..Len(tape) : tape'[k] = tape[k], NEW n \in 0..Len(tape)
    PROVE  PositionAt(n)' = PositionAt(n)
<1>1. PICK f \in [0..n -> Int] : Sums(tape, n, f) /\ PositionAt(n) = f[n]
  BY PositionIs
<1>2. n \in 0..Len(tape') /\ n \in Nat /\ n <= n /\ n \in 0..n
  OBVIOUS
<1>3. PICK g : Sums(tape', n, g)
  BY <1>2, SumsThere
<1>4. PICK sum : Sums(tape', n, sum) /\ PositionAt(n)' = sum[n]
  <2>. DEFINE choice == CHOOSE h : Sums(tape', n, h)
  <2>1. Sums(tape', n, choice)
    BY <1>3
  <2>2. PositionAt(n)' = choice[n]
    BY DEF PositionAt, Sums
  <2>. HIDE DEF choice
  <2>. QED BY <2>1, <2>2
<1>5. f[n] = sum[n]
  <2>1. \A k \in 1..n : tape[k] = tape'[k]
    OBVIOUS
  <2>2. \A h, e : Sums(tape, n, h) /\ Sums(tape', n, e) => h[n] = e[n]
    BY <1>2, <2>1, SumsAgree
  <2>. QED BY <1>1, <1>4, <2>2
<1>. QED BY <1>1, <1>4, <1>5

-----------------------------------------------------------------------------
(* One trade of a batch. *)

\* The identities after a trade.
LEMMA RememberedIs ==
    ASSUME NEW ids \in SUBSET Trades, NEW i \in Trades
    PROVE  Remembered(ids, i) \in SUBSET Trades /\ Remembered(ids, i) \subseteq ids \cup {i}
BY DEF Remembered

\* The places of the tape are trades.
LEMMA TapeTrades ==
    ASSUME FillTypes
    PROVE  /\ 1..Len(tape) \subseteq Trades /\ Trades \subseteq Nat \ {0}
           /\ \A i \in 1..Len(tape) : tape[i] \in Int
BY SMTT(30), FillNumbers DEF FillTypes, Trades

\* A trade the ledger skips, one it marks as seen, one it takes note of and cannot
\* count, and one it counts.
Counts(acc, i, bad, new) ==
    /\ new.seen = Remembered(acc.seen, i)
    /\ new.recent = LastOf(Append(acc.recent, i))
    /\ new.loose = acc.loose \cup {j \in Trades : j > i /\ acc.tally[j] > 0}
    /\ bad => /\ new.tally = acc.tally /\ new.base = acc.base
              /\ new.local = acc.local /\ new.started = acc.started
    /\ ~bad => /\ new.tally = [acc.tally EXCEPT ![i] = @ + 1]
               /\ new.base = [acc.base EXCEPT ![i] = IF acc.started THEN acc.local ELSE 0]
               /\ new.local = (IF acc.started THEN acc.local ELSE 0) + tape[i]
               /\ new.started = TRUE

Skips(acc, new) ==
    /\ new.tally = acc.tally /\ new.base = acc.base /\ new.local = acc.local
    /\ new.started = acc.started /\ new.recent = acc.recent /\ new.loose = acc.loose

\* Taking a trade does one of these, or nothing if the trade is known.
LEMMA TakeIs ==
    ASSUME FillTypes, NEW acc \in Ledgers, Len(acc.recent) <= RecentMax,
           NEW i \in 1..Len(tape), NEW bad \in BOOLEAN
    PROVE  LET new == Take(acc, i, bad)
           IN  /\ new \in Ledgers /\ Len(new.recent) <= RecentMax
               /\ Known(acc, i) => new = acc
               /\ ~Known(acc, i) /\ Echo(i)
                      => Skips(acc, new) /\ new.seen = Remembered(acc.seen, i)
               /\ ~Known(acc, i) /\ ~Echo(i) => Counts(acc, i, bad, new)
<1>. DEFINE new == Take(acc, i, bad)
            marked == [acc EXCEPT !.seen = Remembered(acc.seen, i)]
            younger == {j \in Trades : j > i /\ acc.tally[j] > 0}
            last == LastOf(Append(acc.recent, i))
            noted == [marked EXCEPT !.recent = last, !.loose = acc.loose \cup younger]
            start == IF acc.started THEN acc.local ELSE 0
<1>1. /\ acc.seen \in SUBSET Trades /\ acc.recent \in Seq(Trades) /\ acc.local \in Int
      /\ acc.started \in BOOLEAN /\ acc.tally \in [Trades -> Nat]
      /\ acc.base \in [Trades -> Int] /\ acc.loose \in SUBSET Trades
  BY DEF Ledgers
<1>2. i \in Trades /\ tape[i] \in Int
  BY TapeTrades
<1>3. Remembered(acc.seen, i) \in SUBSET Trades
  BY <1>1, <1>2, RememberedIs
<1>4. last \in Seq(Trades) /\ Len(last) <= RecentMax
  BY <1>1, <1>2, LastOfIs
<1>5. younger \in SUBSET Trades /\ start \in Int
  BY <1>1
<1>. HIDE DEF last, younger
<1>6. /\ marked \in Ledgers /\ marked.seen = Remembered(acc.seen, i) /\ Skips(acc, marked)
      /\ marked.recent = acc.recent
  BY <1>1, <1>3 DEF Ledgers, Skips
<1>. HIDE DEF marked
<1>7. /\ noted \in Ledgers /\ noted.seen = marked.seen /\ noted.recent = last
      /\ noted.loose = acc.loose \cup younger /\ noted.tally = marked.tally
      /\ noted.base = marked.base /\ noted.local = marked.local
      /\ noted.started = marked.started
  BY <1>1, <1>4, <1>5, <1>6 DEF Ledgers
<1>8. noted.tally = acc.tally /\ noted.base = acc.base /\ noted.local = acc.local
      /\ noted.started = acc.started
  BY <1>6, <1>7 DEF Skips
<1>. HIDE DEF noted, start
<1>9. CASE Known(acc, i)
  <2>1. new = acc
    BY <1>9 DEF Take
  <2>. QED BY <1>9, <2>1
<1>10. CASE ~Known(acc, i) /\ Echo(i)
  <2>1. new = marked
    BY <1>10 DEF Take, marked
  <2>. QED BY <1>6, <1>10, <2>1
<1>11. CASE ~Known(acc, i) /\ ~Echo(i) /\ bad
  <2>1. new = noted
    BY <1>11 DEF Take, marked, noted, younger, last
  <2>2. Counts(acc, i, bad, new)
    BY <1>6, <1>7, <1>8, <1>11, <2>1 DEF Counts, last, younger
  <2>. QED BY <1>4, <1>7, <1>11, <2>1, <2>2
<1>12. CASE ~Known(acc, i) /\ ~Echo(i) /\ ~bad
  <2>1. new = Applied(noted, i)
    BY <1>12 DEF Take, marked, noted, younger, last
  <2>2. /\ new \in Ledgers /\ new.seen = noted.seen /\ new.recent = noted.recent
        /\ new.loose = noted.loose /\ new.tally = [noted.tally EXCEPT ![i] = @ + 1]
        /\ new.base = [noted.base EXCEPT ![i] = IF noted.started THEN noted.local ELSE 0]
        /\ new.local = (IF noted.started THEN noted.local ELSE 0) + tape[i]
        /\ new.started = TRUE
    <3>1. /\ noted.tally \in [Trades -> Nat] /\ noted.base \in [Trades -> Int]
          /\ noted.local \in Int
      BY <1>7 DEF Ledgers
    <3>2. [noted.tally EXCEPT ![i] = @ + 1] \in [Trades -> Nat]
      BY <3>1, <1>2
    <3>3. [noted.base EXCEPT ![i] = IF noted.started THEN noted.local ELSE 0]
              \in [Trades -> Int]
      <4>1. (IF noted.started THEN noted.local ELSE 0) \in Int
        BY <3>1
      <4>. DEFINE first == IF noted.started THEN noted.local ELSE 0
      <4>. HIDE DEF first
      <4>2. first \in Int => [noted.base EXCEPT ![i] = first] \in [Trades -> Int]
        BY <3>1
      <4>. QED BY <4>1, <4>2 DEF first
    <3>4. (IF noted.started THEN noted.local ELSE 0) + tape[i] \in Int
      BY <3>1, <1>2
    <3>5. noted \in Ledgers
      BY <1>7
    <3>. HIDE DEF noted, new
    <3>. DEFINE b == [noted.base EXCEPT ![i] = IF noted.started THEN noted.local ELSE 0]
                c == [noted.tally EXCEPT ![i] = @ + 1]
                p == (IF noted.started THEN noted.local ELSE 0) + tape[i]
    <3>6. new = [noted EXCEPT !.base = b, !.local = p, !.started = TRUE, !.tally = c]
      BY <2>1, <3>5 DEF Applied, Ledgers
    <3>7. b \in [Trades -> Int] /\ c \in [Trades -> Nat] /\ p \in Int
      BY <3>2, <3>3, <3>4
    <3>8. /\ new.seen = noted.seen /\ new.recent = noted.recent /\ new.loose = noted.loose
          /\ new.tally = c /\ new.base = b /\ new.local = p /\ new.started = TRUE
      <4>. HIDE DEF b, c, p
      <4>. QED BY <3>5, <3>6 DEF Ledgers
    <3>9. new \in Ledgers
      <4>. HIDE DEF b, c, p
      <4>. QED BY <3>5, <3>6, <3>7 DEF Ledgers
    <3>. QED BY <3>8, <3>9
  <2>3. Counts(acc, i, bad, new)
    BY <1>6, <1>7, <1>8, <1>12, <2>2 DEF Counts, last, younger
  <2>. QED BY <1>4, <1>7, <1>12, <2>2, <2>3
<1>. QED BY <1>9, <1>10, <1>11, <1>12

\* A trade that is known, an echo, loose or not counted yet may be taken: what is kept
\* of the others still is.
LEMMA TakeKeeps ==
    ASSUME FillTypes, NEW acc \in Ledgers, Kept(acc), NEW i \in 1..told, NEW bad \in BOOLEAN,
           Known(acc, i) \/ Echo(i) \/ i \in acc.loose \/ acc.tally[i] = 0
    PROVE  Kept(Take(acc, i, bad))
<1>. DEFINE new == Take(acc, i, bad)
<1>1. /\ i \in 1..Len(tape) /\ i \in Trades /\ i <= told /\ told \in Nat /\ after \in Nat
      /\ Trades \subseteq Nat \ {0}
  <2>1. Len(tape) \in Nat /\ told \in 0..Len(tape) /\ after \in 0..Len(tape)
    BY DEF FillTypes
  <2>2. i \in 1..Len(tape)
    BY <2>1
  <2>. QED BY <2>1, <2>2, TapeTrades
<1>2. /\ acc.seen \in SUBSET Trades /\ acc.recent \in Seq(Trades)
      /\ acc.tally \in [Trades -> Nat] /\ acc.loose \in SUBSET Trades
      /\ Len(acc.recent) <= RecentMax /\ Len(acc.recent) \in Nat
  BY DEF Ledgers, Kept
<1>3. /\ new \in Ledgers /\ Len(new.recent) <= RecentMax
      /\ Known(acc, i) => new = acc
      /\ ~Known(acc, i) /\ Echo(i) => Skips(acc, new) /\ new.seen = Remembered(acc.seen, i)
      /\ ~Known(acc, i) /\ ~Echo(i) => Counts(acc, i, bad, new)
  BY <1>1, <1>2, TakeIs
<1>. HIDE DEF new
<1>4. Remembered(acc.seen, i) \subseteq acc.seen \cup {i}
  BY <1>1, <1>2, RememberedIs
<1>5. CASE Known(acc, i)
  BY <1>3, <1>5 DEF new
<1>6. CASE ~Known(acc, i) /\ Echo(i)
  <2>1. Skips(acc, new) /\ new.seen \subseteq acc.seen \cup {i}
    BY <1>3, <1>4, <1>6
  <2>2. \A j \in Trades : Noted(new, j) => Noted(acc, j) \/ j = i
    BY <2>1 DEF Noted, Skips
  <2>3. \A j \in Trades : Noted(new, j) => j <= told
    BY <1>1, <2>2 DEF Kept
  <2>4. Kept(new)
    BY <2>1, <2>3 DEF Kept, Skips
  <2>. QED BY <2>4 DEF new
<1>7. CASE ~Known(acc, i) /\ ~Echo(i)
  <2>. DEFINE rec == acc.recent
              t == new.recent
              n == Len(t)
  <2>1. Counts(acc, i, bad, new)
    BY <1>3, <1>7
  <2>2. t = LastOf(Append(rec, i))
        /\ new.loose = acc.loose \cup {j \in Trades : j > i /\ acc.tally[j] > 0}
        /\ new.seen \subseteq acc.seen \cup {i}
    BY <1>4, <2>1 DEF Counts
  <2>3. \A k \in 1..Len(rec) : rec[k] # i
    BY <1>2, <1>7 DEF Known
  <2>4. PICK off \in {0, 1} :
            /\ n = Len(rec) + 1 - off /\ (off = 1 => Len(rec) = RecentMax)
            /\ t[n] = i /\ \A k \in 1..(n - 1) : t[k] = rec[k + off]
    <3>. HIDE DEF rec
    <3>1. rec \in Seq(Trades) /\ Len(rec) <= RecentMax
      BY <1>2 DEF rec
    <3>2. i \in Trades
      BY <1>1
    <3>3. Shifted(LastOf(Append(rec, i)), rec, i)
      BY <3>1, <3>2, LastOfIs
    <3>4. t = LastOf(Append(rec, i)) /\ n = Len(t)
      BY <2>2
    <3>. HIDE DEF t, n
    <3>. QED BY <3>3, <3>4 DEF Shifted
  <2>. HIDE DEF t, n, rec
  <2>5. n \in Nat /\ n >= 1 /\ t \in Seq(Trades) /\ n <= RecentMax
    <3>1. t \in Seq(Trades) /\ n = Len(t) /\ Len(t) <= RecentMax
      BY <1>3 DEF Ledgers, t, n
    <3>2. Len(rec) \in Nat
      BY <1>2 DEF rec
    <3>. QED BY <2>4, <3>1, <3>2, FillNumbers
  <2>6. \A k \in 1..n : k = n \/ (k \in 1..(n - 1) /\ k + off \in 1..Len(rec))
    BY <1>2, <2>4, <2>5 DEF rec
  <2>7. \A k \in 1..n : t[k] = i \/ \E m \in 1..Len(rec) : t[k] = rec[m]
    BY <2>4, <2>6
  <2>8. \A j \in Trades : \/ new.tally[j] = acc.tally[j]
                          \/ j = i /\ new.tally[j] = acc.tally[j] + 1
    <3>1. CASE bad
      BY <2>1, <3>1 DEF Counts
    <3>2. CASE ~bad
      BY <1>2, <2>1, <3>2 DEF Counts
    <3>. QED BY <3>1, <3>2
  <2>9. \A j \in Trades : Noted(new, j) => Noted(acc, j) \/ j = i
    <3>. TAKE j \in Trades
    <3>. HAVE Noted(new, j)
    <3>1. CASE new.tally[j] > 0
      BY <2>8, <3>1 DEF Noted
    <3>2. CASE j \in new.seen
      BY <2>2, <3>2 DEF Noted
    <3>3. CASE j \in Members(t)
      BY <2>7, <3>3 DEF Noted, Members, n, rec
    <3>. QED BY <3>1, <3>2, <3>3 DEF Noted, t
  <2>10. \A j \in Trades : Noted(new, j) => j <= told
    BY <1>1, <2>9 DEF Kept
  <2>11. \A k, m \in 1..n : t[k] = t[m] => k = m
    <3>. SUFFICES ASSUME NEW k \in 1..n, NEW m \in 1..n, t[k] = t[m], k # m PROVE FALSE
      OBVIOUS
    <3>1. CASE k = n
      <4>1. m \in 1..(n - 1) /\ m + off \in 1..Len(rec) /\ t[m] = rec[m + off]
        BY <2>4, <2>6, <3>1
      <4>. QED BY <2>3, <2>4, <3>1, <4>1 DEF rec
    <3>2. CASE m = n
      <4>1. k \in 1..(n - 1) /\ k + off \in 1..Len(rec) /\ t[k] = rec[k + off]
        BY <2>4, <2>6, <3>2
      <4>. QED BY <2>3, <2>4, <3>2, <4>1 DEF rec
    <3>3. CASE k # n /\ m # n
      <4>1. /\ k + off \in 1..Len(rec) /\ t[k] = rec[k + off]
            /\ m + off \in 1..Len(rec) /\ t[m] = rec[m + off]
        BY <2>4, <2>6, <3>3
      <4>2. k + off = m + off
        BY <4>1 DEF Kept, rec
      <4>. QED BY <4>2, <2>4
    <3>. QED BY <3>1, <3>2, <3>3
  <2>12. ASSUME NEW j \in Trades \ new.loose PROVE new.tally[j] <= 1
    <3>1. j \notin acc.loose /\ acc.tally[j] <= 1 /\ acc.tally[j] \in Nat
      BY <1>2, <2>2 DEF Kept
    <3>2. j = i => acc.tally[j] = 0
      BY <1>7, <3>1
    <3>. QED BY <2>8, <3>1, <3>2
  <2>13. ASSUME NEW j \in Trades \ new.loose, j > after, new.tally[j] > 0
         PROVE  Remembers(t, j)
    <3>1. CASE j = i
      <4>1. n \in 1..n /\ t[n] = j /\ \A m \in (n + 1)..n : t[m] > j
        BY <2>4, <2>5, <3>1
      <4>. QED BY <4>1 DEF Remembers, n
    <3>2. CASE j # i
      <4>1. acc.tally[j] > 0 /\ j \notin acc.loose /\ j \in Nat /\ ~(j > i) /\ i > j
        BY <1>1, <1>2, <2>2, <2>8, <2>13, <3>2
      <4>2. Remembers(rec, j)
        BY <2>13, <4>1 DEF Kept, rec
      <4>3. CASE Len(rec) = RecentMax /\ \A m \in 1..Len(rec) : rec[m] > j
        <5>1. \A m \in 1..n : t[m] > j
          BY <2>7, <4>1, <4>3
        <5>2. n = RecentMax
          BY <1>2, <2>4, <2>5, <4>3, FillNumbers
        <5>. QED BY <5>1, <5>2 DEF Remembers, n
      <4>4. ASSUME NEW k \in 1..Len(rec), rec[k] = j, \A m \in (k + 1)..Len(rec) : rec[m] > j
            PROVE  Remembers(t, j)
        <5>1. CASE k - off >= 1
          <6>. DEFINE p == k - off
          <6>1. p \in 1..(n - 1) /\ p + off = k /\ p \in 1..n
            BY <1>2, <2>4, <2>5, <5>1 DEF rec
          <6>. HIDE DEF p
          <6>2. t[p] = j
            BY <2>4, <4>4, <6>1
          <6>3. ASSUME NEW m \in (p + 1)..n PROVE t[m] > j
            <7>1. CASE m = n
              BY <2>4, <4>1, <7>1
            <7>2. CASE m # n
              <8>1. m \in 1..n /\ m \in 1..(n - 1)
                BY <2>5, <6>1, <7>2
              <8>2. m + off \in (k + 1)..Len(rec)
                BY <2>4, <2>6, <6>1, <8>1
              <8>. QED BY <2>4, <4>4, <8>1, <8>2
            <7>. QED BY <7>1, <7>2
          <6>. QED BY <6>1, <6>2, <6>3 DEF Remembers, n
        <5>2. CASE ~(k - off >= 1)
          <6>1. k = 1 /\ off = 1 /\ n = RecentMax
            BY <1>2, <2>4, <2>5, <5>2 DEF rec
          <6>2. ASSUME NEW m \in 1..n PROVE t[m] > j
            <7>1. CASE m = n
              BY <2>4, <4>1, <7>1
            <7>2. CASE m # n
              <8>1. t[m] = rec[m + 1] /\ m + 1 \in (k + 1)..Len(rec)
                BY <2>4, <2>6, <6>1, <7>2
              <8>. QED BY <4>4, <8>1
            <7>. QED BY <7>1, <7>2
          <6>. QED BY <6>1, <6>2 DEF Remembers, n
        <5>. QED BY <5>1, <5>2
      <4>. QED BY <4>2, <4>3, <4>4 DEF Remembers
    <3>. QED BY <3>1, <3>2
  <2>14. Kept(new)
    BY <2>5, <2>10, <2>11, <2>12, <2>13 DEF Kept, t, n
  <2>. QED BY <2>14 DEF new
<1>. QED BY <1>5, <1>6, <1>7

-----------------------------------------------------------------------------
(* A batch, trade by trade. *)

\* The ledgers of a batch follow each other.
LEMMA TakenIs ==
    ASSUME FillTypes, Kept(Ledger), NEW s \in Seq(Nat), NEW bad \in Nat,
           \A k \in 1..Len(s) : s[k] \in 1..Len(tape)
    PROVE  LET taken == Taken(s, bad)
           IN  /\ taken[0] = Ledger /\ Ledger \in Ledgers
               /\ \A k \in 1..Len(s) : taken[k] = Take(taken[k - 1], s[k], k = bad)
<1>. DEFINE S == {acc \in Ledgers : Len(acc.recent) <= RecentMax}
            n == Len(s)
            F == [k \in Nat |->
                     [acc \in S |-> IF k \in 1..n THEN Take(acc, s[k], k = bad) ELSE acc]]
            R(h) == h = [k \in 0..n |->
                            IF k = 0 THEN Ledger ELSE Take(h[k - 1], s[k], k = bad)]
<1>1. Ledger \in Ledgers /\ Ledger \in S /\ n \in Nat
  <2>1. Ledger \in Ledgers
    BY DEF Ledger, Ledgers, FillTypes
  <2>. QED BY <2>1 DEF Kept
<1>2. F \in [Nat -> [S -> S]]
  <2>1. \A k \in 1..n : \A acc \in S : Take(acc, s[k], k = bad) \in S
    BY TakeIs
  <2>2. \A k \in Nat : \A acc \in S :
            (IF k \in 1..n THEN Take(acc, s[k], k = bad) ELSE acc) \in S
    BY <2>1
  <2>. HIDE DEF S, n
  <2>. QED BY <2>2
<1>3. PICK h \in [0..n -> S] : h[0] = Ledger /\ \A k \in 1..n : h[k] = F[k][h[k - 1]]
  <2>. HIDE DEF F, S, n
  <2>1. \E g : Follows(g, n, S, Ledger, F)
    BY <1>1, <1>2, StepByStep
  <2>. QED BY <2>1 DEF Follows
<1>4. \A k \in 1..n : h[k] = Take(h[k - 1], s[k], k = bad)
  <2>1. \A k \in 1..n : k - 1 \in 0..n /\ k \in Nat
    BY <1>1
  <2>. HIDE DEF S, n
  <2>. QED BY <1>3, <2>1
<1>5. R(h)
  <2>. HIDE DEF S, n
  <2>1. \A k \in 0..n : k = 0 \/ k \in 1..n
    BY <1>1
  <2>2. h = [k \in 0..n |-> h[k]]
    BY <1>3
  <2>3. \A k \in 0..n : h[k] = IF k = 0 THEN Ledger ELSE Take(h[k - 1], s[k], k = bad)
    BY <1>3, <1>4, <2>1
  <2>. QED BY <2>2, <2>3
<1>6. R(Taken(s, bad))
  <2>1. Taken(s, bad) = CHOOSE g : R(g)
    BY DEF Taken
  <2>. HIDE DEF R
  <2>. QED BY <1>5, <2>1
<1>7. Taken(s, bad)[0] = Ledger
  <2>1. 0 \in 0..n
    BY <1>1
  <2>. QED BY <1>6, <2>1
<1>8. \A k \in 1..n : Taken(s, bad)[k] = Take(Taken(s, bad)[k - 1], s[k], k = bad)
  <2>1. \A k \in 1..n : k \in 0..n /\ k # 0
    BY <1>1
  <2>. HIDE DEF n
  <2>. QED BY <1>6, <2>1
<1>. QED BY <1>1, <1>7, <1>8

\* Before a bad trade the local position is that before the next trade: none of those
\* that are told again changes the ledger.
InStep(acc, b, new) ==
    /\ b < new => /\ acc.local = PositionAt(new - 1) /\ acc.tally = tally
                  /\ acc.loose = loose
    /\ b >= new => acc.local = PositionAt(b)

\* After the trades up to b of the batch from lo on: what the ledger knows of, what it
\* still has, what it counts, and what the trades it counts were applied to.
Walked(acc, b, lo, new, bad) ==
    /\ acc \in Ledgers /\ Kept(acc) /\ (started => acc.started)
    /\ \A i \in Trades : Noted(acc, i) => i < new \/ i <= b
    /\ loose \subseteq acc.loose /\ \A i \in Trades : tally[i] > 0 => acc.tally[i] > 0
    /\ \A i \in Trades : i <= after => acc.tally[i] = tally[i] /\ acc.base[i] = base[i]
    /\ \A i \in Trades :
           i > after /\ (i \in acc.seen \/ i \in Members(acc.recent) \/ i \in lo..b)
               => acc.tally[i] > 0 \/ i \in odd \/ i = bad
    /\ run = "trading" => \A i \in Trades :
           i \notin odd \cup acc.loose /\ acc.tally[i] > 0 => acc.base[i] = PositionAt(i - 1)
    /\ run = "trading" /\ AddsInStep(lo, new) /\ b # bad => InStep(acc, b, new)

\* The trade that is next has not been counted, but those that are known, echoes or
\* loose: what is told again is no more than recent_trades holds.
LEMMA NextIsFree ==
    ASSUME FillTypes, NEW lo \in 1..told, NEW new \in lo..(told + 1), Covers(lo, new),
           NEW acc \in Ledgers, Kept(acc), NEW b \in lo..told,
           \A i \in Trades : Noted(acc, i) => i < new \/ i <= b - 1
    PROVE  Known(acc, b) \/ Echo(b) \/ b \in acc.loose \/ acc.tally[b] = 0
<1>. SUFFICES ASSUME ~Known(acc, b), ~Echo(b), b \notin acc.loose, acc.tally[b] # 0
              PROVE  FALSE
  OBVIOUS
<1>1. Len(tape) \in Nat /\ told \in 0..Len(tape) /\ after \in Nat
  BY DEF FillTypes
<1>2. b \in Trades /\ b \in Nat /\ told \in Nat /\ lo \in Nat /\ new \in Nat
      /\ lo <= b /\ b <= told
  <2>1. b \in 1..Len(tape)
    BY <1>1
  <2>. QED BY <1>1, <2>1, TapeTrades
<1>3. acc.tally[b] > 0 /\ b > after
  <2>1. acc.tally \in [Trades -> Nat]
    BY DEF Ledgers
  <2>. QED BY <1>1, <1>2, <2>1 DEF Echo
<1>4. Remembers(acc.recent, b)
  BY <1>2, <1>3 DEF Kept
<1>5. Len(acc.recent) = RecentMax /\ \A m \in 1..Len(acc.recent) : acc.recent[m] > b
  <2>1. ~\E k \in 1..Len(acc.recent) : acc.recent[k] = b
    BY DEF Known, Ledgers
  <2>. QED BY <1>4, <2>1 DEF Remembers
<1>6. told - b >= RecentMax
  <2>1. acc.recent \in Seq(Nat)
    BY TapeTrades DEF Ledgers
  <2>2. \A m \in 1..Len(acc.recent) : acc.recent[m] <= told
    <3>. TAKE m \in 1..Len(acc.recent)
    <3>1. acc.recent[m] \in Trades /\ Noted(acc, acc.recent[m])
      BY DEF Ledgers, Noted, Members
    <3>. QED BY <3>1 DEF Kept
  <2>. QED BY <1>2, <1>5, <2>1, <2>2, ManySince DEF Kept
<1>7. lo = new
  BY <1>2, <1>6, FillNumbers DEF Covers
<1>8. Noted(acc, b)
  BY <1>3 DEF Noted
<1>. QED BY <1>2, <1>7, <1>8

\* One trade more.
LEMMA WalkOn ==
    ASSUME FillTypes, NEW lo \in 1..told, NEW new \in lo..(told + 1), Covers(lo, new),
           run = "trading" => started /\ (AddsOdd(lo) \/ AddsInStep(lo, new)),
           NEW bad, NEW b \in lo..told, NEW acc, Walked(acc, b - 1, lo, new, bad),
           b - 1 # bad
    PROVE  Walked(Take(acc, b, b = bad), b, lo, new, bad)
<1>. DEFINE next == Take(acc, b, b = bad)
<1>1. /\ Len(tape) \in Nat /\ told \in 0..Len(tape) /\ after \in Nat
      /\ tally \in [Trades -> Nat] /\ tape \in Seq({1, -1})
  BY DEF FillTypes
<1>2. /\ b \in 1..Len(tape) /\ b \in 1..told /\ b \in Trades /\ b \in Nat
      /\ lo \in Nat /\ new \in Nat /\ lo <= b /\ b <= told /\ Trades \subseteq Nat \ {0}
  <2>1. b \in 1..Len(tape)
    BY <1>1
  <2>. QED BY <1>1, <2>1, TapeTrades
<1>3. acc \in Ledgers /\ Kept(acc) /\ Len(acc.recent) <= RecentMax
  BY DEF Walked, Kept
<1>4. /\ acc.seen \in SUBSET Trades /\ acc.tally \in [Trades -> Nat]
      /\ acc.base \in [Trades -> Int] /\ acc.recent \in Seq(Trades)
  BY <1>3 DEF Ledgers
<1>5. Known(acc, b) \/ Echo(b) \/ b \in acc.loose \/ acc.tally[b] = 0
  BY <1>2, <1>3, NextIsFree DEF Walked
<1>6. /\ next \in Ledgers
      /\ Known(acc, b) => next = acc
      /\ ~Known(acc, b) /\ Echo(b) => Skips(acc, next) /\ next.seen = Remembered(acc.seen, b)
      /\ ~Known(acc, b) /\ ~Echo(b) => Counts(acc, b, b = bad, next)
  BY <1>2, <1>3, TakeIs
<1>7. Kept(next)
  BY <1>2, <1>3, <1>5, TakeKeeps
<1>8. next.seen \subseteq acc.seen \cup {b}
  BY <1>2, <1>4, <1>6, RememberedIs DEF Counts
<1>. HIDE DEF next
<1>9. Known(acc, b) => b \in acc.seen \/ b \in Members(acc.recent)
  <2>1. DOMAIN acc.recent = 1..Len(acc.recent)
    BY <1>4
  <2>. QED BY <2>1 DEF Known, Members
<1>10. Known(acc, b) => Noted(acc, b) /\ b < new
  <2>1. Known(acc, b) => Noted(acc, b)
    BY <1>9 DEF Noted
  <2>. QED BY <1>2, <2>1 DEF Walked
<1>11. CASE Known(acc, b)
  <2>1. next = acc
    BY <1>6, <1>11
  <2>2. \A i \in Trades : Noted(next, i) => i < new \/ i <= b
    BY <1>2, <2>1 DEF Walked
  <2>3. ASSUME NEW i \in Trades, i > after,
               i \in next.seen \/ i \in Members(next.recent) \/ i \in lo..b
        PROVE  next.tally[i] > 0 \/ i \in odd \/ i = bad
    <3>1. i \in acc.seen \/ i \in Members(acc.recent) \/ i \in lo..(b - 1)
      <4>1. i \in lo..b => i = b \/ i \in lo..(b - 1)
        BY <1>2
      <4>. QED BY <1>9, <1>11, <2>1, <2>3, <4>1
    <3>. QED BY <2>1, <2>3, <3>1 DEF Walked
  <2>4. ASSUME run = "trading", AddsInStep(lo, new) PROVE InStep(next, b, new)
    <3>1. InStep(acc, b - 1, new)
      BY <2>4 DEF Walked
    <3>. QED BY <1>2, <1>10, <1>11, <2>1, <3>1 DEF InStep
  <2>. QED BY <1>3, <2>1, <2>2, <2>3, <2>4 DEF Walked, next
<1>12. CASE ~Known(acc, b) /\ Echo(b)
  <2>1. Skips(acc, next) /\ b <= after
    BY <1>6, <1>12 DEF Echo
  <2>2. \A i \in Trades : Noted(next, i) => Noted(acc, i) \/ i = b
    BY <1>8, <2>1 DEF Noted, Skips
  <2>3. \A i \in Trades : Noted(next, i) => i < new \/ i <= b
    BY <1>2, <2>2 DEF Walked
  <2>4. ASSUME NEW i \in Trades, i > after,
               i \in next.seen \/ i \in Members(next.recent) \/ i \in lo..b
        PROVE  next.tally[i] > 0 \/ i \in odd \/ i = bad
    <3>1. i # b
      BY <1>1, <1>2, <2>1, <2>4
    <3>2. i \in acc.seen \/ i \in Members(acc.recent) \/ i \in lo..(b - 1)
      <4>1. i \in lo..b => i \in lo..(b - 1)
        BY <1>2, <3>1
      <4>. QED BY <1>8, <2>1, <2>4, <3>1, <4>1 DEF Skips
    <3>. QED BY <2>1, <2>4, <3>2 DEF Walked, Skips
  <2>5. ASSUME run = "trading", AddsInStep(lo, new) PROVE InStep(next, b, new)
    <3>1. InStep(acc, b - 1, new)
      BY <2>5 DEF Walked
    <3>2. b < new
      BY <1>1, <1>2, <2>1, <2>5 DEF AddsInStep
    <3>. QED BY <1>2, <2>1, <3>1, <3>2 DEF InStep, Skips
  <2>6. started => next.started
    BY <2>1 DEF Skips, Walked
  <2>7. loose \subseteq next.loose /\ \A i \in Trades : tally[i] > 0 => next.tally[i] > 0
    BY <2>1 DEF Skips, Walked
  <2>8. \A i \in Trades : i <= after => next.tally[i] = tally[i] /\ next.base[i] = base[i]
    BY <2>1 DEF Skips, Walked
  <2>9. run = "trading" => \A i \in Trades :
           i \notin odd \cup next.loose /\ next.tally[i] > 0 => next.base[i] = PositionAt(i - 1)
    BY <2>1 DEF Skips, Walked
  <2>. QED BY <1>6, <1>7, <2>3, <2>4, <2>5, <2>6, <2>7, <2>8, <2>9 DEF Walked, next
<1>13. CASE ~Known(acc, b) /\ ~Echo(b)
  <2>1. Counts(acc, b, b = bad, next) /\ b > after
    BY <1>1, <1>2, <1>6, <1>13 DEF Echo
  <2>2. Members(next.recent) \subseteq Members(acc.recent) \cup {b}
    BY <1>2, <1>3, <1>4, <2>1, LastOfMembers DEF Counts
  <2>3. acc.loose \subseteq next.loose
    BY <2>1 DEF Counts
  <2>4. \A i \in Trades : i # b => next.tally[i] = acc.tally[i] /\ next.base[i] = acc.base[i]
    <3>1. CASE b = bad
      BY <2>1, <3>1 DEF Counts
    <3>2. CASE b # bad
      BY <1>4, <2>1, <3>2 DEF Counts
    <3>. QED BY <3>1, <3>2
  <2>5. b # bad => /\ next.tally[b] = acc.tally[b] + 1 /\ next.tally[b] > 0
                   /\ next.started = TRUE
                   /\ next.base[b] = IF acc.started THEN acc.local ELSE 0
                   /\ next.local = (IF acc.started THEN acc.local ELSE 0) + tape[b]
    BY <1>2, <1>4, <2>1 DEF Counts
  <2>6. b = bad => /\ next.tally = acc.tally /\ next.base = acc.base
                   /\ next.started = acc.started
    BY <2>1 DEF Counts
  <2>7. \A i \in Trades : acc.tally[i] > 0 => next.tally[i] > 0
    BY <2>4, <2>5, <2>6
  <2>8. \A i \in Trades : Noted(next, i) => Noted(acc, i) \/ i = b
    BY <1>8, <2>2, <2>4 DEF Noted
  <2>9. \A i \in Trades : Noted(next, i) => i < new \/ i <= b
    BY <1>2, <2>8 DEF Walked
  <2>10. ASSUME NEW i \in Trades, i > after,
                i \in next.seen \/ i \in Members(next.recent) \/ i \in lo..b
         PROVE  next.tally[i] > 0 \/ i \in odd \/ i = bad
    <3>1. CASE i = b
      BY <2>5, <3>1
    <3>2. CASE i # b
      <4>1. i \in acc.seen \/ i \in Members(acc.recent) \/ i \in lo..(b - 1)
        <5>1. i \in lo..b => i \in lo..(b - 1)
          BY <1>2, <3>2
        <5>. QED BY <1>8, <2>2, <2>10, <3>2, <5>1
      <4>. QED BY <2>7, <2>10, <4>1 DEF Walked
    <3>. QED BY <3>1, <3>2
  <2>11. ASSUME run = "trading", AddsInStep(lo, new), b # bad
         PROVE  /\ b >= new /\ acc.started = TRUE /\ acc.local = PositionAt(b - 1)
                /\ InStep(next, b, new)
    <3>1. InStep(acc, b - 1, new)
      BY <2>11 DEF Walked
    <3>2. b >= new
      <4>. SUFFICES ASSUME b < new PROVE FALSE
        BY <1>2
      <4>1. b \in lo..(new - 1)
        BY <1>2
      <4>2. tally[b] > 0 /\ b \notin loose
        BY <2>1, <2>11, <4>1 DEF AddsInStep
      <4>3. acc.tally = tally /\ acc.loose = loose
        BY <1>2, <3>1 DEF InStep
      <4>. QED BY <1>1, <1>2, <1>5, <1>13, <4>2, <4>3
    <3>3. acc.local = PositionAt(b - 1)
      <4>1. CASE b - 1 < new
        <5>1. b - 1 = new - 1
          BY <1>2, <3>2, <4>1
        <5>. QED BY <3>1, <4>1, <5>1 DEF InStep
      <4>2. CASE b - 1 >= new
        BY <3>1, <4>2 DEF InStep
      <4>. QED BY <1>2, <4>1, <4>2
    <3>4. acc.started = TRUE
      BY <1>3, <2>11 DEF Walked, Ledgers
    <3>5. PositionAt(b) = PositionAt(b - 1) + tape[b]
      BY <1>1, <1>2, PositionMoves
    <3>6. next.local = PositionAt(b)
      BY <2>5, <2>11, <3>3, <3>4, <3>5
    <3>. QED BY <1>2, <3>2, <3>3, <3>4, <3>6 DEF InStep
  <2>12. ASSUME run = "trading", NEW i \in Trades, i \notin odd \cup next.loose,
                next.tally[i] > 0
         PROVE  next.base[i] = PositionAt(i - 1)
    <3>1. i \notin odd \cup acc.loose
      BY <2>3, <2>12
    <3>2. CASE i # b \/ b = bad
      <4>1. next.tally[i] = acc.tally[i] /\ next.base[i] = acc.base[i]
        BY <2>4, <2>6, <3>2
      <4>. QED BY <2>12, <3>1, <4>1 DEF Walked
    <3>3. CASE i = b /\ b # bad
      <4>1. acc.tally[b] = 0
        BY <1>5, <1>13, <3>1, <3>3
      <4>2. tally[b] = 0
        <5>1. tally[b] > 0 => acc.tally[b] > 0
          BY <1>2 DEF Walked
        <5>. QED BY <1>1, <1>2, <4>1, <5>1
      <4>3. ~AddsOdd(lo)
        BY <2>1, <3>1, <3>3, <4>2 DEF AddsOdd
      <4>4. AddsInStep(lo, new)
        BY <2>12, <4>3
      <4>. QED BY <2>5, <2>11, <2>12, <3>3, <4>4
    <3>. QED BY <3>2, <3>3
  <2>13. started => next.started
    BY <2>5, <2>6 DEF Walked
  <2>14. loose \subseteq next.loose /\ \A i \in Trades : tally[i] > 0 => next.tally[i] > 0
    BY <2>3, <2>7 DEF Walked
  <2>15. ASSUME NEW i \in Trades, i <= after
         PROVE  next.tally[i] = tally[i] /\ next.base[i] = base[i]
    <3>1. i # b
      BY <1>1, <1>2, <2>1, <2>15
    <3>. QED BY <2>4, <2>15, <3>1 DEF Walked
  <2>. QED BY <1>6, <1>7, <2>9, <2>10, <2>11, <2>12, <2>13, <2>14, <2>15 DEF Walked, next
<1>. QED BY <1>11, <1>12, <1>13

\* The bad trade of a batch; -1 is none.
BadOne(lo, bad) == IF bad = 0 THEN -1 ELSE lo + bad - 1

\* The whole batch, or what comes up to the bad trade.
LEMMA BatchWalked ==
    ASSUME FillInv, pending # <<>>, NEW lo \in 1..told, NEW new \in lo..(told + 1),
           Covers(lo, new), run = "trading" => AddsOdd(lo) \/ AddsInStep(lo, new),
           NEW bad \in 0..Len(pending), NEW last \in 0..Len(pending), bad = 0 \/ last <= bad
    PROVE  LET batch == InTime(pending)
           IN  /\ Len(batch) = Len(pending) /\ \A k \in 1..Len(pending) : batch[k] = lo + k - 1
               /\ Walked(Taken(batch, bad)[last], lo + last - 1, lo, new, BadOne(lo, bad))
<1>. DEFINE batch == InTime(pending)
            taken == Taken(batch, bad)
            n == Len(pending)
            At(k) == Walked(taken[k], lo + k - 1, lo, new, BadOne(lo, bad))
<1>1. /\ told \in Nat /\ lo \in Nat /\ new \in Nat /\ lo <= told /\ lo <= new /\ lo > 0
      /\ n \in Nat /\ told = lo + n - 1 /\ Members(pending) = lo..told
      /\ pending \in Seq(Nat) /\ FillTypes
  <2>1. FillTypes
    BY DEF FillInv
  <2>2. Len(tape) \in Nat /\ told \in 0..Len(tape) /\ pending \in Seq(Trades)
    BY <2>1 DEF FillTypes
  <2>3. pending \in Seq(Nat)
    BY <2>1, <2>2, TapeTrades
  <2>. QED BY <2>1, <2>2, <2>3 DEF Covers
<1>2. /\ batch \in Seq(Nat) /\ Len(batch) = n /\ \A k \in 1..n : batch[k] = lo + k - 1
  <2>1. Members(pending) = lo..(lo + Len(pending) - 1)
    BY <1>1
  <2>. QED BY <1>1, <2>1, InTimeIs
<1>. HIDE DEF batch, n
<1>3. \A k \in 1..n : batch[k] \in lo..told /\ batch[k] \in 1..Len(tape)
  <2>1. told <= Len(tape) /\ Len(tape) \in Nat
    BY <1>1 DEF FillTypes
  <2>. QED BY SMTT(30), <1>1, <1>2, <2>1
<1>4. bad \in Nat /\ Kept(Ledger) /\ last \in 0..n /\ (bad = 0 \/ last <= bad)
  BY DEF FillInv, n
<1>5. /\ taken[0] = Ledger /\ Ledger \in Ledgers
      /\ \A k \in 1..n : taken[k] = Take(taken[k - 1], batch[k], k = bad)
  <2>1. FillTypes /\ Kept(Ledger) /\ batch \in Seq(Nat) /\ bad \in Nat
    BY <1>1, <1>2, <1>4
  <2>2. \A k \in 1..Len(batch) : batch[k] \in 1..Len(tape)
    BY <1>2, <1>3
  <2>3. /\ Taken(batch, bad)[0] = Ledger /\ Ledger \in Ledgers
        /\ \A k \in 1..Len(batch) :
              Taken(batch, bad)[k] = Take(Taken(batch, bad)[k - 1], batch[k], k = bad)
    BY <2>1, <2>2, TakenIs
  <2>. QED BY <1>2, <2>3
<1>. HIDE DEF taken
<1>6. At(0)
  <2>1. run # "down"
    BY DEF FillInv, PositionFits, Quiet
  <2>2. \A i \in Trades : Noted(Ledger, i) => i < new
    BY DEF Covers
  <2>3. lo + 0 - 1 = lo - 1 /\ lo - 1 < new /\ ~(lo - 1 >= new)
    BY <1>1
  <2>4. ASSUME NEW i \in Trades, i > after,
               i \in seen \/ i \in Members(recent) \/ i \in lo..(lo - 1)
        PROVE  tally[i] > 0 \/ i \in odd
    <3>1. i \notin lo..(lo - 1)
      BY <1>1
    <3>. QED BY <2>1, <2>4, <3>1 DEF FillInv, NothingMissed
  <2>5. run = "trading" => \A i \in Trades :
            i \notin odd \cup loose /\ tally[i] > 0 => base[i] = PositionAt(i - 1)
    BY DEF FillInv, BaseFits
  <2>6. AddsInStep(lo, new) => InStep(Ledger, lo - 1, new)
    BY <2>3 DEF InStep, AddsInStep, Ledger
  <2>7. /\ Ledger.seen = seen /\ Ledger.recent = recent /\ Ledger.tally = tally
        /\ Ledger.base = base /\ Ledger.loose = loose /\ Ledger.started = started
    BY DEF Ledger
  <2>8. Walked(Ledger, lo - 1, lo, new, BadOne(lo, bad))
    BY <1>4, <1>5, <2>2, <2>4, <2>5, <2>6, <2>7 DEF Walked
  <2>. QED BY <1>5, <2>3, <2>8
<1>7. ASSUME NEW k \in 1..n, bad = 0 \/ k <= bad, At(k - 1) PROVE At(k)
  <2>. DEFINE b == lo + k - 1
  <2>1. b \in lo..told /\ lo + (k - 1) - 1 = b - 1 /\ b = batch[k] /\ b > 0 /\ k \in Nat
    BY <1>1, <1>2
  <2>2. (k = bad) = (b = BadOne(lo, bad)) /\ b - 1 # BadOne(lo, bad)
    <3>1. CASE bad = 0
      BY <1>1, <1>4, <2>1, <3>1 DEF BadOne
    <3>2. CASE bad # 0
      <4>1. BadOne(lo, bad) = lo + bad - 1 /\ k <= bad
        BY <1>7, <3>2 DEF BadOne
      <4>. QED BY <1>1, <1>4, <2>1, <4>1
    <3>. QED BY <3>1, <3>2
  <2>3. Walked(taken[k - 1], b - 1, lo, new, BadOne(lo, bad))
    BY <1>7, <2>1
  <2>4. run = "trading" => started /\ (AddsOdd(lo) \/ AddsInStep(lo, new))
    BY DEF FillInv, PositionFits
  <2>. HIDE DEF b
  <2>5. Walked(Take(taken[k - 1], b, b = BadOne(lo, bad)), b, lo, new, BadOne(lo, bad))
    BY <1>1, <2>1, <2>2, <2>3, <2>4, WalkOn
  <2>6. taken[k] = Take(taken[k - 1], b, b = BadOne(lo, bad))
    BY <1>5, <2>1, <2>2
  <2>. QED BY <2>5, <2>6 DEF b
<1>. HIDE DEF At
<1>8. At(last)
  <2>. DEFINE T == {k \in 0..last : ~At(k)}
  <2>1. CASE T = {}
    BY <1>4, <2>1
  <2>2. CASE T # {}
    <3>1. T \subseteq Nat
      OBVIOUS
    <3>2. PICK k \in T : \A m \in T : k <= m
      <4>. HIDE DEF T
      <4>. QED BY <2>2, <3>1, LeastOf
    <3>3. k \in 0..last /\ ~At(k) /\ k # 0 /\ last \in Nat /\ last <= n /\ n \in Nat
      BY <1>1, <1>4, <1>6, <3>2
    <3>4. k - 1 \in 0..last /\ k - 1 < k
      BY <3>3
    <3>5. At(k - 1)
      BY <3>2, <3>4
    <3>6. k \in 1..n /\ (bad = 0 \/ k <= bad)
      BY <1>4, <3>3
    <3>. QED BY <1>7, <3>3, <3>5, <3>6
  <2>. QED BY <2>1, <2>2
<1>. QED BY <1>2, <1>8 DEF At, n, taken, batch

-----------------------------------------------------------------------------
(* The steps.                                                              *)

\* The trades of a batch that was processed are counted, odd or known to be.
LEMMA ProcessStep ==
    ASSUME FillInv, NEW bad \in 0..Len(pending), Process(bad)
    PROVE  FillInv'
<1>. DEFINE batch == InTime(pending)
            n == Len(pending)
            last == IF bad = 0 THEN n ELSE bad
            acc == Taken(batch, bad)[last]
<1>1. FillTypes /\ pending # <<>> /\ n \in Nat
  BY SMTT(30) DEF FillInv, FillTypes, Process, Quiet
<1>0. PICK lo \in 1..told : \E new \in lo..(told + 1) :
          Covers(lo, new) /\ (run = "trading" => AddsOdd(lo) \/ AddsInStep(lo, new))
  BY <1>1 DEF FillInv, BatchFits
<1>2. PICK new \in lo..(told + 1) :
          Covers(lo, new) /\ (run = "trading" => AddsOdd(lo) \/ AddsInStep(lo, new))
  BY <1>0
<1>3. last \in 0..n /\ (bad = 0 \/ last <= bad)
  BY <1>1
<1>4. /\ Len(batch) = n /\ \A k \in 1..n : batch[k] = lo + k - 1
      /\ Walked(acc, lo + last - 1, lo, new, BadOne(lo, bad))
  BY <1>1, <1>2, <1>3, BatchWalked
<1>5. /\ seen' = acc.seen /\ recent' = acc.recent /\ started' = acc.started
      /\ tally' = acc.tally /\ base' = acc.base /\ loose' = acc.loose
      /\ local' = Synced(acc.started, position, acc.local)
      /\ odd' = odd \cup {i \in Trades : run = "starting" /\ acc.tally[i] > 0}
                    \cup (IF bad = 0 THEN {} ELSE {batch[k] : k \in bad..Len(batch)})
  <2>. DEFINE done == Taken(batch, bad)[IF bad = 0 THEN Len(batch) ELSE bad]
  <2>1. done = acc
    <3>. HIDE DEF batch
    <3>. QED BY <1>4
  <2>2. /\ seen' = done.seen /\ recent' = done.recent /\ started' = done.started
        /\ tally' = done.tally /\ base' = done.base /\ loose' = done.loose
        /\ local' = Synced(done.started, position, done.local)
        /\ odd' = odd \cup {i \in Trades : run = "starting" /\ done.tally[i] > 0}
                      \cup (IF bad = 0 THEN {} ELSE {batch[k] : k \in bad..Len(batch)})
    BY DEF Process
  <2>. HIDE DEF done, acc, batch
  <2>. QED BY <2>1, <2>2
<1>6. /\ pending' = <<>>
      /\ saved' = (IF run = "trading" THEN tally' ELSE saved) \/ saved' = saved
      /\ UNCHANGED <<tape, told, linked, run, after, position>>
  <2>1. pending' = <<>> /\ UNCHANGED <<tape, told, linked, run, after, position>>
    BY DEF Process
  <2>2. saved' = (IF run = "trading" THEN tally' ELSE saved) \/ UNCHANGED saved
    BY DEF Process
  <2>. QED BY <2>1, <2>2
<1>7. /\ told \in Nat /\ lo \in Nat /\ new \in Nat /\ lo > 0 /\ told = lo + n - 1
      /\ Len(tape) \in Nat /\ told <= Len(tape) /\ Members(pending) = lo..told
      /\ Trades \subseteq Nat \ {0} /\ 1..Len(tape) \subseteq Trades /\ after \in Nat
      /\ run \in {"starting", "trading"}
  <2>1. Len(tape) \in Nat /\ told \in 0..Len(tape) /\ after \in Nat
    BY <1>1 DEF FillTypes
  <2>2. run \in {"starting", "trading"}
    BY <1>1 DEF FillInv, PositionFits, FillTypes, Quiet
  <2>3. 1..Len(tape) \subseteq Trades /\ Trades \subseteq Nat \ {0}
    BY <1>1, TapeTrades
  <2>. QED BY <1>1, <1>2, <2>1, <2>2, <2>3 DEF Covers
<1>. HIDE DEF acc, batch, n
<1>8. bad # 0 => /\ BadOne(lo, bad) \in odd'
                 /\ \A i \in (lo + last)..told : i \in odd'
  <2>. SUFFICES ASSUME bad # 0
                PROVE  BadOne(lo, bad) \in odd' /\ \A i \in (lo + last)..told : i \in odd'
    OBVIOUS
  <2>1. bad \in 1..n /\ last = bad
    BY DEF n
  <2>2. \A k \in bad..n : batch[k] \in odd'
    BY <1>4, <1>5
  <2>3. BadOne(lo, bad) = batch[bad]
    BY <1>4, <2>1 DEF BadOne
  <2>4. ASSUME NEW i \in (lo + last)..told PROVE i \in odd'
    <3>. DEFINE k == i - lo + 1
    <3>1. k \in bad..n /\ k \in 1..n /\ lo + k - 1 = i
      BY <1>1, <1>7, <2>1
    <3>. HIDE DEF k
    <3>2. batch[k] = i
      BY <1>4, <3>1
    <3>. QED BY <2>2, <3>1, <3>2
  <2>5. bad \in bad..n
    BY <1>1, <2>1
  <2>. QED BY <2>2, <2>3, <2>4, <2>5
<1>9. odd' \in SUBSET Trades /\ odd \subseteq odd'
  <2>1. \A k \in 1..n : batch[k] \in Trades
    BY <1>1, <1>4, <1>7
  <2>2. bad # 0 => bad..Len(batch) \subseteq 1..n
    BY <1>1, <1>4
  <2>3. odd \in SUBSET Trades
    BY <1>1 DEF FillTypes
  <2>. QED BY <1>5, <2>1, <2>2, <2>3
<1>10. acc \in Ledgers /\ Kept(acc) /\ (started => acc.started)
  BY <1>4 DEF Walked
<1>11. Len(acc.recent) \in Nat /\ acc.tally \in [Trades -> Nat]
  BY <1>10 DEF Ledgers
<1>12. local' \in Int /\ (acc.started => local' = position)
  BY <1>1, <1>5, <1>10 DEF FillTypes, Ledgers, Synced
<1>13. saved' = saved \/ (run = "trading" /\ saved' = acc.tally)
  BY <1>5, <1>6
<1>14. FillTypes'
  <2>1. saved' \in [Trades -> Nat]
    BY <1>1, <1>11, <1>13 DEF FillTypes
  <2>2. /\ started' \in BOOLEAN /\ seen' \in SUBSET Trades /\ recent' \in Seq(Trades)
        /\ tally' \in [Trades -> Nat] /\ base' \in [Trades -> Int] /\ loose' \in SUBSET Trades
    BY <1>5, <1>10 DEF Ledgers
  <2>3. pending' \in Seq(Trades)
    BY <1>6
  <2>. QED BY <1>1, <1>6, <1>9, <1>12, <2>1, <2>2, <2>3 DEF FillTypes
<1>15. Kept(Ledger)'
  <2>1. \A i \in Trades : Noted(Ledger, i)' <=> Noted(acc, i)
    BY <1>5 DEF Noted, Ledger
  <2>. QED BY <1>5, <1>6, <1>10, <2>1 DEF Kept, Ledger
<1>16. loose \subseteq acc.loose /\ \A i \in Trades : tally[i] > 0 => acc.tally[i] > 0
  BY <1>4 DEF Walked
<1>17. run = "trading" => \A i \in Trades : saved'[i] > 0 => acc.tally[i] > 0
  BY <1>13, <1>16 DEF FillInv, SavedFits
<1>18. SavedFits'
  <2>1. ASSUME NEW i \in Trades, saved'[i] > 0 PROVE i <= told
    <3>1. saved[i] > 0 \/ acc.tally[i] > 0
      BY <1>13, <2>1
    <3>. QED BY <1>10, <3>1 DEF FillInv, SavedFits, Kept, Noted
  <2>2. \A i \in Trades \ acc.loose : saved'[i] <= 1
    BY <1>10, <1>13, <1>16 DEF FillInv, SavedFits, Kept
  <2>3. run = "starting" => \A i \in Trades : saved'[i] > 0 => i <= after
    BY <1>13 DEF FillInv, SavedFits
  <2>. QED BY <1>5, <1>6, <1>17, <2>1, <2>2, <2>3 DEF SavedFits
<1>19. BatchFits'
  BY <1>6 DEF BatchFits
<1>20. ASSUME NEW i \in Trades, i > after, i \notin odd',
              i \in acc.seen \/ i \in Members(acc.recent) \/ i \in lo..(lo + last - 1)
       PROVE  run = "trading" /\ acc.tally[i] > 0
  <2>1. i # BadOne(lo, bad)
    BY <1>7, <1>8, <1>20 DEF BadOne
  <2>2. acc.tally[i] > 0
    BY <1>4, <1>9, <1>20, <2>1 DEF Walked
  <2>3. run # "starting"
    BY <1>5, <1>20, <2>2
  <2>. QED BY <1>7, <2>2, <2>3
<1>21. NothingMissed'
  <2>1. ASSUME run = "trading", NEW i \in Trades, i > after, i <= told, i \notin odd'
        PROVE  acc.tally[i] > 0
    <3>1. tally[i] > 0 \/ i \in Members(pending)
      BY <1>9, <2>1 DEF FillInv, NothingMissed
    <3>2. CASE i \in Members(pending)
      <4>1. i \in lo..told /\ i \in Nat
        BY <1>7, <3>2
      <4>2. i \in (lo + last)..told \/ i \in lo..(lo + last - 1)
        BY <1>1, <1>3, <1>7, <4>1
      <4>3. bad = 0 => i \in lo..(lo + last - 1)
        BY <1>1, <1>7, <4>1
      <4>. QED BY <1>8, <1>20, <2>1, <4>2, <4>3
    <3>. QED BY <1>16, <3>1, <3>2
  <2>. QED BY <1>5, <1>6, <1>20, <2>1 DEF NothingMissed
<1>22. PositionFits'
  <2>1. PositionAt(told)' = PositionAt(told)
    BY <1>6 DEF PositionAt
  <2>2. run = "trading" => started
    BY DEF FillInv, PositionFits
  <2>3. linked \/ run = "trading" =>
            /\ after <= told
            /\ position = PositionAt(told) \/ (told < Len(tape) /\ told + 1 \in odd)
    BY DEF FillInv, PositionFits
  <2>. QED BY <1>5, <1>6, <1>7, <1>9, <1>10, <1>12, <2>1, <2>2, <2>3 DEF PositionFits
<1>23. BaseFits'
  <2>1. ASSUME NEW i \in Trades, i \notin odd' \cup acc.loose, acc.tally[i] > 0 \/ saved'[i] > 0
        PROVE  acc.base[i] = PositionAt(i - 1)
    <3>1. i \notin odd \cup loose /\ i \notin odd \cup acc.loose
      BY <1>9, <1>16, <2>1
    <3>2. CASE run = "trading"
      <4>1. acc.tally[i] > 0
        BY <1>17, <2>1, <3>2
      <4>. QED BY <1>4, <3>1, <3>2, <4>1 DEF Walked
    <3>3. CASE run = "starting"
      <4>1. ~(acc.tally[i] > 0)
        BY <1>5, <2>1, <3>3
      <4>2. saved[i] > 0
        BY <1>13, <2>1, <3>3, <4>1
      <4>3. i <= after
        BY <3>3, <4>2 DEF FillInv, SavedFits
      <4>4. acc.base[i] = base[i]
        BY <1>4, <4>3 DEF Walked
      <4>. QED BY <3>1, <4>2, <4>4 DEF FillInv, BaseFits
    <3>. QED BY <1>7, <3>2, <3>3
  <2>2. \A i : PositionAt(i)' = PositionAt(i)
    BY <1>6 DEF PositionAt
  <2>. QED BY <1>5, <2>1, <2>2 DEF BaseFits
<1>. QED BY <1>14, <1>15, <1>18, <1>19, <1>21, <1>22, <1>23 DEF FillInv

\* The numbers among the state.
LEMMA FillParts ==
    ASSUME FillInv
    PROVE  /\ FillTypes /\ Kept(Ledger) /\ SavedFits /\ BatchFits
           /\ NothingMissed /\ PositionFits /\ BaseFits
           /\ Len(tape) \in Nat /\ told \in Nat /\ told <= Len(tape) /\ after \in Nat
           /\ Len(tape) <= MaxTrades /\ MaxTrades \in Nat /\ tape \in Seq({1, -1})
           /\ after <= Len(tape)
           /\ Trades \subseteq Nat \ {0} /\ 1..Len(tape) \subseteq Trades
           /\ \A i \in Trades : Noted(Ledger, i) => i <= told
           /\ \A i \in Trades : tally[i] \in Nat /\ (tally[i] > 0 => i <= told)
           /\ tally \in [Trades -> Nat] /\ saved \in [Trades -> Nat]
<1>1. /\ FillTypes /\ Kept(Ledger) /\ SavedFits /\ BatchFits
      /\ NothingMissed /\ PositionFits /\ BaseFits
  BY DEF FillInv
<1>2. Len(tape) \in Nat /\ told \in 0..Len(tape) /\ after \in 0..Len(tape)
      /\ Len(tape) <= MaxTrades /\ tally \in [Trades -> Nat] /\ saved \in [Trades -> Nat]
      /\ tape \in Seq({1, -1})
  BY <1>1 DEF FillTypes
<1>3. \A i \in Trades : Noted(Ledger, i) => i <= told
  BY <1>1 DEF Kept
<1>4. \A i \in Trades : tally[i] > 0 => i <= told
  BY <1>3 DEF Noted, Ledger
<1>5. Trades \subseteq Nat \ {0} /\ 1..Len(tape) \subseteq Trades
  BY <1>1, TapeTrades
<1>6. MaxTrades \in Nat
  BY FillNumbers
<1>7. told \in Nat /\ told <= Len(tape) /\ after \in Nat /\ after <= Len(tape)
  BY <1>2
<1>8. \A i \in Trades : tally[i] \in Nat
  BY <1>2
<1>. QED BY <1>1, <1>2, <1>3, <1>4, <1>5, <1>6, <1>7, <1>8

\* What was kept still is if the ledger knows no more and nothing is untold.
LEMMA KeptStays ==
    ASSUME FillInv, UNCHANGED <<seen, recent, tally, loose, after>>,
           told' \in Nat, told <= told'
    PROVE  Kept(Ledger)'
<1>1. \A i \in Trades : Noted(Ledger, i)' <=> Noted(Ledger, i)
  BY DEF Noted, Ledger
<1>2. \A i \in Trades : Noted(Ledger, i)' => i <= told'
  BY <1>1, FillParts
<1>. QED BY <1>1, <1>2, FillParts DEF Kept, Ledger

\* The start: nothing happened yet.
LEMMA FillStarts == FillInit => FillInv
<1>. SUFFICES ASSUME FillInit PROVE FillInv
  OBVIOUS
<1>1. /\ tape = <<>> /\ told = 0 /\ linked = FALSE /\ run = "down" /\ after = 0
      /\ position = 0 /\ pending = <<>> /\ seen = {} /\ recent = <<>> /\ local = 0
      /\ started = FALSE /\ tally = NoTally /\ saved = NoTally /\ base = NoTally
      /\ odd = {} /\ loose = {}
  BY DEF FillInit
<1>2. /\ NoTally \in [Trades -> Nat] /\ NoTally \in [Trades -> Int]
      /\ \A i \in Trades : NoTally[i] = 0
  BY DEF NoTally
<1>3. /\ Len(tape) = 0 /\ tape \in Seq({1, -1}) /\ pending \in Seq(Trades)
      /\ recent \in Seq(Trades) /\ Len(recent) = 0
  BY <1>1
<1>4. FillTypes
  <2>1. told \in 0..Len(tape) /\ after \in 0..Len(tape) /\ Len(tape) <= MaxTrades
    BY <1>1, <1>3, FillNumbers
  <2>2. {} \in SUBSET Trades /\ position \in Int /\ local \in Int
    BY <1>1
  <2>. QED BY <1>1, <1>2, <1>3, <2>1, <2>2 DEF FillTypes
<1>5. \A i \in Trades : ~Noted(Ledger, i)
  BY <1>1, <1>2, <1>3 DEF Noted, Ledger, Members
<1>6. Kept(Ledger)
  <2>1. /\ Ledger.recent = recent /\ Ledger.tally = NoTally /\ 1..Len(recent) = {}
        /\ Len(recent) <= RecentMax
    BY <1>1, <1>3, FillNumbers DEF Ledger
  <2>2. \A i \in Trades : Ledger.tally[i] = 0
    BY <1>2, <2>1
  <2>. QED BY <1>5, <2>1, <2>2 DEF Kept
<1>7. SavedFits /\ BatchFits /\ NothingMissed /\ PositionFits /\ BaseFits
  BY <1>1, <1>2 DEF SavedFits, BatchFits, NothingMissed, PositionFits, BaseFits, Quiet
<1>. QED BY <1>4, <1>6, <1>7 DEF FillInv

\* A trade that is executed is not told yet.
LEMMA ExecuteStep ==
    ASSUME FillInv, NEW side \in {1, -1}, Execute(side)
    PROVE  FillInv'
<1>1. /\ Len(tape) < MaxTrades /\ tape' = Append(tape, side)
      /\ UNCHANGED <<told, linked, run, after, position, pending, seen, recent, local,
                     started, tally, saved, base, odd, loose>>
  BY DEF Execute
<1>2. /\ tape' \in Seq({1, -1}) /\ Len(tape') = Len(tape) + 1
      /\ \A k \in 1..Len(tape) : tape'[k] = tape[k]
  BY <1>1, FillParts
<1>3. \A n \in 0..Len(tape) : PositionAt(n)' = PositionAt(n)
  BY <1>2, FillParts, PositionStays
<1>4. FillTypes'
  <2>1. told \in 0..Len(tape) /\ after \in 0..Len(tape)
    BY FillParts
  <2>2. told' \in 0..Len(tape') /\ after' \in 0..Len(tape')
    BY <1>1, <1>2, <2>1, FillParts
  <2>3. Len(tape') <= MaxTrades
    BY <1>1, <1>2, FillParts
  <2>. QED BY <1>1, <1>2, <2>2, <2>3, FillParts DEF FillTypes
<1>5. Kept(Ledger)'
  BY <1>1, FillParts, KeptStays
<1>6. SavedFits' /\ NothingMissed'
  BY <1>1, FillParts DEF SavedFits, NothingMissed
<1>7. BatchFits'
  <2>. SUFFICES ASSUME pending # <<>>
                PROVE  \E lo \in 1..told : \E new \in lo..(told + 1) :
                           (/\ Covers(lo, new)
                            /\ run = "trading" => AddsOdd(lo) \/ AddsInStep(lo, new))'
    BY <1>1 DEF BatchFits
  <2>1. PICK lo \in 1..told : \E new \in lo..(told + 1) :
            Covers(lo, new) /\ (run = "trading" => AddsOdd(lo) \/ AddsInStep(lo, new))
    BY FillParts DEF BatchFits
  <2>2. PICK new \in lo..(told + 1) :
            Covers(lo, new) /\ (run = "trading" => AddsOdd(lo) \/ AddsInStep(lo, new))
    BY <2>1
  <2>3. PositionAt(new - 1)' = PositionAt(new - 1)
    <3>1. new - 1 \in 0..Len(tape)
      BY FillParts
    <3>. QED BY <1>3, <3>1
  <2>4. Covers(lo, new)' /\ (AddsOdd(lo)' <=> AddsOdd(lo))
    BY <1>1, <2>2 DEF Covers, AddsOdd, Noted, Ledger
  <2>5. AddsInStep(lo, new)' <=> AddsInStep(lo, new)
    BY <1>1, <2>3 DEF AddsInStep
  <2>. QED BY <1>1, <2>2, <2>4, <2>5
<1>8. PositionFits'
  <2>1. PositionAt(told)' = PositionAt(told)
    <3>1. told \in 0..Len(tape) /\ told' = told
      BY <1>1, FillParts
    <3>. QED BY <1>1, <1>3, <3>1
  <2>. QED BY <1>1, <1>2, <2>1, FillParts DEF PositionFits, Quiet
<1>9. BaseFits'
  <2>1. ASSUME NEW i \in Trades, tally[i] > 0 \/ saved[i] > 0
        PROVE  PositionAt(i - 1)' = PositionAt(i - 1)
    <3>1. i <= told
      BY <2>1, FillParts DEF SavedFits
    <3>2. i - 1 \in 0..Len(tape)
      BY <3>1, FillParts
    <3>. QED BY <1>3, <3>2
  <2>. QED BY <1>1, <2>1, FillParts DEF BaseFits
<1>. QED BY <1>4, <1>5, <1>6, <1>7, <1>8, <1>9 DEF FillInv

\* A start forgets what was counted, and what is on disk is of the time before.
LEMMA StartStep ==
    ASSUME FillInv, Start
    PROVE  FillInv'
<1>1. /\ run = "down" /\ run' = "starting" /\ after' = Len(tape) /\ position' = 0
      /\ pending' = <<>> /\ seen' = {} /\ recent' = <<>> /\ local' = 0 /\ started' = FALSE
      /\ tally' = NoTally /\ UNCHANGED <<tape, told, linked, saved, base, odd, loose>>
  BY DEF Start
<1>2. NoTally \in [Trades -> Nat] /\ \A i \in Trades : NoTally[i] = 0
  BY DEF NoTally
<1>3. /\ recent' \in Seq(Trades) /\ pending' \in Seq(Trades) /\ Len(recent') = 0
      /\ after' \in 0..Len(tape) /\ Members(recent') = {}
  BY <1>1, FillParts DEF Members
<1>4. FillTypes'
  <2>0. tape' = tape /\ told' = told /\ told \in 0..Len(tape)
    BY <1>1, FillParts DEF FillTypes
  <2>1. /\ tape' \in Seq({1, -1}) /\ Len(tape') <= MaxTrades
        /\ told' \in 0..Len(tape') /\ after' \in 0..Len(tape')
    BY <1>3, <2>0, FillParts
  <2>2. linked' \in BOOLEAN
    <3>1. linked \in BOOLEAN /\ linked' = linked
      BY <1>1, FillParts DEF FillTypes
    <3>. QED BY <3>1
  <2>3. /\ seen' \in SUBSET Trades /\ odd' \in SUBSET Trades /\ loose' \in SUBSET Trades
    BY <1>1, FillParts DEF FillTypes
  <2>4. /\ tally' \in [Trades -> Nat] /\ saved' \in [Trades -> Nat]
        /\ base' \in [Trades -> Int]
    BY <1>1, <1>2, FillParts DEF FillTypes
  <2>5. /\ started' = FALSE /\ run' = "starting" /\ position' = 0 /\ local' = 0
        /\ 0 \in Int
    BY <1>1
  <2>. QED BY <1>3, <2>1, <2>2, <2>3, <2>4, <2>5 DEF FillTypes
<1>5. \A i \in Trades : ~Noted(Ledger, i)'
  BY <1>1, <1>2, <1>3 DEF Noted, Ledger
<1>6. Kept(Ledger)'
  <2>1. /\ Ledger'.recent = recent' /\ Ledger'.tally = NoTally /\ 1..Len(recent') = {}
        /\ Len(recent') <= RecentMax
    BY <1>1, <1>3, FillNumbers DEF Ledger
  <2>2. \A i \in Trades : Ledger'.tally[i] = 0
    BY <1>2, <2>1
  <2>. QED BY <1>5, <2>1, <2>2 DEF Kept
<1>7. SavedFits'
  <2>1. \A i \in Trades : saved[i] > 0 => i <= Len(tape)
    BY FillParts DEF SavedFits
  <2>. QED BY <1>1, <2>1, FillParts DEF SavedFits
<1>8. BatchFits' /\ NothingMissed'
  BY <1>1, <1>3 DEF BatchFits, NothingMissed
<1>9. PositionFits'
  BY <1>1, FillParts DEF PositionFits, Quiet
<1>10. BaseFits'
  <2>1. \A i : PositionAt(i)' = PositionAt(i)
    BY <1>1 DEF PositionAt
  <2>. QED BY <1>1, <1>2, <2>1, FillParts DEF BaseFits
<1>. QED BY <1>4, <1>6, <1>7, <1>8, <1>9, <1>10 DEF FillInv

\* The accounting is set up: what was heard before is odd.
LEMMA InitializeStep ==
    ASSUME FillInv, Initialize
    PROVE  FillInv'
<1>1. /\ run = "starting" /\ linked = TRUE /\ run' = "trading" /\ started' = TRUE
      /\ local' = position /\ tally' = saved
      /\ odd' = odd \cup {i \in Trades : i > after /\ (i <= told \/ i \in seen)}
      /\ UNCHANGED <<tape, told, linked, after, position, pending, seen, recent, saved,
                     base, loose>>
  BY FillParts DEF Initialize, FillTypes
<1>2. odd' \in SUBSET Trades /\ odd \subseteq odd'
  BY <1>1, FillParts DEF FillTypes
<1>3. FillTypes'
  BY <1>1, <1>2, FillParts DEF FillTypes
<1>4. \A i \in Trades : saved[i] > 0 => i <= after /\ i <= told
  BY <1>1, FillParts DEF SavedFits
<1>5. \A i \in Trades : Noted(Ledger, i)' => Noted(Ledger, i) \/ saved[i] > 0
  BY <1>1 DEF Noted, Ledger
<1>6. Kept(Ledger)'
  <2>1. \A i \in Trades : Noted(Ledger, i)' => i <= told'
    BY <1>1, <1>4, <1>5, FillParts
  <2>2. \A i \in Trades : ~(i > after /\ saved[i] > 0)
    BY <1>4, FillParts
  <2>3. \A i \in Trades \ loose : saved[i] <= 1
    BY FillParts DEF SavedFits
  <2>. QED BY <1>1, <2>1, <2>2, <2>3, FillParts DEF Kept, Ledger
<1>7. SavedFits'
  BY <1>1, <1>4, FillParts DEF SavedFits
<1>8. BatchFits'
  <2>. SUFFICES ASSUME pending # <<>>
                PROVE  \E lo \in 1..told : \E new \in lo..(told + 1) :
                           (/\ Covers(lo, new)
                            /\ run = "trading" => AddsOdd(lo) \/ AddsInStep(lo, new))'
    BY <1>1 DEF BatchFits
  <2>1. PICK lo \in 1..told : \E new \in lo..(told + 1) : Covers(lo, new)
    BY FillParts DEF BatchFits
  <2>2. PICK new \in lo..(told + 1) : Covers(lo, new)
    BY <2>1
  <2>3. Covers(lo, new)'
    BY <1>1, <1>5, <2>2 DEF Covers
  <2>4. AddsOdd(lo)'
    <3>1. \A i \in lo..told : i \in 1..Len(tape) /\ i <= told
      <4>1. told \in Nat /\ told <= Len(tape) /\ Len(tape) \in Nat
        BY FillParts
      <4>. QED BY <4>1
    <3>2. \A i \in lo..told : i \in Trades
      BY <3>1, FillParts
    <3>. QED BY <1>1, <3>1, <3>2 DEF AddsOdd
  <2>. QED BY <2>3, <2>4
<1>9. NothingMissed'
  <2>1. \A i \in Trades : i \in Members(recent) => i <= told
    BY FillParts DEF Noted, Ledger
  <2>. QED BY <1>1, <2>1 DEF NothingMissed
<1>10. PositionFits'
  <2>1. PositionAt(told)' = PositionAt(told)
    BY <1>1 DEF PositionAt
  <2>. QED BY <1>1, <1>2, <2>1, FillParts DEF PositionFits
<1>11. BaseFits'
  <2>1. \A i : PositionAt(i)' = PositionAt(i)
    BY <1>1 DEF PositionAt
  <2>. QED BY <1>1, <1>2, <2>1, FillParts DEF BaseFits
<1>. QED BY <1>3, <1>6, <1>7, <1>8, <1>9, <1>10, <1>11 DEF FillInv

\* The program ends, or the subscription does, or the totals are written.
LEMMA QuietSteps ==
    ASSUME FillInv, Crash \/ Break \/ UserStats \/ UNCHANGED fillVars
    PROVE  FillInv'
<1>0. /\ UNCHANGED <<tape, told, after, position, seen, recent, local, started, tally,
                     base, loose>>
      /\ odd' = odd \/ odd' = odd \cup {i \in DOMAIN tape : tally[i] = 0}
      /\ \/ run' = "down" /\ linked' = FALSE /\ pending' = <<>> /\ saved' = saved
         \/ /\ run = "trading" /\ Quiet /\ linked' = FALSE /\ odd' = odd
            /\ UNCHANGED <<run, pending, saved>>
         \/ run = "trading" /\ saved' = tally /\ UNCHANGED <<run, linked, pending, odd>>
         \/ UNCHANGED <<run, linked, pending, odd, saved>>
  BY DEF Crash, Break, UserStats, fillVars
<1>1. odd' \in SUBSET Trades /\ odd \subseteq odd'
  <2>1. DOMAIN tape \subseteq Trades
    BY FillParts
  <2>. QED BY <1>0, <2>1, FillParts DEF FillTypes
<1>2. run' = run \/ run' = "down"
  BY <1>0
<1>3. pending' = pending \/ pending' = <<>>
  BY <1>0
<1>4. saved' = saved \/ (run = "trading" /\ saved' = tally)
  BY <1>0
<1>5. linked' = linked \/ linked' = FALSE
  BY <1>0
<1>6. FillTypes'
  <2>0. pending \in Seq(Trades) /\ <<>> \in Seq(Trades)
    BY FillParts DEF FillTypes
  <2>1. pending' \in Seq(Trades)
    BY <1>3, <2>0
  <2>. QED BY <1>0, <1>1, <1>2, <1>4, <1>5, <2>1, FillParts DEF FillTypes
<1>7. Kept(Ledger)'
  BY <1>0, FillParts, KeptStays
<1>8. SavedFits'
  <2>1. \A i \in Trades : saved'[i] > 0 => i <= told
    BY <1>4, FillParts DEF SavedFits
  <2>2. \A i \in Trades \ loose : saved'[i] <= 1
    BY <1>4, FillParts DEF SavedFits, Kept, Ledger
  <2>3. run' = "starting" => \A i \in Trades : saved'[i] > 0 => i <= after
    BY <1>2, <1>4, FillParts DEF SavedFits
  <2>4. run' = "trading" => \A i \in Trades : saved'[i] > 0 => tally[i] > 0
    BY <1>2, <1>4, FillParts DEF SavedFits
  <2>. QED BY <1>0, <2>1, <2>2, <2>3, <2>4 DEF SavedFits
<1>9. BatchFits'
  <2>. SUFFICES ASSUME pending' # <<>>
                PROVE  \E lo \in 1..told : \E new \in lo..(told + 1) :
                           (/\ Covers(lo, new)
                            /\ run = "trading" => AddsOdd(lo) \/ AddsInStep(lo, new))'
    BY <1>0 DEF BatchFits
  <2>0. pending' = pending /\ pending # <<>> /\ run' = run /\ odd' = odd
    BY <1>0
  <2>1. PICK lo \in 1..told : \E new \in lo..(told + 1) :
            Covers(lo, new) /\ (run = "trading" => AddsOdd(lo) \/ AddsInStep(lo, new))
    BY <2>0, FillParts DEF BatchFits
  <2>2. PICK new \in lo..(told + 1) :
            Covers(lo, new) /\ (run = "trading" => AddsOdd(lo) \/ AddsInStep(lo, new))
    BY <2>1
  <2>3. \A i \in Trades : Noted(Ledger, i)' \/ saved'[i] > 0 => Noted(Ledger, i) \/ saved[i] > 0
    BY <1>0, <1>4 DEF Noted, Ledger
  <2>4. Covers(lo, new)'
    BY <1>0, <2>0, <2>2, <2>3 DEF Covers
  <2>5. PositionAt(new - 1)' = PositionAt(new - 1)
    BY <1>0 DEF PositionAt
  <2>6. (AddsOdd(lo)' <=> AddsOdd(lo)) /\ (AddsInStep(lo, new)' <=> AddsInStep(lo, new))
    BY <1>0, <2>0, <2>5 DEF AddsOdd, AddsInStep
  <2>. QED BY <2>0, <2>2, <2>4, <2>6
<1>10. NothingMissed'
  <2>1. run' = "trading" => pending' = pending
    BY <1>0
  <2>. QED BY <1>0, <1>1, <1>2, <2>1, FillParts DEF NothingMissed
<1>11. PositionFits'
  <2>1. PositionAt(told)' = PositionAt(told)
    BY <1>0 DEF PositionAt
  <2>2. run' = "trading" => run = "trading" /\ (pending' = <<>> => Quiet)
    BY <1>0 DEF Quiet
  <2>3. run' = "down" => pending' = <<>> /\ linked' = FALSE
    BY <1>0, FillParts DEF PositionFits, Quiet, FillTypes
  <2>4. linked' \/ run' = "trading" => linked \/ run = "trading"
    BY <1>5, <2>2
  <2>. QED BY <1>0, <1>1, <2>1, <2>2, <2>3, <2>4, FillParts DEF PositionFits, Quiet
<1>12. BaseFits'
  <2>1. \A i : PositionAt(i)' = PositionAt(i)
    BY <1>0 DEF PositionAt
  <2>2. \A i \in Trades : saved'[i] > 0 => saved[i] > 0 \/ tally[i] > 0
    BY <1>4
  <2>. QED BY <1>0, <1>1, <2>1, <2>2, FillParts DEF BaseFits
<1>. QED BY <1>6, <1>7, <1>8, <1>9, <1>10, <1>11, <1>12 DEF FillInv

\* What a message makes odd.
LEMMA OddIs ==
    ASSUME FillInv, NEW from \in Nat \ {0}, NEW lost \in BOOLEAN
    PROVE  /\ odd \subseteq OddWith(from, lost) /\ OddWith(from, lost) \subseteq Trades
           /\ lost \/ (\E i \in from..Len(tape) : tally[i] = 0 /\ i \in odd)
                  => \A i \in from..Len(tape) : tally[i] = 0 => i \in OddWith(from, lost)
<1>. DEFINE news == {i \in from..Len(tape) : tally[i] = 0}
<1>1. news \subseteq Trades
  <2>1. Len(tape) \in Nat
    BY FillParts
  <2>2. from..Len(tape) \subseteq 1..Len(tape)
    BY <2>1
  <2>. QED BY <2>2, FillParts
<1>2. odd \subseteq Trades
  BY FillParts DEF FillTypes
<1>3. OddWith(from, lost) = IF lost \/ news \cap odd # {} THEN odd \cup news ELSE odd
  BY DEF OddWith
<1>4. (\E i \in from..Len(tape) : tally[i] = 0 /\ i \in odd) => news \cap odd # {}
  OBVIOUS
<1>5. \A i \in from..Len(tape) : tally[i] = 0 => i \in news
  OBVIOUS
<1>. HIDE DEF news
<1>. QED BY <1>1, <1>2, <1>3, <1>4, <1>5

\* A position that comes before its trades: the next one is odd.
LEMMA PositionFirstStep ==
    ASSUME FillInv, PositionFirst
    PROVE  FillInv'
<1>1. /\ linked = TRUE /\ pending = <<>> /\ position # PositionAt(Len(tape))
      /\ position' = PositionAt(Len(tape))
      /\ local' = Synced(started, position', local)
      /\ saved' = saved \/ (run = "trading" /\ saved' = tally)
      /\ odd' = OddWith(told + 1, TRUE)
      /\ UNCHANGED <<tape, told, linked, run, after, pending, seen, recent, started, tally,
                     base, loose>>
  <2>1. linked = TRUE
    BY FillParts DEF PositionFirst, FillTypes
  <2>. QED BY <2>1 DEF PositionFirst, Quiet
<1>2. told \in Nat /\ told <= Len(tape) /\ Len(tape) \in Nat
  BY FillParts
<1>3. /\ odd \subseteq odd' /\ odd' \subseteq Trades
      /\ \A i \in (told + 1)..Len(tape) : tally[i] = 0 => i \in odd'
  <2>1. told + 1 \in Nat \ {0}
    BY <1>2
  <2>. QED BY <1>1, <2>1, OddIs
<1>4. \A i : PositionAt(i)' = PositionAt(i)
  BY <1>1 DEF PositionAt
<1>5. position' \in Int /\ local' \in Int
  <2>1. Len(tape) \in 0..Len(tape) /\ tape \in Seq({1, -1})
    BY FillParts
  <2>2. position' \in Int
    BY <1>1, <2>1, PositionMoves
  <2>3. local \in Int
    BY FillParts DEF FillTypes
  <2>. QED BY <1>1, <2>2, <2>3 DEF Synced
<1>6. saved' \in [Trades -> Nat]
  BY <1>1, FillParts
<1>7. FillTypes'
  <2>1. FillTypes
    BY FillParts
  <2>. QED BY <1>1, <1>3, <1>5, <1>6, <2>1 DEF FillTypes
<1>8. Kept(Ledger)'
  BY <1>1, <1>2, KeptStays
<1>9. SavedFits'
  <2>1. \A i \in Trades : saved'[i] > 0 => i <= told
    BY <1>1, FillParts DEF SavedFits
  <2>2. \A i \in Trades \ loose : saved'[i] <= 1
    BY <1>1, FillParts DEF SavedFits, Kept, Ledger
  <2>3. run = "starting" => \A i \in Trades : saved'[i] > 0 => i <= after
    BY <1>1, FillParts DEF SavedFits
  <2>4. run = "trading" => \A i \in Trades : saved'[i] > 0 => tally[i] > 0
    BY <1>1, FillParts DEF SavedFits
  <2>. QED BY <1>1, <2>1, <2>2, <2>3, <2>4 DEF SavedFits
<1>10. BatchFits'
  BY <1>1 DEF BatchFits
<1>11. NothingMissed'
  BY <1>1, <1>3, FillParts DEF NothingMissed
<1>12. PositionFits'
  <2>1. /\ after <= told /\ run # "down"
        /\ position = PositionAt(told) \/ (told < Len(tape) /\ told + 1 \in odd)
        /\ run = "trading" => started
    BY <1>1, FillParts DEF PositionFits
  <2>2. told < Len(tape)
    BY <1>1, <1>2, <2>1
  <2>3. told + 1 \in Trades /\ told + 1 \in (told + 1)..Len(tape) /\ tally[told + 1] = 0
    <3>1. told + 1 \in 1..Len(tape)
      BY <1>2, <2>2
    <3>2. told + 1 \in Trades
      BY <3>1, FillParts
    <3>. QED BY <1>2, <3>1, <3>2, FillParts
  <2>4. told + 1 \in odd'
    BY <1>3, <2>3
  <2>. QED BY <1>1, <2>1, <2>2, <2>4 DEF PositionFits, Synced
<1>13. BaseFits'
  <2>1. \A i \in Trades : saved'[i] > 0 => saved[i] > 0 \/ tally[i] > 0
    BY <1>1
  <2>. QED BY <1>1, <1>3, <1>4, <2>1, FillParts DEF BaseFits
<1>. QED BY <1>7, <1>8, <1>9, <1>10, <1>11, <1>12, <1>13 DEF FillInv

\* A message with the trades from lo on, those from new on for the first time, and the
\* position after them all.
LEMMA ToldStep ==
    ASSUME FillInv, run # "down", pending = <<>>, linked' = TRUE,
           told' = Len(tape), position' = PositionAt(Len(tape)),
           UNCHANGED <<tape, run, after, seen, recent, started, tally, saved, base, loose>>,
           NEW lo \in 1..(Len(tape) + 1), NEW new \in lo..(Len(tape) + 1), told < new,
           pending' \in Seq(Trades), Len(pending') = Len(tape) - lo + 1,
           Members(pending') = lo..Len(tape), Len(tape) - lo < SnapTrades \/ lo = new,
           local' = IF pending' = <<>> THEN Synced(started, position', local) ELSE local,
           NEW first \in 1..lo, NEW lost \in BOOLEAN, odd' = OddWith(first, lost),
           new # told + 1 => lost /\ first <= told + 1,
           ~lost => (lo..told) \cap loose = {}
    PROVE  FillInv'
<1>1. /\ told \in Nat /\ told <= Len(tape) /\ Len(tape) \in Nat /\ after \in Nat
      /\ lo \in Nat /\ lo > 0 /\ new \in Nat /\ lo <= new /\ first \in Nat /\ first <= lo
      /\ new <= Len(tape) + 1 /\ after <= Len(tape)
  BY FillParts
<1>2. /\ odd \subseteq odd' /\ odd' \subseteq Trades
      /\ lost \/ (\E i \in first..Len(tape) : tally[i] = 0 /\ i \in odd)
             => \A i \in first..Len(tape) : tally[i] = 0 => i \in odd'
  <2>1. first \in Nat \ {0}
    OBVIOUS
  <2>. QED BY <2>1, OddIs
<1>3. \A i : PositionAt(i)' = PositionAt(i)
  BY DEF PositionAt
<1>4. \A i \in Trades : tally[i] \in Nat /\ (tally[i] > 0 => i <= told)
  BY FillParts
<1>5. Trades \subseteq Nat \ {0} /\ 1..Len(tape) \subseteq Trades
  BY FillParts
<1>6. FillTypes'
  <2>1. FillTypes
    BY FillParts
  <2>2. position' \in Int
    <3>1. Len(tape) \in 0..Len(tape) /\ tape \in Seq({1, -1})
      BY <1>1, FillParts
    <3>. QED BY <3>1, PositionMoves
  <2>3. local' \in Int
    <3>1. local \in Int
      BY <2>1 DEF FillTypes
    <3>. QED BY <2>2, <3>1 DEF Synced
  <2>4. told' \in 0..Len(tape') /\ tape' = tape
    BY <1>1
  <2>. QED BY <1>2, <2>1, <2>2, <2>3, <2>4 DEF FillTypes
<1>7. Kept(Ledger)'
  <2>1. told' \in Nat /\ told <= told'
    BY <1>1
  <2>. QED BY <2>1, KeptStays
<1>8. SavedFits'
  <2>1. \A i \in Trades : saved[i] > 0 => i <= Len(tape)
    BY <1>1, <1>5, FillParts DEF SavedFits
  <2>. QED BY <2>1, FillParts DEF SavedFits
<1>9. run = "trading" => started /\ local = position /\ after <= told
  BY FillParts DEF PositionFits, Quiet
<1>10. run = "trading" =>
           position = PositionAt(told) \/ (told < Len(tape) /\ told + 1 \in odd)
  BY FillParts DEF PositionFits
<1>11. BatchFits'
  <2>. SUFFICES ASSUME pending' # <<>>
                PROVE  \E l \in 1..told' : \E n \in l..(told' + 1) :
                           (/\ Covers(l, n)
                            /\ run = "trading" => AddsOdd(l) \/ AddsInStep(l, n))'
    BY DEF BatchFits
  <2>1. lo \in 1..told' /\ new \in lo..(told' + 1)
    <3>1. Len(pending') # 0
      OBVIOUS
    <3>. QED BY <1>1, <3>1
  <2>2. Covers(lo, new)'
    <3>1. \A i \in Trades : Noted(Ledger, i)' => Noted(Ledger, i)
      BY DEF Noted, Ledger
    <3>2. \A i \in Trades : Noted(Ledger, i) \/ saved[i] > 0 => i <= told
      BY FillParts DEF SavedFits
    <3>3. \A i \in Trades : Noted(Ledger, i)' \/ saved'[i] > 0 => i < new
      BY <1>1, <1>5, <3>1, <3>2
    <3>. QED BY <3>3 DEF Covers
  <2>3. ASSUME run = "trading", ~AddsOdd(lo)' PROVE AddsInStep(lo, new)'
    <3>1. ~(\A i \in first..Len(tape) : tally[i] = 0 => i \in odd')
      <4>1. PICK i \in lo..Len(tape) : tally[i] = 0 /\ i \notin odd'
        BY <2>3 DEF AddsOdd
      <4>2. i \in first..Len(tape)
        BY <1>1
      <4>. QED BY <4>1, <4>2
    <3>2. /\ ~lost /\ new = told + 1
          /\ \A i \in first..Len(tape) : ~(tally[i] = 0 /\ i \in odd)
      BY <1>2, <3>1
    <3>3. ~(told < Len(tape) /\ told + 1 \in odd)
      <4>. SUFFICES ASSUME told < Len(tape), told + 1 \in odd PROVE FALSE
        OBVIOUS
      <4>1. told + 1 \in first..Len(tape) /\ told + 1 \in 1..Len(tape)
        BY <1>1, <3>2
      <4>2. tally[told + 1] = 0
        BY <1>1, <1>4, <1>5, <4>1
      <4>. QED BY <3>2, <4>1, <4>2
    <3>4. local = PositionAt(told) /\ new > after /\ told = new - 1
      BY <1>1, <1>9, <1>10, <2>3, <3>2, <3>3
    <3>5. ASSUME NEW i \in lo..told, i > after PROVE tally[i] > 0 /\ i \notin loose
      <4>1. i \in 1..Len(tape) /\ i \in first..Len(tape) /\ i <= told
        BY <1>1
      <4>2. i \in Trades
        BY <1>5, <4>1
      <4>3. i \notin loose
        BY <3>2
      <4>4. i \notin odd => tally[i] > 0
        <5>1. Members(pending) = {}
          BY DEF Members
        <5>. QED BY <2>3, <3>5, <4>1, <4>2, <5>1, FillParts DEF NothingMissed
      <4>5. i \in odd => tally[i] > 0
        BY <1>4, <3>2, <4>1, <4>2
      <4>. QED BY <4>3, <4>4, <4>5
    <3>6. local' = local
      OBVIOUS
    <3>7. PositionAt(new - 1)' = PositionAt(new - 1)
      BY <1>3
    <3>. QED BY <3>4, <3>5, <3>6, <3>7 DEF AddsInStep
  <2>. QED BY <2>1, <2>2, <2>3
<1>12. NothingMissed'
  <2>1. ASSUME run = "trading", NEW i \in Trades, i > after, i <= Len(tape), i \notin odd',
               i \notin lo..Len(tape)
        PROVE  tally[i] > 0
    <3>1. CASE i <= told
      <4>1. Members(pending) = {} /\ i \notin odd
        BY <1>2, <2>1 DEF Members
      <4>. QED BY <2>1, <3>1, <4>1, FillParts DEF NothingMissed
    <3>2. CASE ~(i <= told)
      <4>1. i \in Nat /\ told < i /\ i < lo
        BY <1>1, <1>5, <2>1, <3>2
      <4>2. lost /\ i \in first..Len(tape) /\ tally[i] = 0
        BY <1>1, <1>4, <2>1, <3>2, <4>1
      <4>. QED BY <1>2, <2>1, <4>2
    <3>. QED BY <3>1, <3>2
  <2>. QED BY <1>2, <2>1, FillParts DEF NothingMissed
<1>13. PositionFits'
  <2>1. PositionAt(told)' = PositionAt(Len(tape))
    BY DEF PositionAt
  <2>2. run = "trading" => (pending' = <<>> => local' = position')
    BY <1>9 DEF Synced
  <2>. QED BY <1>1, <1>9, <2>1, <2>2 DEF PositionFits, Quiet
<1>14. BaseFits'
  BY <1>2, <1>3, FillParts DEF BaseFits
<1>. QED BY <1>6, <1>7, <1>8, <1>11, <1>12, <1>13, <1>14 DEF FillInv

\* The first message of a connection.
LEMMA SubscribedStep ==
    ASSUME FillInv, Subscribed
    PROVE  FillInv'
<1>. DEFINE from == Max({Len(tape) - SnapTrades + 1, 1})
            first == Min({from, told + 1})
            lost == from > told + 1 \/ (from..told) \cap loose # {}
            new == IF from <= told + 1 THEN told + 1 ELSE from
            n == Len(tape) - from + 1
            told_again == [k \in 1..n |-> from + k - 1]
<1>1. /\ run # "down" /\ pending = <<>> /\ linked' = TRUE /\ told' = Len(tape)
      /\ position' = PositionAt(Len(tape)) /\ pending' = told_again
      /\ odd' = OddWith(first, lost)
      /\ local' = IF pending' = <<>> THEN Synced(started, position', local) ELSE local
      /\ UNCHANGED <<tape, run, after, seen, recent, started, tally, saved, base, loose>>
  BY DEF Subscribed, Quiet
<1>2. told \in Nat /\ told <= Len(tape) /\ Len(tape) \in Nat /\ 1..Len(tape) \subseteq Trades
  BY FillParts
<1>3. from = IF Len(tape) - SnapTrades + 1 >= 1 THEN Len(tape) - SnapTrades + 1 ELSE 1
  <2>1. Len(tape) - SnapTrades + 1 \in Int /\ 1 \in Int
    BY <1>2, FillNumbers
  <2>. QED BY <2>1, OfTwo
<1>. HIDE DEF from
<1>4. from \in 1..(Len(tape) + 1) /\ Len(tape) - from < SnapTrades /\ from \in Int
  BY <1>2, <1>3, FillNumbers
<1>5. first = IF from <= told + 1 THEN from ELSE told + 1
  <2>1. told + 1 \in Int
    BY <1>2
  <2>. QED BY <1>4, <2>1, OfTwo
<1>. HIDE DEF first
<1>6. first \in 1..from /\ new \in from..(Len(tape) + 1) /\ told < new
  BY <1>2, <1>4, <1>5
<1>7. n \in Nat /\ \A k \in 1..n : from + k - 1 \in from..Len(tape)
      /\ from..Len(tape) \subseteq Trades
  <2>1. from..Len(tape) \subseteq 1..Len(tape)
    BY <1>2, <1>4
  <2>. QED BY <1>2, <1>4, <2>1
<1>8. told_again \in Seq(Trades) /\ Len(told_again) = n
  <2>1. told_again \in [1..n -> Trades]
    BY <1>7
  <2>. HIDE DEF told_again, n
  <2>. QED BY <1>7, <2>1, SeqOfLength
<1>9. Members(told_again) = from..Len(tape)
  <2>1. ASSUME NEW i \in from..Len(tape) PROVE \E k \in 1..n : told_again[k] = i
    <3>1. i - from + 1 \in 1..n /\ from + (i - from + 1) - 1 = i
      BY <1>2, <1>4
    <3>. QED BY <3>1
  <2>2. \A k \in 1..n : told_again[k] \in from..Len(tape)
    BY <1>7
  <2>. HIDE DEF told_again, n
  <2>. QED BY <1>8, <2>1, <2>2 DEF Members
<1>10. new # told + 1 => lost /\ first <= told + 1
  BY <1>2, <1>4, <1>5
<1>11. ~lost => (from..told) \cap loose = {}
  OBVIOUS
<1>12. lost \in BOOLEAN
  OBVIOUS
<1>. HIDE DEF lost, new, told_again
<1>13. Len(pending') = Len(tape) - from + 1 /\ pending' \in Seq(Trades)
       /\ Members(pending') = from..Len(tape)
  BY <1>1, <1>8, <1>9
<1>. QED BY <1>1, <1>4, <1>6, <1>10, <1>11, <1>12, <1>13, ToldStep

\* An update: what is new, in either order.
LEMMA UpdateStep ==
    ASSUME FillInv, NEW newestFirst \in BOOLEAN, Update(newestFirst)
    PROVE  FillInv'
<1>. DEFINE n == Len(tape) - told
            news == [k \in 1..n |-> IF newestFirst THEN Len(tape) + 1 - k ELSE told + k]
            lo == told + 1
<1>1. /\ linked = TRUE /\ pending = <<>> /\ linked' = TRUE /\ told < Len(tape)
      /\ told' = Len(tape) /\ position' = PositionAt(Len(tape)) /\ pending' = news
      /\ odd' = OddWith(told + 1, FALSE) /\ local' = local
      /\ UNCHANGED <<tape, run, after, seen, recent, started, tally, saved, base, loose>>
  <2>1. linked = TRUE
    BY FillParts DEF Update, FillTypes
  <2>. QED BY <2>1 DEF Update, Quiet
<1>2. told \in Nat /\ told <= Len(tape) /\ Len(tape) \in Nat /\ 1..Len(tape) \subseteq Trades
  BY FillParts
<1>3. run # "down"
  BY <1>1, FillParts DEF PositionFits
<1>4. n \in Nat /\ n > 0
  BY <1>1, <1>2
<1>5. \A k \in 1..n : news[k] \in lo..Len(tape)
  BY <1>2
<1>6. lo..Len(tape) \subseteq Trades
  <2>1. lo..Len(tape) \subseteq 1..Len(tape)
    BY <1>2
  <2>. QED BY <1>2, <2>1
<1>7. news \in Seq(Trades) /\ Len(news) = n
  <2>1. DOMAIN news = 1..n /\ news = [k \in 1..n |-> news[k]]
    OBVIOUS
  <2>. HIDE DEF news, n, lo
  <2>2. news \in [1..n -> Trades]
    BY <1>5, <1>6, <2>1
  <2>. QED BY <1>4, <2>2, SeqOfLength
<1>8. Members(news) = lo..Len(tape)
  <2>1. ASSUME NEW i \in lo..Len(tape) PROVE \E k \in 1..n : news[k] = i
    <3>1. CASE newestFirst
      <4>1. Len(tape) + 1 - i \in 1..n /\ Len(tape) + 1 - (Len(tape) + 1 - i) = i
        BY <1>2
      <4>. QED BY <3>1, <4>1
    <3>2. CASE ~newestFirst
      <4>1. i - told \in 1..n /\ told + (i - told) = i
        BY <1>2
      <4>. QED BY <3>2, <4>1
    <3>. QED BY <3>1, <3>2
  <2>. HIDE DEF news, n, lo
  <2>. QED BY <1>5, <1>7, <2>1 DEF Members
<1>9. pending' # <<>>
  <2>1. Len(pending') # 0
    BY <1>1, <1>4, <1>7
  <2>. QED BY <2>1
<1>. HIDE DEF news
<1>10. /\ lo \in 1..(Len(tape) + 1) /\ lo \in lo..(Len(tape) + 1) /\ told < lo /\ lo \in 1..lo
       /\ Len(pending') = Len(tape) - lo + 1
  BY <1>1, <1>2, <1>7
<1>11. (lo..told) \cap loose = {}
  BY <1>2
<1>12. /\ odd' = OddWith(lo, FALSE) /\ lo = told + 1 /\ pending' \in Seq(Trades)
       /\ Members(pending') = lo..Len(tape)
       /\ local' = IF pending' = <<>> THEN Synced(started, position', local) ELSE local
  BY <1>1, <1>7, <1>8, <1>9
<1>. HIDE DEF lo
<1>. QED BY <1>1, <1>3, <1>10, <1>11, <1>12, ToldStep

\* Every step keeps the invariant.
LEMMA FillKeeps == FillInv /\ [FillNext]_fillVars => FillInv'
<1>. SUFFICES ASSUME FillInv, [FillNext]_fillVars PROVE FillInv'
  OBVIOUS
<1>1. CASE \E side \in {1, -1} : Execute(side)
  BY <1>1, ExecuteStep
<1>2. CASE Start
  BY <1>2, StartStep
<1>3. CASE Initialize
  BY <1>3, InitializeStep
<1>4. CASE Subscribed
  BY <1>4, SubscribedStep
<1>5. CASE \E newestFirst \in BOOLEAN : Update(newestFirst)
  BY <1>5, UpdateStep
<1>6. CASE PositionFirst
  BY <1>6, PositionFirstStep
<1>7. CASE \E bad \in 0..Len(pending) : Process(bad)
  BY <1>7, ProcessStep
<1>8. CASE Crash \/ Break \/ UserStats \/ UNCHANGED fillVars
  BY <1>8, QuietSteps
<1>. QED BY <1>1, <1>2, <1>3, <1>4, <1>5, <1>6, <1>7, <1>8 DEF FillNext

\* The invariant holds always.
LEMMA FillsFit == FillSpec => []FillInv
<1>. QED BY FillStarts, FillKeeps, PTL DEF FillSpec

-----------------------------------------------------------------------------

\* However often a trade is told, across reconnects, the clearing of the identities,
\* crashes and restarts, the live totals in memory and on disk count it at most once,
\* unless an older trade was taken after it (_process_pending_trades).
THEOREM TradesCountOnce == FillSpec => []CountedOnce
<1>1. FillInv => CountedOnce
  BY DEF FillInv, Kept, Ledger, SavedFits, CountedOnce
<1>. QED BY <1>1, FillsFit, PTL

\* A trade executed while the program trades and told to it is counted in memory once
\* its batch was processed, whatever came before, but one that is odd.
THEOREM NoFillIsMissed == FillSpec => []NoFillMissed
<1>1. FillInv => NoFillMissed
  <2>. SUFFICES ASSUME FillInv, run = "trading", Quiet, NEW i \in (after + 1)..told,
                       i \notin odd
                PROVE  tally[i] > 0
    BY DEF NoFillMissed
  <2>1. i \in 1..Len(tape) /\ i > after /\ i <= told
    BY FillParts
  <2>2. i \in Trades /\ Members(pending) = {}
    BY <2>1, FillParts DEF Quiet, Members
  <2>. QED BY <2>1, <2>2, FillParts DEF NothingMissed
<1>. QED BY <1>1, FillsFit, PTL

\* The realised PnL of a trade is computed on the position it was executed against: the
\* local position is moved by every trade of a batch in turn and set to the exchange's
\* after the last one (_apply_live_fill_accounting, _sync_live_accounting_to_exchange).
THEOREM FillsAppliedInPlace == FillSpec => []AppliedWhereExecuted
<1>1. FillInv => AppliedWhereExecuted
  <2>. SUFFICES ASSUME FillInv PROVE AppliedWhereExecuted
    OBVIOUS
  <2>1. DOMAIN tape \subseteq Trades
    BY FillParts
  <2>. QED BY <2>1, FillParts DEF BaseFits, AppliedWhereExecuted
<1>. QED BY <1>1, FillsFit, PTL
=============================================================================
