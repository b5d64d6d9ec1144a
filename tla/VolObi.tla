------------------------------- MODULE VolObi -------------------------------
(***************************************************************************)
(* RollingStats, the ring buffer whose mean and variance are kept by       *)
(* Welford's update as values enter and by its reverse as they are pushed  *)
(* out, and VolObiCalculator, which turns two of them into a volatility    *)
(* and a signal, and these into a bid and an ask.                          *)
(*                                                                         *)
(* Arithmetic is exact here: the values are multiples of everything that   *)
(* divides them (UnitAssumption), so that rounding is out of the picture   *)
(* and what is left is whether the updates are the right ones.  Cells are  *)
(* numbered from 0.                                                        *)
(***************************************************************************)
EXTENDS Integers, Sequences, SequencesExt

CONSTANTS
    WindowSteps,    \* capacity of both windows
    MidPrices,      \* mid prices the feed may have
    Imbalances,     \* size near the middle, bids less asks
    Overrides,      \* alpha of the other exchange
    MinWarmup,      \* min_warmup_samples
    TickSize,
    MinHalf         \* least distance of a quote from the middle

ASSUME UnitAssumption ==
    /\ WindowSteps \in Nat \ {0} /\ MinWarmup \in Nat \ {0}
    /\ TickSize \in Nat \ {0} /\ MinHalf \in Nat
    /\ MidPrices \cup Imbalances \cup Overrides \subseteq Int
    /\ \A v \in MidPrices \cup Imbalances, n \in 1..WindowSteps : v % n = 0

VARIABLES
    moves,      \* _mid_stats: [buf, at, n, sum, m2, mean]
    tilts,      \* _imb_stats, likewise
    prevMid,    \* _prev_mid; empty: none yet
    override,   \* _alpha_override; empty: none
    warm,       \* what is left of the warm-up; 0: _warmed_up
    vol,        \* _volatility
    alpha,      \* _alpha
    past        \* history: the mid moves and imbalances since the last reset

volVars == <<moves, tilts, prevMid, override, warm, vol, alpha, past>>

NoStats == [buf |-> [i \in 0..(WindowSteps - 1) |-> 0],
          at |-> 0, n |-> 0, sum |-> 0, m2 |-> 0, mean |-> 0]

NotNegative(x) == IF x < 0 THEN 0 ELSE x

-----------------------------------------------------------------------------
(* RollingStats. *)

\* Mutant: the mean after an eviction still divides by the old count.
PushedAsFull(s) ==
    LET old == s.buf[s.at]
        mean == IF s.n > 1 THEN s.mean + (s.mean - old) \div s.n ELSE 0
    IN  IF s.n < WindowSteps THEN s
        ELSE [s EXCEPT !.m2 = NotNegative(@ - (old - s.mean) * (old - mean)),
                       !.sum = @ - old, !.n = @ - 1, !.mean = mean]

\* push, first half: the oldest value of a full window goes.
Evicted(s) ==
    LET old == s.buf[s.at]
        mean == IF s.n > 1 THEN s.mean + (s.mean - old) \div (s.n - 1) ELSE 0
    IN  IF s.n < WindowSteps THEN s
        ELSE [s EXCEPT !.m2 = NotNegative(@ - (old - s.mean) * (old - mean)),
                       !.sum = @ - old, !.n = @ - 1, !.mean = mean]

\* push, second half: the new value comes.
Pushed(stats, v) ==
    LET s == Evicted(stats)
        sum == s.sum + v
        mean == sum \div (s.n + 1)
    IN  [buf |-> [s.buf EXCEPT ![s.at] = v],
         at |-> IF s.at + 1 >= WindowSteps THEN 0 ELSE s.at + 1,
         n |-> s.n + 1, sum |-> sum, mean |-> mean,
         m2 |-> NotNegative(s.m2 + (v - s.mean) * (v - mean))]

\* clear: the cells keep what they held.
Cleared(s) == [NoStats EXCEPT !.buf = s.buf]

\* The whole part of a square root.
Root(x) == CHOOSE r \in 0..x : r * r <= x /\ (r + 1) * (r + 1) > x

Deviation(s) == IF s.n >= 2 THEN Root(s.m2 \div s.n) ELSE 0

\* zscore, in whole deviations.
ZScore(s, v) == IF Deviation(s) = 0 THEN 0 ELSE (v - s.mean) \div Deviation(s)

-----------------------------------------------------------------------------
(* VolObiCalculator. *)

VolInit ==
    /\ moves = NoStats /\ tilts = NoStats
    /\ prevMid = {} /\ override = {} /\ warm = MinWarmup
    /\ vol = 0 /\ alpha = 0 /\ past = [moves |-> <<>>, tilts |-> <<>>]

Latest(s) == IF Len(s) <= WindowSteps THEN s ELSE Tail(s)

\* on_order_book_update, its call of set_alpha_override, and on_book_update: the
\* first mid after a reset moves nothing, and the signal is measured against a
\* window that already holds it.
FeedBook(mid, tilt, other) ==
    /\ override' = other
    /\ moves' = IF prevMid = {} THEN moves
                ELSE Pushed(moves, mid - CHOOSE m \in prevMid : TRUE)
    /\ warm' = IF prevMid = {} \/ warm = 0 THEN warm ELSE warm - 1
    /\ prevMid' = {mid}
    /\ tilts' = Pushed(tilts, tilt)
    /\ IF warm' > 0 THEN UNCHANGED <<vol, alpha>>
       ELSE /\ vol' = Deviation(moves')
            /\ alpha' = IF other = {} THEN ZScore(tilts', tilt)
                        ELSE CHOOSE a \in other : TRUE
    /\ past' = [moves |-> IF prevMid = {} THEN past.moves
                          ELSE Latest(Append(past.moves,
                                   mid - CHOOSE m \in prevMid : TRUE)),
                tilts |-> Latest(Append(past.tilts, tilt))]

\* _on_disconnect: reset.
VolReset ==
    /\ moves' = Cleared(moves) /\ tilts' = Cleared(tilts)
    /\ prevMid' = {} /\ override' = {} /\ warm' = MinWarmup
    /\ vol' = 0 /\ alpha' = 0
    /\ past' = [moves |-> <<>>, tilts |-> <<>>]

\* quote, with the position in quarters of the limit, clipped.  <<>>: no quote.
Spread(mid, quarters) ==
    LET q == IF quarters > 4 THEN 4 ELSE IF quarters < -4 THEN -4 ELSE quarters
        fair == mid + alpha
        bid == fair - (vol * (4 + q)) \div 4
        ask == fair + (vol * (4 - q)) \div 4
        low == IF MinHalf > 0 /\ bid > mid - MinHalf THEN mid - MinHalf ELSE bid
        high == IF MinHalf > 0 /\ ask < mid + MinHalf THEN mid + MinHalf ELSE ask
        down == (low \div TickSize) * TickSize
        up == -((-high) \div TickSize) * TickSize
    IN  IF warm > 0 \/ down >= up THEN <<>> ELSE <<down, up>>

VolNext ==
    \/ \E mid \in MidPrices, tilt \in Imbalances,
          other \in {{}} \cup {{a} : a \in Overrides} : FeedBook(mid, tilt, other)
    \/ VolReset

VolSpec == VolInit /\ [][VolNext]_volVars

-----------------------------------------------------------------------------
(* Properties. *)

SumAll(s) == FoldLeft(+, 0, s)
SquaresFrom(s, c) == FoldLeft(LAMBDA acc, x : acc + (x - c) * (x - c), 0, s)

\* The moments of exactly these values.
MomentsOf(s, values) ==
    /\ s.n = Len(values) /\ s.sum = SumAll(values)
    /\ s.n > 0 => s.mean * s.n = s.sum /\ s.m2 = SquaresFrom(values, s.mean)

\* Through any run of updates, evictions and resets both windows have the mean and
\* the squared deviations of exactly the last values since the last reset, no
\* drift and nothing from before it.
MomentsAgree == MomentsOf(moves, past.moves) /\ MomentsOf(tilts, past.tilts)

\* Whatever the signal, the skew and the position do, a quote never crosses and
\* stays at the least distance from the middle (where there is one), and there is
\* none before the warm-up.
SpreadKeepsFloor ==
    \A mid \in prevMid, quarters \in -5..5 :
        LET s == Spread(mid, quarters)
        IN  /\ s # <<>> =>
                 /\ s[1] < s[2]
                 /\ MinHalf > 0 => s[1] <= mid - MinHalf /\ s[2] >= mid + MinHalf
            /\ past.moves = <<>> => s = <<>>
=============================================================================
