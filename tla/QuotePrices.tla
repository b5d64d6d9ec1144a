---------------------------- MODULE QuotePrices ----------------------------
(***************************************************************************)
(* Where a tick quotes: the prices of the model on their way through the   *)
(* two multipliers, the guards that take sides away, the exit bias, the    *)
(* de-risk ladder of the exit-only mode and the profit capture.  Each step *)
(* rounds to the price grid again.  QuoteGuards has when a guard acts;     *)
(* here it may act at any time and by any of its factors.                  *)
(*                                                                         *)
(* A price is its distance from the middle, which need not be on the grid: *)
(* for a bid the distance below it, for an ask the one above.              *)
(***************************************************************************)
EXTENDS Integers, Sequences

CONSTANTS
    Step,           \* price_tick_float, in units of the distances
    PriceTop,       \* levels are 0..PriceTop
    LevelFactor,    \* SPREAD_FACTOR_LEVEL1
    Depths,         \* half spreads of the model, of the fallbacks, of the capture
    Widenings,      \* factors of both multipliers and of the bias, in percent
    Tightenings     \* factors of the bias and the ladder, likewise

ASSUME PriceAssumption ==
    /\ Step \in Nat \ {0} /\ PriceTop \in Nat /\ LevelFactor \in Nat \ {0}
    /\ Depths \subseteq Nat \ {0}
    /\ \A pct \in Widenings : pct \in Nat /\ pct >= 100
    /\ \A pct \in Tightenings : pct \in 1..100

VARIABLES
    stage,      \* the function that is next, in the order of the loop
    offset,     \* from the grid below to the middle
    carries,    \* the sign of the position
    given,      \* history: the quotes before the guards, by level and side
    placed      \* the quotes now, likewise

priceVars == <<stage, offset, carries, given, placed>>

Stages == <<"idle", "quality", "toxic", "guards", "bias", "exit", "capture", "done">>
Ladder == 0..PriceTop
BothSides == {"buy", "sell"}
NoPrices == [l \in Ladder |-> <<>>]

Leaving == IF carries = 0 THEN {} ELSE IF carries > 0 THEN {"sell"} ELSE {"buy"}

AtLeast(a, b) == IF a < b THEN b ELSE a
AtMost(a, b) == IF a > b THEN b ELSE a

-----------------------------------------------------------------------------
(* The grid. *)

\* From the middle to the grid, outwards.
ToGrid(s) == IF s = "buy" THEN offset ELSE (Step - offset) % Step

\* Mutant: an ask is rounded down as a bid is.
AllDown(s, d) ==
    IF s = "buy" THEN ToGrid(s) - Step * ((100 * ToGrid(s) - d) \div (100 * Step))
    ELSE ToGrid(s) + Step * ((d - 100 * ToGrid(s)) \div (100 * Step))

\* Bids are rounded down and asks up: the grid from d hundredths of a unit on.
Outwards(s, d) == ToGrid(s) - Step * ((100 * ToGrid(s) - d) \div (100 * Step))

\* What is at the middle or past it is put elsewhere.
NotPast(d, instead) == IF d <= 0 THEN instead ELSE d

-----------------------------------------------------------------------------
(* The functions of the loop. *)

\* _SPREAD_FACTORS: the powers of the factor, by level.
SpreadFactors[l \in Ladder] == IF l = 0 THEN 1 ELSE LevelFactor * SpreadFactors[l - 1]

\* calculate_order_prices: level 0 from the model, the others from its depth.
ModelPrices(sides, depth) ==
    LET first(s) == Outwards(s, 100 * depth)
    IN  [l \in Ladder |-> [s \in sides |->
            IF l = 0 THEN first(s) ELSE Outwards(s, 100 * first(s) * SpreadFactors[l])]]

\* _fallback_reduce_only_quote_levels.
OneExit(depth) ==
    [l \in Ladder |-> [s \in IF l = 0 THEN Leaving ELSE {} |->
        NotPast(Outwards(s, 100 * AtLeast(depth, Step)), Step)]]

\* _fallback_flat_quote_levels.
FlatPrices(depth) ==
    [l \in Ladder |-> [s \in BothSides |->
        NotPast(Outwards(s, 100 * AtLeast(depth, Step) * SpreadFactors[l]), Step)]]

\* _apply_quality_spread_multiplier.
Widened(q, pct) ==
    IF pct <= 100 THEN q
    ELSE [l \in Ladder |-> [s \in DOMAIN q[l] |-> Outwards(s, AtLeast(q[l][s], 0) * pct)]]

\* The guards take away sides that would add.
SidesLeft(q, out, depth) ==
    LET rest == [l \in Ladder |-> [s \in DOMAIN q[l] \ out |-> q[l][s]]]
    IN  IF rest = NoPrices /\ carries # 0 THEN OneExit(depth) ELSE rest

\* _apply_inventory_exit_bias.
Biased(q, tighter, wider) ==
    IF carries = 0 \/ (tighter = 100 /\ wider = 100) THEN q
    ELSE [l \in Ladder |-> [s \in DOMAIN q[l] |->
            NotPast(Outwards(s, AtLeast(q[l][s], Step)
                        * (IF s \in Leaving THEN AtLeast(tighter, 5) ELSE wider)),
                    Outwards(s, 100 * Step))]]

\* _apply_inventory_exit_hysteresis; 0: there is no pressure to tighten.
ExitsOnly(q, tighter, depth) ==
    LET rest == [l \in Ladder |-> [s \in DOMAIN q[l] \cap Leaving |->
                    IF tighter = 0 THEN q[l][s]
                    ELSE NotPast(Outwards(s, AtLeast(q[l][s], Step) * tighter), Step)]]
    IN  IF rest = NoPrices THEN OneExit(depth) ELSE rest

\* _apply_inventory_profit_capture.
Captured(q, depth) ==
    [l \in Ladder |-> [s \in DOMAIN q[l] |->
        IF s \notin Leaving THEN q[l][s]
        ELSE NotPast(Outwards(s, 100 * AtMost(AtLeast(q[l][s], Step),
                                              AtLeast(depth, Step) * SpreadFactors[l])),
                     Outwards(s, 100 * Step))]]

-----------------------------------------------------------------------------

PriceInit ==
    /\ stage = "idle" /\ offset = 0 /\ carries = 0
    /\ given = NoPrices /\ placed = NoPrices

Goes(to) ==
    /\ \E i \in 1..(Len(Stages) - 1) : stage = Stages[i] /\ to = Stages[i + 1]
    /\ stage' = to

\* A tick: a middle, a position, and what the model offers for them.
Offered(off, sign, sides, depth) ==
    /\ Goes("quality")
    /\ offset' = off /\ carries' = sign
    /\ placed' = IF sides # {} THEN ModelPrices(sides, depth)'
                 ELSE IF sign # 0 THEN OneExit(depth)' ELSE FlatPrices(depth)'
    /\ given' = placed'

\* The multiplier of the live quality, then the one of the toxic flow guard.
Multiplied(pct) ==
    /\ Goes("toxic") \/ Goes("guards")
    /\ placed' = Widened(placed, pct) /\ given' = placed'
    /\ UNCHANGED <<offset, carries>>

PricesMove(to, q) == Goes(to) /\ placed' = q /\ UNCHANGED <<offset, carries, given>>

TickOver == stage = "done" /\ stage' = "idle" /\ offset' = 0 /\ carries' = 0
            /\ given' = NoPrices /\ placed' = NoPrices

Offers == \E off \in 0..(Step - 1), sign \in -1..1, sides \in SUBSET BothSides,
             depth \in Depths : Offered(off, sign, sides, depth)

GuardsAct == \E out \in SUBSET (BothSides \ Leaving), depth \in Depths :
                PricesMove("bias", SidesLeft(placed, out, depth))

BiasActs == \E tighter \in Tightenings, wider \in Widenings :
                PricesMove("exit", Biased(placed, tighter, wider))

ExitActs ==
    \/ PricesMove("capture", placed)
    \/ carries # 0 /\ \E tighter \in Tightenings \cup {0}, depth \in Depths :
                          PricesMove("capture", ExitsOnly(placed, tighter, depth))

CaptureActs ==
    \/ PricesMove("done", placed)
    \/ carries # 0 /\ \E depth \in Depths : PricesMove("done", Captured(placed, depth))

PriceNext ==
    \/ Offers \/ (\E pct \in Widenings : Multiplied(pct))
    \/ GuardsAct \/ BiasActs \/ ExitActs \/ CaptureActs \/ TickOver

PriceSpec == PriceInit /\ [][PriceNext]_priceVars

-----------------------------------------------------------------------------
(* Properties. *)

\* Through all functions and their roundings every quote stays on its side of the
\* middle, so that POST_ONLY is not what keeps it from taking; a deeper level is
\* never the better price; and for inventory the guards bring the exit no farther
\* away, by more than the grid makes them, and quotes that add no closer.
QuotesKeepOrder ==
    /\ \A l \in Ladder : \A s \in DOMAIN placed[l] :
        /\ placed[l][s] > 0
        /\ \A k \in 0..l : s \in DOMAIN placed[k] => placed[k][s] <= placed[l][s]
        /\ s \in DOMAIN given[l] /\ carries # 0 =>
             IF s \in Leaving
             THEN placed[l][s] <= Outwards(s, 100 * AtLeast(given[l][s], Step))
             ELSE placed[l][s] >= given[l][s]
=============================================================================
