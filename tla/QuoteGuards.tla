---------------------------- MODULE QuoteGuards ----------------------------
(***************************************************************************)
(* What a tick of the loop wants quoted: the prices of the model pass      *)
(* through the gate of the estimators, the position limit and four guards, *)
(* each of which may take quotes away, and each of which falls back on one *)
(* reducing quote rather than leave inventory without an exit.             *)
(*                                                                         *)
(* A quote is its level and side; how far from the middle it is, and what  *)
(* moves prices only (quality multiplier, exit bias, de-risk ladder,       *)
(* profit capture), is in QuotePrices.  Inventory is counted in clips.     *)
(***************************************************************************)
EXTENDS Integers

CONSTANTS
    TopLevel,           \* levels are 0..TopLevel
    Limits,             \* what the position limit may be; 0: not computable
    EnterPct, ExitPct,  \* exit-only mode, in percent of the limit
    TriggerPct,         \* toxic flow guard, likewise
    Cool                \* both cooldowns

ASSUME GuardAssumption ==
    /\ TopLevel \in Nat /\ Cool \in Nat
    /\ Limits \subseteq Nat /\ \E lim \in Limits : lim > 0
    /\ {EnterPct, ExitPct, TriggerPct} \subseteq Nat \ {0} /\ ExitPct <= EnterPct

VARIABLES
    held,       \* position, in clips
    limit,      \* precomputed_max_pos_usd, in clips
    wanted,     \* what the last tick wanted, by level
    resting,    \* what of it has not been filled
    exitSide,   \* _inventory_exit_only_side, 0: the mode is off
    hard,       \* what is left of _toxic_flow_hard_side_suppress_until
    trend,      \* what is left of _adverse_trend_suppress_until
    sticky,     \* INVENTORY_EXIT_HYSTERESIS_ENABLED
    basis       \* history: what the last tick went by

guardVars == <<held, limit, wanted, resting, exitSide, hard, trend, sticky, basis>>

Levels == 0..TopLevel
Sides == {"buy", "sell"}
Units(p) == IF p < 0 THEN -p ELSE p
SideOf(p) == IF p > 0 THEN 1 ELSE IF p < 0 THEN -1 ELSE 0

\* _side_would_increase_exposure: flat, both do.
Adds(side, p) == IF side = "buy" THEN p >= 0 ELSE p <= 0

AddsTo(p) == {s \in Sides : p # 0 /\ Adds(s, p)}
Reduces(p) == {s \in Sides : p # 0 /\ ~Adds(s, p)}

\* _inventory_ratio is 0 without a limit.
RatioFrom(pct, p, lim) == lim > 0 /\ Units(p) * 100 >= pct * lim

-----------------------------------------------------------------------------
(* The two fallbacks. *)

Nothing == [l \in Levels |-> {}]
ReduceOnly(p) == [Nothing EXCEPT ![0] = Reduces(p)]
BothFlat == [l \in Levels |-> Sides]

\* Takes the sides in out away; if that leaves inventory without a quote, the
\* fallback.
Without(q, out, p) ==
    LET rest == [l \in Levels |-> q[l] \ out]
    IN  IF rest = Nothing /\ p # 0 THEN ReduceOnly(p) ELSE rest

-----------------------------------------------------------------------------
(* calculate_order_prices. *)

\* Mutant: the limit is reached only when it is passed.
PastLimit(p, lim) == Units(p) > lim

AtLimit(p, lim) == Units(p) >= lim

\* What the calculators offer: the Cartea-Jaimungal one not the side that adds
\* to a full grid, and either nothing when its prices cross.
Offers(p) == {{}, Sides} \cup (IF p = 0 THEN {} ELSE {Reduces(p)})

\* ready: the gate is open, the calculator warm, and nothing was raised.
Base(p, lim, ready, offer) ==
    IF ~ready THEN ReduceOnly(p)
    ELSE IF offer = {} THEN IF p # 0 THEN ReduceOnly(p) ELSE BothFlat
    ELSE IF lim = 0 THEN ReduceOnly(p)
    ELSE LET left == IF AtLimit(p, lim) THEN offer \ AddsTo(p) ELSE offer
         IN  IF left = {} THEN ReduceOnly(p) ELSE [l \in Levels |-> left]

-----------------------------------------------------------------------------
(* The guards. *)

\* evaluate_toxic_flow_guard, _apply_toxic_flow_guard.
ToxicFlow(q, p, lim, severe) ==
    IF severe /\ RatioFrom(TriggerPct, p, lim) /\ p # 0
    THEN Without(q, AddsTo(p), p) ELSE q

\* _apply_toxic_flow_hard_side_gate: a toxic side starts its cooldown even while
\* its quotes would reduce.
HardLeft(toxic) == [s \in Sides |-> IF s \in toxic THEN Cool ELSE hard[s]]

\* Mutant: a toxic side is stopped even where it would reduce.
StoppedAlways(toxic, p) == toxic \cup {s \in Sides : hard[s] > 0}

Stopped(toxic, p) == {s \in Sides : (s \in toxic \/ hard[s] > 0) /\ Adds(s, p)}

HardGate(q, p, toxic) ==
    LET out == Stopped(toxic, p) IN IF out = {} THEN q ELSE Without(q, out, p)

\* _apply_adverse_trend_guard: a side found toxic now goes before those cooling,
\* and of those buying goes first: one side per tick.
Drifting(drift, p) == drift # "none" /\ Adds(drift, p)

Cooling(p) == {s \in Sides : trend[s] > 0 /\ Adds(s, p)}

TrendSide(drift, p) ==
    IF Drifting(drift, p) THEN {drift}
    ELSE IF "buy" \in Cooling(p) THEN {"buy"} ELSE Cooling(p)

TrendLeft(drift, p) ==
    IF Drifting(drift, p) THEN [trend EXCEPT ![drift] = Cool] ELSE trend

TrendGuard(q, p, drift) ==
    LET out == TrendSide(drift, p) IN IF out = {} THEN q ELSE Without(q, out, p)

\* Mutant: the mode is left as soon as the ratio is below where it was entered.
NoHysteresis(p, lim) == RatioFrom(EnterPct, p, lim)

\* The mode goes on above the exit ratio; without a limit the ratio is 0.
StaysOn(p, lim) == lim > 0 /\ Units(p) * 100 > ExitPct * lim

\* _update_inventory_exit_only_mode; hurt: the position is far enough under water.
ExitMode(p, lim, hurt) ==
    IF ~sticky \/ p = 0 THEN 0
    ELSE IF exitSide = SideOf(p) /\ StaysOn(p, lim) THEN exitSide
    ELSE IF RatioFrom(EnterPct, p, lim) \/ (hurt /\ RatioFrom(ExitPct, p, lim))
    THEN SideOf(p) ELSE 0

\* _apply_inventory_exit_hysteresis.
ExitOnly(q, p, mode) == IF mode = 0 THEN q ELSE Without(q, AddsTo(p), p)

-----------------------------------------------------------------------------

GuardInit ==
    /\ held = 0 /\ limit \in Limits
    /\ wanted = Nothing /\ resting = Nothing
    /\ exitSide = 0 /\ sticky \in BOOLEAN
    /\ hard = [s \in Sides |-> 0] /\ trend = [s \in Sides |-> 0]
    /\ basis = [pos |-> 0, lim |-> 0, stopped |-> {}, heavy |-> 0, free |-> FALSE]

\* History: the side on which the limit was reached, until the ratio was at the
\* exit threshold, the limit unknown, or the inventory gone.
Heavy(p, lim) ==
    IF p = 0 \/ lim = 0 \/ Units(p) * 100 <= ExitPct * lim THEN 0
    ELSE IF basis.heavy = SideOf(p) \/ Units(p) * 100 >= EnterPct * lim THEN SideOf(p)
    ELSE 0

\* One pass of market_making_loop, from the position to the quotes.
GuardTick(ready, offer, severe, toxic, drift, hurt) ==
    LET mode == ExitMode(held, limit, hurt)
        base == Base(held, limit, ready, offer)
        flow == ToxicFlow(base, held, limit, severe)
        gate == HardGate(flow, held, toxic)
        calm == TrendGuard(gate, held, drift)
    IN  /\ wanted' = ExitOnly(calm, held, mode)
        /\ resting' = wanted'
        /\ exitSide' = mode
        /\ hard' = HardLeft(toxic)
        /\ trend' = TrendLeft(drift, held)
        /\ basis' = [pos |-> held, lim |-> limit, stopped |-> Stopped(toxic, held),
                    heavy |-> Heavy(held, limit),
                    free |-> held = 0 /\ ready /\ offer = {}]
        /\ UNCHANGED <<held, limit, sticky>>

QuoteFilled(l, s) ==
    /\ s \in resting[l]
    /\ resting' = [resting EXCEPT ![l] = @ \ {s}]
    /\ held' = IF s = "buy" THEN held + 1 ELSE held - 1
    /\ UNCHANGED <<limit, wanted, exitSide, hard, trend, sticky, basis>>

\* _recompute_derived_params, when capital or the middle moved.
LimitMoves ==
    /\ limit' \in Limits
    /\ UNCHANGED <<held, wanted, resting, exitSide, hard, trend, sticky, basis>>

Elapse ==
    LET less(f) == [s \in Sides |-> IF f[s] > 0 THEN f[s] - 1 ELSE 0]
    IN  /\ hard' = less(hard) /\ trend' = less(trend)
        /\ UNCHANGED <<held, limit, wanted, resting, exitSide, sticky, basis>>

Ticks ==
    \E ready, severe, hurt \in BOOLEAN, toxic \in SUBSET Sides,
       drift \in Sides \cup {"none"} :
        \E offer \in IF ready THEN Offers(held) ELSE {{}} :
            GuardTick(ready, offer, severe, toxic, drift, hurt)

GuardNext ==
    \/ Ticks
    \/ \E l \in Levels, s \in Sides : QuoteFilled(l, s)
    \/ LimitMoves
    \/ Elapse

GuardSpec == GuardInit /\ [][GuardNext]_guardVars

-----------------------------------------------------------------------------
(* Properties. *)

\* Whatever the gate, the limit and the guards take away, and whatever they
\* remember of earlier ticks, a tick that saw inventory wants a quote on level 0
\* that reduces it.
InventoryHasExit == basis.pos # 0 => Reduces(basis.pos) \subseteq wanted[0]

Quoted == UNION {wanted[l] : l \in Levels}

\* At the limit, and from there until the ratio is down to the exit threshold, no
\* quote adds to the inventory, and a side in its hard cooldown is not quoted to
\* add, so that no run of fills takes the position past the largest limit by more
\* than the levels that rested below it.  Without a limit only the fallback for a
\* flat book quotes.
InventoryOnlyShrinks ==
    /\ basis.lim > 0 /\ AtLimit(basis.pos, basis.lim) => Quoted \cap AddsTo(basis.pos) = {}
    /\ sticky /\ basis.heavy # 0 => Quoted \cap AddsTo(basis.pos) = {}
    /\ Quoted \cap basis.stopped = {}
    /\ basis.lim = 0 /\ ~basis.free => Quoted \subseteq Reduces(basis.pos)
    /\ \E lim \in Limits : Units(held) <= lim + TopLevel
=============================================================================
