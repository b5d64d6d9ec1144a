--------------------------- MODULE TradingProofs ---------------------------
(***************************************************************************)
(* Proofs about four parts of the live program, for every value of their   *)
(* constants: the guards of the quotes leave inventory an exit and bound   *)
(* it, the write gate keeps its window, waits out a backoff and keeps a    *)
(* free slot, what is owned and what rests stay within the exposure cap,   *)
(* and a session leaves no quote behind and does not turn its position.    *)
(* MCTradingParts runs the same parts on a small instance.                 *)
(***************************************************************************)
EXTENDS QuoteGuards, RateLimiter, ExposureCap, Session, Induction


-----------------------------------------------------------------------------
(* QuoteGuards: a tick that sees inventory leaves it an exit, and what it forbids
   is not quoted. *)

\* Quotes of a tick: a set of sides on every level.
Quotes == [Levels -> SUBSET Sides]

\* There is a first level.
LEMMA LevelZero == 0 \in Levels
BY GuardAssumption DEF GuardAssumption, Levels

\* A quote either adds to inventory or reduces it.
LEMMA AddsOrReduces ==
    ASSUME NEW p
    PROVE  /\ Reduces(p) \subseteq Sides /\ AddsTo(p) \subseteq Sides
           /\ Reduces(p) \cap AddsTo(p) = {}
           /\ p = 0 => Reduces(p) = {}
           /\ \A s \in Reduces(p) : ~Adds(s, p)
BY DEF Reduces, AddsTo

\* The fallback is one level of reducing quotes.
LEMMA FallbackReduces ==
    ASSUME NEW p
    PROVE  /\ ReduceOnly(p) \in Quotes
           /\ ReduceOnly(p)[0] = Reduces(p)
           /\ \A l \in Levels : ReduceOnly(p)[l] \subseteq Reduces(p)
<1>1. Reduces(p) \subseteq Sides
  BY AddsOrReduces
<1>2. Nothing \in Quotes /\ \A l \in Levels : Nothing[l] = {}
  BY DEF Nothing, Quotes
<1> QED
  BY <1>1, <1>2, LevelZero DEF ReduceOnly, Quotes

\* What taking sides away does to quotes, fallback included: nothing is added but
\* what reduces, nothing taken away stays but what reduces, and the exit stays if
\* it was there and is not taken away.
LEMMA TakenAway ==
    ASSUME NEW q \in Quotes, NEW taken, NEW p
    PROVE  /\ Without(q, taken, p) \in Quotes
           /\ \A l \in Levels : Without(q, taken, p)[l] \subseteq (q[l] \ taken) \cup Reduces(p)
           /\ p = 0 => \A l \in Levels : Without(q, taken, p)[l] = q[l] \ taken
           /\ Reduces(p) \subseteq q[0] /\ Reduces(p) \cap taken = {}
                => Reduces(p) \subseteq Without(q, taken, p)[0]
<1> DEFINE rest == [l \in Levels |-> q[l] \ taken]
<1>1. rest \in Quotes /\ \A l \in Levels : rest[l] = q[l] \ taken
  BY DEF Quotes
<1>2. CASE rest = Nothing /\ p # 0
  <2>1. Without(q, taken, p) = ReduceOnly(p)
    BY <1>2 DEF Without
  <2> QED
    BY <2>1, <1>2, FallbackReduces
<1>3. CASE ~(rest = Nothing /\ p # 0)
  <2>1. Without(q, taken, p) = rest
    BY <1>3 DEF Without
  <2> HIDE DEF rest
  <2> QED
    BY <2>1, <1>1, LevelZero
<1> QED
  BY <1>2, <1>3

-----------------------------------------------------------------------------
(* The model's prices and the four guards, one at a time.                  *)

\* Every value of the limit is a number.
LEMMA LimitIsNat == ASSUME NEW lim \in Limits PROVE lim \in Nat
BY GuardAssumption DEF GuardAssumption

\* calculate_order_prices: the exit is there, nothing adds at the limit, and
\* without a limit nothing but the fallback for a flat book does.
LEMMA BaseQuotes ==
    ASSUME NEW p \in Int, NEW lim \in Nat, NEW ready \in BOOLEAN,
           NEW offer \in IF ready THEN Offers(p) ELSE {{}}
    PROVE  LET q == Base(p, lim, ready, offer)
           IN  /\ q \in Quotes
               /\ Reduces(p) \subseteq q[0]
               /\ lim > 0 /\ AtLimit(p, lim) => \A l \in Levels : q[l] \cap AddsTo(p) = {}
               /\ lim = 0 /\ ~(p = 0 /\ ready /\ offer = {})
                    => \A l \in Levels : q[l] \subseteq Reduces(p)
<1> DEFINE q == Base(p, lim, ready, offer)
<1>0. /\ ReduceOnly(p) \in Quotes /\ ReduceOnly(p)[0] = Reduces(p)
      /\ \A l \in Levels : ReduceOnly(p)[l] \subseteq Reduces(p)
  BY FallbackReduces
<1>1. Reduces(p) \cap AddsTo(p) = {} /\ (p = 0 => Reduces(p) = {})
  BY AddsOrReduces
<1>2. CASE q = ReduceOnly(p)
  BY <1>0, <1>1, <1>2
<1>3. CASE ready /\ offer = {} /\ p = 0
  <2>1. q = BothFlat
    BY <1>3 DEF Base
  <2>2. BothFlat \in Quotes /\ \A l \in Levels : BothFlat[l] = Sides
    BY DEF BothFlat, Quotes
  <2>3. AddsTo(p) = {}
    BY <1>3 DEF AddsTo
  <2> QED
    BY <2>1, <2>2, <2>3, <1>1, <1>3
<1>4. CASE ready /\ offer # {} /\ lim # 0 /\ q # ReduceOnly(p)
  <2> DEFINE left == IF AtLimit(p, lim) THEN offer \ AddsTo(p) ELSE offer
             r == [l \in Levels |-> left]
  <2>1. q = r
    BY <1>4 DEF Base
  <2>2. offer = Sides \/ (p # 0 /\ offer = Reduces(p))
    BY <1>4 DEF Offers
  <2>3. left \subseteq Sides /\ Reduces(p) \subseteq left
    BY <2>2, <1>1, AddsOrReduces
  <2>4. r \in Quotes /\ \A l \in Levels : r[l] = left
    BY <2>3 DEF Quotes
  <2>5. AtLimit(p, lim) => left \cap AddsTo(p) = {}
    OBVIOUS
  <2> HIDE DEF left, r
  <2> QED
    BY <2>1, <2>3, <2>4, <2>5, <1>4, LevelZero
<1>5. q = ReduceOnly(p) \/ (ready /\ offer = {} /\ p = 0)
        \/ (ready /\ offer # {} /\ lim # 0 /\ q # ReduceOnly(p))
  BY DEF Base
<1> QED
  BY ONLY <1>2, <1>3, <1>4, <1>5

\* r is q after a guard: nothing new but what reduces, and the exit is kept.
Guarded(q, r, p) ==
    /\ r \in Quotes
    /\ \A l \in Levels : r[l] \subseteq q[l] \cup Reduces(p)
    /\ Reduces(p) \subseteq q[0] => Reduces(p) \subseteq r[0]

\* A guard that does nothing takes nothing from the exits.
LEMMA Untouched ==
    ASSUME NEW q \in Quotes, NEW p
    PROVE  Guarded(q, q, p)
BY DEF Guarded

\* Sides that do not reduce may be taken away.
LEMMA WithoutGuards ==
    ASSUME NEW q \in Quotes, NEW taken, NEW p, Reduces(p) \cap taken = {}
    PROVE  Guarded(q, Without(q, taken, p), p)
BY TakenAway DEF Guarded

\* The toxic flow guard leaves the exits.
LEMMA ToxicFlowGuards ==
    ASSUME NEW q \in Quotes, NEW p, NEW lim, NEW severe
    PROVE  Guarded(q, ToxicFlow(q, p, lim, severe), p)
BY Untouched, WithoutGuards, AddsOrReduces DEF ToxicFlow

\* The hard gate lets nothing of a stopped side through.
LEMMA HardGateGuards ==
    ASSUME NEW q \in Quotes, NEW p, NEW toxic
    PROVE  /\ Guarded(q, HardGate(q, p, toxic), p)
           /\ Reduces(p) \cap Stopped(toxic, p) = {}
           /\ \A l \in Levels : HardGate(q, p, toxic)[l] \cap Stopped(toxic, p) = {}
<1> DEFINE taken == Stopped(toxic, p)
<1>1. Reduces(p) \cap taken = {}
  BY AddsOrReduces DEF Stopped
<1> HIDE DEF taken
<1>2. HardGate(q, p, toxic) = IF taken = {} THEN q ELSE Without(q, taken, p)
  BY DEF HardGate, taken
<1>3. \A l \in Levels : Without(q, taken, p)[l] \subseteq (q[l] \ taken) \cup Reduces(p)
  BY TakenAway
<1>4. Guarded(q, HardGate(q, p, toxic), p)
  BY <1>1, <1>2, Untouched, WithoutGuards
<1>5. \A l \in Levels : HardGate(q, p, toxic)[l] \cap taken = {}
  BY <1>1, <1>2, <1>3
<1> QED
  BY <1>1, <1>4, <1>5 DEF taken

\* The trend guard leaves the exits.
LEMMA TrendGuards ==
    ASSUME NEW q \in Quotes, NEW p, NEW drift
    PROVE  Guarded(q, TrendGuard(q, p, drift), p)
<1>1. \A s \in TrendSide(drift, p) : Adds(s, p)
  BY DEF TrendSide, Drifting, Cooling
<1>2. Reduces(p) \cap TrendSide(drift, p) = {}
  BY <1>1, AddsOrReduces
<1> QED
  BY <1>2, Untouched, WithoutGuards DEF TrendGuard

\* In exit-only mode nothing adds.
LEMMA ExitOnlyGuards ==
    ASSUME NEW q \in Quotes, NEW p, NEW mode
    PROVE  /\ Guarded(q, ExitOnly(q, p, mode), p)
           /\ mode # 0 => \A l \in Levels : ExitOnly(q, p, mode)[l] \cap AddsTo(p) = {}
<1>1. Guarded(q, ExitOnly(q, p, mode), p)
  BY Untouched, WithoutGuards, AddsOrReduces DEF ExitOnly
<1>2. ASSUME mode # 0, NEW l \in Levels
      PROVE  ExitOnly(q, p, mode)[l] \cap AddsTo(p) = {}
  <2>1. ExitOnly(q, p, mode) = Without(q, AddsTo(p), p)
    BY <1>2 DEF ExitOnly
  <2>2. Without(q, AddsTo(p), p)[l] \subseteq (q[l] \ AddsTo(p)) \cup Reduces(p)
    BY TakenAway
  <2> QED
    BY <2>1, <2>2, AddsOrReduces
<1> QED
  BY <1>1, <1>2

-----------------------------------------------------------------------------
(* The inductive invariant.                                                *)

Turns == {-1, 0, 1}

GuardTypes ==
    /\ held \in Int /\ limit \in Limits
    /\ wanted \in Quotes /\ resting \in Quotes
    /\ exitSide \in Turns /\ sticky \in BOOLEAN
    /\ basis \in [pos : Int, lim : Nat, stopped : SUBSET Sides, heavy : Turns,
                  free : BOOLEAN]

\* What the last tick forbade, level by level; and the mode is on where the history
\* says it must be.
TickKept ==
    /\ basis.lim > 0 /\ AtLimit(basis.pos, basis.lim)
         => \A l \in Levels : wanted[l] \cap AddsTo(basis.pos) = {}
    /\ sticky /\ basis.heavy # 0
         => \A l \in Levels : wanted[l] \cap AddsTo(basis.pos) = {}
    /\ \A l \in Levels : wanted[l] \cap basis.stopped = {}
    /\ basis.lim = 0 /\ ~basis.free
         => \A l \in Levels : wanted[l] \subseteq Reduces(basis.pos)
    /\ sticky /\ basis.heavy # 0 => exitSide = basis.heavy
    /\ InventoryHasExit

\* The levels with a quote of a side at rest.
At(q, s) == {l \in Levels : s \in q[l]}

\* The fills that are still to come on a side leave the position in bounds.
Bounded(p, n) == \E lim \in Limits : p + n <= lim + TopLevel

Room ==
    /\ Bounded(held, Cardinality(At(resting, "buy")))
    /\ Bounded(-held, Cardinality(At(resting, "sell")))

GuardInv == GuardTypes /\ TickKept /\ Room

-----------------------------------------------------------------------------
(* Facts about the memory of the mode.                                     *)

\* The units of inventory are a number.
LEMMA UnitsIsNat == ASSUME NEW p \in Int PROVE Units(p) \in Nat
BY DEF Units

\* Where the history says heavy, the mode is on for that side.
LEMMA HeavyIsInMode ==
    ASSUME NEW p \in Int, NEW lim \in Nat, NEW hurt \in BOOLEAN, sticky = TRUE,
           GuardTypes, TickKept, Heavy(p, lim) # 0
    PROVE  ExitMode(p, lim, hurt) = Heavy(p, lim)
<1>1. p # 0 /\ lim # 0 /\ ~(Units(p) * 100 <= ExitPct * lim)
  BY DEF Heavy
<1>2. basis.heavy = SideOf(p) \/ Units(p) * 100 >= EnterPct * lim
  BY <1>1 DEF Heavy
<1>3. Heavy(p, lim) = SideOf(p)
  BY <1>1, <1>2 DEF Heavy
<1>4. SideOf(p) # 0
  BY <1>1 DEF SideOf
<1>5. lim > 0
  BY <1>1
<1>6. StaysOn(p, lim)
  <2>1. ExitPct * lim \in Int /\ Units(p) * 100 \in Int
    BY UnitsIsNat, GuardAssumption DEF GuardAssumption
  <2>2. Units(p) * 100 > ExitPct * lim
    BY <2>1, <1>1
  <2> QED
    BY <2>2, <1>5 DEF StaysOn
<1>7. CASE basis.heavy = SideOf(p)
  <2>1. exitSide = SideOf(p)
    BY <1>4, <1>7 DEF TickKept
  <2> QED
    BY <2>1, <1>1, <1>3, <1>6 DEF ExitMode
<1>8. CASE Units(p) * 100 >= EnterPct * lim
  <2>1. RatioFrom(EnterPct, p, lim)
    BY <1>5, <1>8 DEF RatioFrom
  <2> QED
    BY <2>1, <1>1, <1>3 DEF ExitMode
<1> QED
  BY <1>2, <1>7, <1>8

\* The modes of the hysteresis are what they are declared to be.
LEMMA ModeTypes ==
    ASSUME NEW p \in Int, NEW lim \in Nat, NEW hurt, GuardTypes
    PROVE  ExitMode(p, lim, hurt) \in Turns /\ Heavy(p, lim) \in Turns
BY DEF ExitMode, Heavy, SideOf, Turns, GuardTypes

-----------------------------------------------------------------------------
(* Counting what rests.                                                    *)

\* The levels that quote a side are counted.
LEMMA LevelsCounted ==
    ASSUME NEW q, NEW s
    PROVE  /\ IsFiniteSet(At(q, s))
           /\ Cardinality(At(q, s)) \in Nat
           /\ Cardinality(At(q, s)) <= TopLevel + 1
<1>1. TopLevel \in Nat
  BY GuardAssumption DEF GuardAssumption
<1>2. IsFiniteSet(0..TopLevel) /\ Cardinality(0..TopLevel) = TopLevel + 1
  <2>1. 0 \in Int /\ TopLevel \in Int
    BY <1>1
  <2>2. IsFiniteSet(0..TopLevel)
        /\ Cardinality(0..TopLevel) = IF 0 > TopLevel THEN 0 ELSE TopLevel - 0 + 1
    BY <2>1, FS_Interval
  <2> QED
    BY <2>2, <1>1
<1>3. At(q, s) \subseteq 0..TopLevel
  BY DEF At, Levels
<1>4. /\ IsFiniteSet(At(q, s))
      /\ Cardinality(At(q, s)) <= Cardinality(0..TopLevel)
  BY <1>2, <1>3, FS_Subset
<1>5. Cardinality(At(q, s)) \in Nat
  BY <1>4, FS_CardinalityType
<1> QED
  BY <1>2, <1>4, <1>5

\* No level quotes the side.
LEMMA NoneCounted ==
    ASSUME NEW q, NEW s, \A l \in Levels : s \notin q[l]
    PROVE  Cardinality(At(q, s)) = 0
<1>1. At(q, s) = {}
  BY DEF At
<1> QED
  BY <1>1, FS_EmptySet

\* A tick leaves room: below the limit every level may be filled, at the limit and
\* without one none that adds, and a flat book has a limit to be under.
LEMMA RoomAfterTick ==
    ASSUME NEW p \in Int, NEW lim \in Limits, NEW m \in Nat, NEW n \in Nat,
           n <= TopLevel + 1, Bounded(p, m), p > 0 /\ p >= lim => n = 0
    PROVE  Bounded(p, n)
<1> USE DEF Bounded
<1>1. TopLevel \in Nat /\ lim \in Nat
  BY GuardAssumption, LimitIsNat DEF GuardAssumption
<1>2. CASE p > 0 /\ p >= lim
  <2>1. PICK k \in Limits : p + m <= k + TopLevel
    OBVIOUS
  <2>2. p + n <= k + TopLevel
    BY <2>1, <1>1, <1>2, LimitIsNat
  <2> QED
    BY <2>2
<1>3. CASE p < lim
  <2>1. p + n <= lim + TopLevel
    BY <1>1, <1>3
  <2> QED
    BY <2>1
<1>4. CASE ~(p > 0) /\ ~(p < lim)
  <2>1. PICK k \in Limits : k > 0
    BY GuardAssumption DEF GuardAssumption
  <2>2. p + n <= k + TopLevel
    BY <2>1, <1>1, <1>4, LimitIsNat
  <2> QED
    BY <2>2
<1> QED
  BY <1>1, <1>2, <1>3, <1>4

-----------------------------------------------------------------------------
(* One tick.                                                               *)

\* A tick, whatever it saw and offered.
LEMMA TickStep ==
    ASSUME GuardInv,
           NEW ready \in BOOLEAN, NEW severe \in BOOLEAN, NEW hurt \in BOOLEAN,
           NEW toxic \in SUBSET Sides, NEW drift \in Sides \cup {"none"},
           NEW offer \in IF ready THEN Offers(held) ELSE {{}},
           GuardTick(ready, offer, severe, toxic, drift, hurt)
    PROVE  GuardInv'
<1> DEFINE p == held
           mode == ExitMode(held, limit, hurt)
           base == Base(held, limit, ready, offer)
           flow == ToxicFlow(base, held, limit, severe)
           gate == HardGate(flow, held, toxic)
           calm == TrendGuard(gate, held, drift)
           last == ExitOnly(calm, held, mode)
           taken == Stopped(toxic, held)
<1>1. /\ held \in Int /\ limit \in Limits /\ limit \in Nat /\ sticky \in BOOLEAN
  BY LimitIsNat DEF GuardInv, GuardTypes
<1>2. /\ wanted' = last /\ resting' = last
      /\ exitSide' = mode
      /\ basis' = [pos |-> held, lim |-> limit, stopped |-> taken,
                   heavy |-> Heavy(held, limit), free |-> held = 0 /\ ready /\ offer = {}]
      /\ held' = held /\ limit' = limit /\ sticky' = sticky
  BY DEF GuardTick
<1>3. /\ base \in Quotes
      /\ Reduces(p) \subseteq base[0]
      /\ limit > 0 /\ AtLimit(p, limit) => \A l \in Levels : base[l] \cap AddsTo(p) = {}
      /\ limit = 0 /\ ~(p = 0 /\ ready /\ offer = {})
            => \A l \in Levels : base[l] \subseteq Reduces(p)
  BY <1>1, BaseQuotes
<1>4. Guarded(base, flow, p)
  BY <1>3, ToxicFlowGuards
<1>5. /\ Guarded(flow, gate, p) /\ Reduces(p) \cap taken = {}
      /\ \A l \in Levels : gate[l] \cap taken = {}
  <2>1. flow \in Quotes
    BY <1>4 DEF Guarded
  <2> QED
    BY <2>1, HardGateGuards
<1>6. Guarded(gate, calm, p)
  <2>1. gate \in Quotes
    BY <1>5 DEF Guarded
  <2> QED
    BY <2>1, TrendGuards
<1>7. /\ Guarded(calm, last, p)
      /\ mode # 0 => \A l \in Levels : last[l] \cap AddsTo(p) = {}
  <2>1. calm \in Quotes
    BY <1>6 DEF Guarded
  <2> QED
    BY <2>1, ExitOnlyGuards
<1>8. Reduces(p) \cap AddsTo(p) = {}
  BY AddsOrReduces
<1>9. mode \in Turns /\ Heavy(held, limit) \in Turns
  BY <1>1, ModeTypes DEF GuardInv
<1>10. sticky = TRUE /\ Heavy(held, limit) # 0 => mode = Heavy(held, limit)
  BY <1>1, HeavyIsInMode DEF GuardInv
<1> HIDE DEF mode, base, flow, gate, calm, last, taken
<1>11. last \in Quotes /\ Reduces(p) \subseteq last[0]
  BY <1>3, <1>4, <1>5, <1>6, <1>7 DEF Guarded
<1>a. \A l \in Levels : last[l] \subseteq base[l] \cup Reduces(p)
  BY <1>4, <1>5, <1>6, <1>7 DEF Guarded
<1>b. \A l \in Levels : last[l] \subseteq gate[l] \cup Reduces(p)
  BY <1>6, <1>7 DEF Guarded
<1>12. limit > 0 /\ AtLimit(p, limit) => \A l \in Levels : last[l] \cap AddsTo(p) = {}
  BY <1>3, <1>8, <1>a
<1>13. \A l \in Levels : last[l] \cap taken = {}
  BY <1>5, <1>b
<1>14. limit = 0 /\ ~(p = 0 /\ ready /\ offer = {})
          => \A l \in Levels : last[l] \subseteq Reduces(p)
  BY <1>3, <1>4, <1>5, <1>6, <1>7 DEF Guarded
<1>15. taken \in SUBSET Sides
  BY DEF taken, Stopped
<1>16. GuardTypes'
  BY <1>1, <1>2, <1>9, <1>11, <1>15 DEF GuardTypes
<1>17. TickKept'
  <2>1. /\ basis'.pos = held /\ basis'.lim = limit /\ basis'.stopped = taken
        /\ basis'.heavy = Heavy(held, limit)
        /\ basis'.free = (held = 0 /\ ready /\ offer = {})
    BY <1>2
  <2>2. InventoryHasExit'
    BY <2>1, <1>2, <1>11 DEF InventoryHasExit
  <2>3. sticky' /\ basis'.heavy # 0 => exitSide' = basis'.heavy
    BY <2>1, <1>1, <1>2, <1>10
  <2>4. sticky' /\ basis'.heavy # 0
           => \A l \in Levels : wanted'[l] \cap AddsTo(basis'.pos) = {}
    BY <2>1, <2>3, <1>2, <1>7
  <2>5. /\ basis'.lim > 0 /\ AtLimit(basis'.pos, basis'.lim)
              => \A l \in Levels : wanted'[l] \cap AddsTo(basis'.pos) = {}
        /\ \A l \in Levels : wanted'[l] \cap basis'.stopped = {}
        /\ basis'.lim = 0 /\ ~basis'.free
              => \A l \in Levels : wanted'[l] \subseteq Reduces(basis'.pos)
    BY <2>1, <1>2, <1>12, <1>13, <1>14
  <2> QED
    BY <2>2, <2>3, <2>4, <2>5 DEF TickKept
<1>18. \A l \in Levels : held > 0 /\ held >= limit => "buy" \notin last[l]
  <2> SUFFICES ASSUME NEW l \in Levels, held > 0, held >= limit
               PROVE  "buy" \notin last[l]
    OBVIOUS
  <2>1. "buy" \in AddsTo(p) /\ "buy" \notin Reduces(p)
    BY <1>1 DEF AddsTo, Reduces, Adds, Sides
  <2>2. AtLimit(p, limit)
    BY <1>1 DEF AtLimit, Units
  <2>3. CASE limit > 0
    BY <2>1, <2>2, <2>3, <1>12
  <2>4. CASE limit = 0
    BY <2>1, <2>4, <1>1, <1>14
  <2> QED
    BY <2>3, <2>4, <1>1
<1>19. \A l \in Levels : -held > 0 /\ -held >= limit => "sell" \notin last[l]
  <2> SUFFICES ASSUME NEW l \in Levels, -held > 0, -held >= limit
               PROVE  "sell" \notin last[l]
    OBVIOUS
  <2>1. "sell" \in AddsTo(p) /\ "sell" \notin Reduces(p)
    BY <1>1 DEF AddsTo, Reduces, Adds, Sides
  <2>2. AtLimit(p, limit)
    BY <1>1 DEF AtLimit, Units
  <2>3. CASE limit > 0
    BY <2>1, <2>2, <2>3, <1>12
  <2>4. CASE limit = 0
    BY <2>1, <2>4, <1>1, <1>14
  <2> QED
    BY <2>3, <2>4, <1>1
<1>20. Bounded(held, Cardinality(At(last, "buy")))
  <2>1. held > 0 /\ held >= limit => Cardinality(At(last, "buy")) = 0
    BY <1>18, NoneCounted
  <2>2. Bounded(held, Cardinality(At(resting, "buy")))
    BY DEF GuardInv, Room
  <2> QED
    BY <2>1, <2>2, <1>1, LevelsCounted, RoomAfterTick
<1>21. Bounded(-held, Cardinality(At(last, "sell")))
  <2>1. -held > 0 /\ -held >= limit => Cardinality(At(last, "sell")) = 0
    BY <1>19, NoneCounted
  <2>2. Bounded(-held, Cardinality(At(resting, "sell")))
    BY DEF GuardInv, Room
  <2>3. -held \in Int
    BY <1>1
  <2> QED
    BY <2>1, <2>2, <2>3, <1>1, LevelsCounted, RoomAfterTick
<1>22. Room'
  BY <1>2, <1>20, <1>21 DEF Room, Bounded, At
<1> QED
  BY <1>16, <1>17, <1>22 DEF GuardInv

-----------------------------------------------------------------------------
(* The other steps, and the theorems.                                      *)

\* A fill takes one quote of its side from what rests, and moves the position by one.
LEMMA FillStep ==
    ASSUME GuardInv, NEW l \in Levels, NEW s \in Sides, QuoteFilled(l, s)
    PROVE  GuardInv'
<1>1. /\ held \in Int /\ resting \in Quotes /\ s \in resting[l]
      /\ resting' = [resting EXCEPT ![l] = @ \ {s}]
      /\ held' = IF s = "buy" THEN held + 1 ELSE held - 1
      /\ UNCHANGED <<limit, wanted, exitSide, hard, trend, sticky, basis>>
  BY DEF GuardInv, GuardTypes, QuoteFilled
<1>2. resting' \in Quotes /\ held' \in Int
  BY <1>1 DEF Quotes
<1>3. GuardTypes'
  BY <1>1, <1>2 DEF GuardInv, GuardTypes
<1>4. TickKept'
  BY <1>1 DEF GuardInv, TickKept, InventoryHasExit
<1>5. \A k \in Levels : resting'[k] = IF k = l THEN resting[k] \ {s} ELSE resting[k]
  BY <1>1 DEF Quotes
<1>6. At(resting', s) = At(resting, s) \ {l} /\ l \in At(resting, s)
  BY <1>1, <1>5 DEF At
<1>7. \A t \in Sides : t # s => At(resting', t) = At(resting, t)
  BY <1>5 DEF At
<1>8. /\ Cardinality(At(resting', s)) = Cardinality(At(resting, s)) - 1
      /\ Cardinality(At(resting, s)) \in Nat
  BY <1>6, LevelsCounted, FS_RemoveElement
<1>9. \A t \in Sides : Cardinality(At(resting, t)) \in Nat
  BY LevelsCounted
<1>10. PICK b \in Limits : held + Cardinality(At(resting, "buy")) <= b + TopLevel
  BY DEF GuardInv, Room, Bounded
<1>11. PICK c \in Limits : -held + Cardinality(At(resting, "sell")) <= c + TopLevel
  BY DEF GuardInv, Room, Bounded
<1>12. TopLevel \in Nat /\ b \in Nat /\ c \in Nat
  BY GuardAssumption, LimitIsNat DEF GuardAssumption
<1>13. CASE s = "buy"
  <2>1. held' = held + 1 /\ Cardinality(At(resting', "buy")) = Cardinality(At(resting, "buy")) - 1
    BY <1>1, <1>8, <1>13
  <2>2. Cardinality(At(resting', "sell")) = Cardinality(At(resting, "sell"))
    BY <1>7, <1>13 DEF Sides
  <2>3. "buy" \in Sides /\ "sell" \in Sides
    BY DEF Sides
  <2>4. held' + Cardinality(At(resting', "buy")) <= b + TopLevel
    BY <2>1, <2>3, <1>1, <1>9, <1>10, <1>12
  <2>5. -held' + Cardinality(At(resting', "sell")) <= c + TopLevel
    BY <2>1, <2>2, <2>3, <1>1, <1>9, <1>11, <1>12
  <2>6. Bounded(held, Cardinality(At(resting, "buy")))'
    BY <2>4 DEF Bounded, At
  <2>7. Bounded(-held, Cardinality(At(resting, "sell")))'
    BY <2>5 DEF Bounded, At
  <2> QED
    BY <2>6, <2>7, <1>3, <1>4 DEF GuardInv, Room
<1>14. CASE s = "sell"
  <2>1. held' = held - 1 /\ Cardinality(At(resting', "sell")) = Cardinality(At(resting, "sell")) - 1
    BY <1>1, <1>8, <1>14
  <2>2. Cardinality(At(resting', "buy")) = Cardinality(At(resting, "buy"))
    BY <1>7, <1>14 DEF Sides
  <2>3. "buy" \in Sides /\ "sell" \in Sides
    BY DEF Sides
  <2>4. held' + Cardinality(At(resting', "buy")) <= b + TopLevel
    BY <2>1, <2>2, <2>3, <1>1, <1>9, <1>10, <1>12
  <2>5. -held' + Cardinality(At(resting', "sell")) <= c + TopLevel
    BY <2>1, <2>3, <1>1, <1>9, <1>11, <1>12
  <2>6. Bounded(held, Cardinality(At(resting, "buy")))'
    BY <2>4 DEF Bounded, At
  <2>7. Bounded(-held, Cardinality(At(resting, "sell")))'
    BY <2>5 DEF Bounded, At
  <2> QED
    BY <2>6, <2>7, <1>3, <1>4 DEF GuardInv, Room
<1> QED
  BY <1>13, <1>14 DEF Sides

\* Nothing is at rest at first, and nothing is forbidden.
LEMMA GuardStarts == GuardInit => GuardInv
<1> SUFFICES ASSUME GuardInit PROVE GuardInv
  OBVIOUS
<1>1. Nothing \in Quotes /\ \A l \in Levels : Nothing[l] = {}
  BY DEF Nothing, Quotes
<1>2. /\ held = 0 /\ limit \in Limits /\ wanted = Nothing /\ resting = Nothing
      /\ exitSide = 0 /\ sticky \in BOOLEAN
      /\ basis = [pos |-> 0, lim |-> 0, stopped |-> {}, heavy |-> 0, free |-> FALSE]
  BY DEF GuardInit
<1>3. GuardTypes
  BY <1>1, <1>2 DEF GuardTypes, Turns
<1>4. TickKept
  BY <1>1, <1>2 DEF TickKept, InventoryHasExit
<1>5. Cardinality(At(resting, "buy")) = 0 /\ Cardinality(At(resting, "sell")) = 0
  BY <1>1, <1>2, NoneCounted
<1>6. TopLevel \in Nat /\ limit \in Nat
  BY <1>2, GuardAssumption, LimitIsNat DEF GuardAssumption
<1>7. 0 + 0 <= limit + TopLevel /\ -0 + 0 <= limit + TopLevel
  BY <1>6
<1>8. Room
  BY <1>2, <1>5, <1>7 DEF Room, Bounded
<1> QED
  BY <1>3, <1>4, <1>8 DEF GuardInv

\* Every step keeps the invariant.
LEMMA GuardSteps == GuardInv /\ [GuardNext]_guardVars => GuardInv'
<1> SUFFICES ASSUME GuardInv, [GuardNext]_guardVars PROVE GuardInv'
  OBVIOUS
<1>1. CASE Ticks
  BY <1>1, TickStep DEF Ticks
<1>2. ASSUME NEW l \in Levels, NEW s \in Sides, QuoteFilled(l, s) PROVE GuardInv'
  BY <1>2, FillStep
<1>3. CASE LimitMoves
  <2>1. limit' \in Limits
        /\ UNCHANGED <<held, wanted, resting, exitSide, hard, trend, sticky, basis>>
    BY <1>3 DEF LimitMoves
  <2> QED
    BY <2>1 DEF GuardInv, GuardTypes, TickKept, InventoryHasExit, Room, Bounded, At
<1>4. CASE Elapse
  <2>1. UNCHANGED <<held, limit, wanted, resting, exitSide, sticky, basis>>
    BY <1>4 DEF Elapse
  <2> QED
    BY <2>1 DEF GuardInv, GuardTypes, TickKept, InventoryHasExit, Room, Bounded, At
<1>5. CASE UNCHANGED guardVars
  BY <1>5 DEF guardVars, GuardInv, GuardTypes, TickKept, InventoryHasExit, Room, Bounded, At
<1> QED
  BY <1>1, <1>2, <1>3, <1>4, <1>5 DEF GuardNext

\* What a tick forbade is not quoted, and the fills leave the position in bounds.
LEMMA GuardsHold == GuardInv => InventoryHasExit /\ InventoryOnlyShrinks
<1> SUFFICES ASSUME GuardInv PROVE InventoryHasExit /\ InventoryOnlyShrinks
  OBVIOUS
<1>1. \A S : (\A l \in Levels : wanted[l] \cap S = {}) => Quoted \cap S = {}
  BY DEF Quoted
<1>2. \A S : (\A l \in Levels : wanted[l] \subseteq S) => Quoted \subseteq S
  BY DEF Quoted
<1>3. /\ basis.lim > 0 /\ AtLimit(basis.pos, basis.lim)
            => Quoted \cap AddsTo(basis.pos) = {}
      /\ sticky /\ basis.heavy # 0 => Quoted \cap AddsTo(basis.pos) = {}
      /\ Quoted \cap basis.stopped = {}
      /\ basis.lim = 0 /\ ~basis.free => Quoted \subseteq Reduces(basis.pos)
  BY <1>1, <1>2 DEF GuardInv, TickKept
<1>4. held \in Int /\ TopLevel \in Nat
  BY GuardAssumption DEF GuardAssumption, GuardInv, GuardTypes
<1>5. Cardinality(At(resting, "buy")) \in Nat /\ Cardinality(At(resting, "sell")) \in Nat
  BY LevelsCounted
<1>6. PICK b \in Limits : held + Cardinality(At(resting, "buy")) <= b + TopLevel
  BY DEF GuardInv, Room, Bounded
<1>7. PICK c \in Limits : -held + Cardinality(At(resting, "sell")) <= c + TopLevel
  BY DEF GuardInv, Room, Bounded
<1>8. b \in Nat /\ c \in Nat
  BY LimitIsNat
<1>9. held <= b + TopLevel /\ -held <= c + TopLevel
  BY <1>4, <1>5, <1>6, <1>7, <1>8
<1>10. \E lim \in Limits : Units(held) <= lim + TopLevel
  BY <1>4, <1>8, <1>9 DEF Units
<1> QED
  BY <1>3, <1>10 DEF InventoryOnlyShrinks, GuardInv, TickKept

\* Inventory always has a reducing quote on level 0: whatever the model offers, the
\* estimators' gate, the limit and the four guards with their memories take away.
THEOREM InventoryAlwaysHasExit == GuardSpec => []InventoryHasExit
<1>1. GuardInv => InventoryHasExit
  BY GuardsHold
<1> QED
  BY <1>1, GuardStarts, GuardSteps, PTL DEF GuardSpec

\* At the limit, in exit-only mode, in a hard cooldown and without a limit nothing
\* is quoted that adds, and no run of fills takes the position past the largest
\* limit by more than the levels that rested below it.
THEOREM InventoryIsBounded == GuardSpec => []InventoryOnlyShrinks
<1>1. GuardInv => InventoryOnlyShrinks
  BY GuardsHold
<1> QED
  BY <1>1, GuardStarts, GuardSteps, PTL DEF GuardSpec

-----------------------------------------------------------------------------
(* RateLimiter: nothing is sent during a backoff, and without quota a quote has a
   free slot for itself, unless someone sent while it waited for one. *)

Writers == {"sender", "canceller"}
Busy == {"sign", "sent"}

Whole(r) == {"at", "wait", "ops", "free", "stale"} \subseteq DOMAIN r

\* What a user is made of, and the types the two properties compare.
RateTypes ==
    /\ user = [w \in Users |-> user[w]] /\ \A w \in Users : Whole(user[w])
    /\ level \in Nat /\ since \in Nat

\* The lock is held by one user at a time, and the recovery signs nothing here.
OneHolder ==
    /\ \A v, w \in Users : user[v].at \in Busy /\ user[w].at \in Busy => v = w
    /\ user["recovery"].at # "sign"

\* A backoff begins only with an answer, whose writer holds the lock: nobody else
\* holds it then, and nobody gets it for a batch before the backoff is over.
CalmHolder == \A w \in Writers : user[w].at \in Busy => backoff = 0

\* Who needs a free slot has slept until there is one when its sleep is over.
SlotAhead ==
    \A w \in Users : user[w].free /\ ~user[w].stale =>
        /\ user[w].at = "gate" => user[w].wait \in Int /\ since + user[w].wait >= FreeGap
        /\ user[w].at \in {"lock", "sign"} => since >= FreeGap

HolderInv == RateTypes /\ OneHolder /\ CalmHolder
SlotInv == HolderInv /\ SlotAhead

\* One user is changed; it stays what a user is.
OneMoves(w) ==
    /\ \A v \in Users : v # w => user'[v] = user[v]
    /\ user' = [v \in Users |-> user'[v]] /\ \A v \in Users : Whole(user'[v])

\* A user goes on without getting the lock: with a free slot ahead if it needs one.
Onward(w) ==
    /\ OneMoves(w)
    /\ user'[w].at \notin Busy
    /\ user'[w].free /\ ~user'[w].stale =>
        /\ user'[w].at = "gate" =>
             user'[w].wait \in Int /\ since + user'[w].wait >= FreeGap
        /\ user'[w].at = "lock" => since >= FreeGap

\* One user moves, the others stay.
LEMMA Replaced ==
    ASSUME RateTypes, NEW w \in Users, NEW r, Whole(r), user' = [user EXCEPT ![w] = r]
    PROVE  OneMoves(w) /\ user'[w] = r
<1>1. user'[w] = r
  BY DEF RateTypes
<1>2. \A v \in Users : v # w => user'[v] = user[v]
  BY DEF RateTypes
<1>3. \A v \in Users : Whole(user'[v])
  BY <1>1, <1>2 DEF RateTypes
<1>4. user' = [v \in Users |-> user'[v]]
  BY DEF RateTypes
<1>. QED BY <1>1, <1>2, <1>3, <1>4 DEF OneMoves

\* The first of some alternatives is one of them.
LEMMA FirstOfSome ==
    ASSUME NEW S, S \subseteq 1..3, S # {}
    PROVE  Min(S) \in S
<1>1. CASE 1 \in S
  <2>1. \A y \in S : 1 =< y
    OBVIOUS
  <2>. QED BY <1>1, <2>1 DEF Min
<1>2. CASE 1 \notin S /\ 2 \in S
  <2>1. \A y \in S : 2 =< y
    BY <1>2
  <2>. QED BY <1>2, <2>1 DEF Min
<1>3. CASE 1 \notin S /\ 2 \notin S
  <2>1. \A y \in S : y = 3
    BY <1>3
  <2>2. PICK y \in S : TRUE
    OBVIOUS
  <2>3. 3 \in S /\ \A x \in S : 3 =< x
    BY <2>1, <2>2
  <2>. QED BY <2>1, <2>3 DEF Min
<1>. QED BY <1>1, <1>2, <1>3

\* Running on through the gate ends asleep before a phase, asleep before the lock,
\* or at the lock; in the last two a free slot is ahead if one is needed.
LEMMA RunsOn ==
    ASSUME RateTypes, NEW w \in Users, NEW p \in 1..3, NEW n, RunOn(w, p, n)
    PROVE  Onward(w)
<1>. DEFINE stops == {q \in p..3 : Waits(w, n)[Phases[q]] > 0}
            q == Min(stops)
            free == ~CancelOnly(w) /\ Free(quota)
            seen == IF p = 1 THEN FALSE ELSE user[w].stale
<1>. DOMAIN user = Users
  BY DEF RateTypes
<1>0. FreeGap \in Int /\ since \in Int
  BY RateAssumption DEF RateTypes
<1>1. free => Waits(w, n)[Phases[3]] = FreeGap - since
  BY DEF Waits, Phases, PacedFree
<1>2. CASE stops = {}
  <2>. DEFINE r == [at |-> "lock", wait |-> 0, ops |-> n, free |-> free, stale |-> seen]
  <2>1. user' = [user EXCEPT ![w] = r]
    BY <1>2 DEF RunOn
  <2>2. ~(Waits(w, n)[Phases[3]] > 0)
    BY <1>2
  <2>3. free => since >= FreeGap
    BY <1>0, <1>1, <2>2
  <2>. HIDE DEF free, seen
  <2>4. Whole(r) /\ r.at = "lock" /\ r.free = free
    BY DEF Whole
  <2>. HIDE DEF r
  <2>5. OneMoves(w) /\ user'[w] = r
    BY <2>1, <2>4, Replaced
  <2>. QED BY <2>3, <2>4, <2>5 DEF Onward, Busy
<1>3. CASE stops # {}
  <2>. DEFINE r == [at |-> IF q = 3 THEN "gate" ELSE Phases[q + 1],
                    wait |-> Waits(w, n)[Phases[q]], ops |-> n,
                    free |-> free, stale |-> seen]
  <2>1. user' = [user EXCEPT ![w] = r]
    BY <1>3 DEF RunOn
  <2>2. q \in {1, 2, 3}
    BY <1>3, FirstOfSome
  <2>3. Phases[2] = "floor" /\ Phases[3] = "quota"
    BY DEF Phases
  <2>4. free /\ q = 3 => /\ Waits(w, n)[Phases[q]] \in Int
                         /\ since + Waits(w, n)[Phases[q]] >= FreeGap
    BY <1>0, <1>1
  <2>. HIDE DEF free, q, seen
  <2>5. /\ Whole(r) /\ r.free = free /\ r.wait = Waits(w, n)[Phases[q]]
        /\ r.at = IF q = 3 THEN "gate" ELSE Phases[q + 1]
    BY DEF Whole
  <2>. HIDE DEF r
  <2>6. OneMoves(w) /\ user'[w] = r
    BY <2>1, <2>5, Replaced
  <2>7. r.at \in {"floor", "quota", "gate"} /\ (r.at = "gate" => q = 3)
    BY <2>2, <2>3, <2>5
  <2>. QED BY <2>4, <2>5, <2>6, <2>7 DEF Onward, Busy
<1>. QED BY <1>2, <1>3

-----------------------------------------------------------------------------

\* Nobody sends at the start.
LEMMA RateStarts == RateInit => SlotInv
<1>. SUFFICES ASSUME RateInit PROVE SlotInv
  OBVIOUS
<1>1. \A w \in Users : user[w] = Off
  BY DEF RateInit
<1>2. user = [w \in Users |-> user[w]]
  BY DEF RateInit
<1>3. RateTypes
  BY <1>1, <1>2, RateAssumption DEF RateInit, Off, RateTypes, Whole
<1>. QED BY <1>1, <1>3 DEF Off, SlotInv, HolderInv, OneHolder, CalmHolder, SlotAhead, Writers, Users, Busy

\* A user who goes on within what Onward allows.
LEMMA OneGoesOn ==
    ASSUME SlotInv, NEW w \in Users, Onward(w),
           since' = since, level' \in Nat,
           backoff' = backoff \/ user[w].at = "sent"
    PROVE  SlotInv'
<1>. USE DEF SlotInv, HolderInv, Onward
<1>1. \A v \in Users : v # w => user'[v] = user[v]
  BY DEF OneMoves
<1>2. RateTypes'
  BY DEF RateTypes, OneMoves
<1>3. OneHolder'
  BY <1>1 DEF OneHolder, Users, Busy
<1>4. CalmHolder'
  BY <1>1 DEF CalmHolder, OneHolder, Writers, Users, Busy
<1>5. SlotAhead'
  BY <1>1 DEF SlotAhead, Busy
<1>. QED BY <1>2, <1>3, <1>4, <1>5

\* A user asks for the limiter.
LEMMA EnterKeeps ==
    ASSUME SlotInv, NEW w \in Users, NEW n, Enter(w, n)
    PROVE  SlotInv' /\ level' = level /\ ~Sends(w)
<1>. RateTypes
  BY DEF SlotInv, HolderInv
<1>1. since' = since /\ backoff' = backoff /\ level' = level /\ level' \in Nat
  BY DEF Enter, GateRest, sends, ladder, RateTypes
<1>2. Onward(w)
  <2>1. CASE backoff > 0
    <3>. DEFINE r == [Off EXCEPT !.at = "window", !.wait = backoff, !.ops = n]
    <3>1. user' = [user EXCEPT ![w] = r]
      BY <2>1 DEF Enter
    <3>2. Whole(r) /\ r.at = "window" /\ r.free = FALSE
      BY DEF Whole, Off
    <3>. HIDE DEF r
    <3>3. OneMoves(w) /\ user'[w] = r
      BY <3>1, <3>2, Replaced
    <3>. QED BY <3>2, <3>3 DEF Busy, Onward
  <2>2. CASE ~(backoff > 0)
    <3>1. RunOn(w, 1, n)
      BY <2>2 DEF Enter
    <3>2. 1 \in 1..3
      OBVIOUS
    <3>. QED BY <3>1, <3>2, RunsOn
  <2>. QED BY <2>1, <2>2
<1>3. SlotInv'
  BY <1>1, <1>2, OneGoesOn
<1>. QED BY <1>1, <1>2, <1>3 DEF Sends, Busy, Onward

\* A user who slept wakes.
LEMMA WakeKeeps ==
    ASSUME SlotInv, NEW w \in Users, Wake(w)
    PROVE  SlotInv' /\ level' = level /\ ~Sends(w)
<1>. RateTypes
  BY DEF SlotInv, HolderInv
<1>1. since' = since /\ backoff' = backoff /\ level' = level /\ level' \in Nat
  BY DEF Wake, GateRest, sends, ladder, RateTypes
<1>2. Onward(w)
  <2>1. ASSUME NEW p \in 1..3, RunOn(w, p, user[w].ops)
        PROVE  Onward(w)
    BY <2>1, RunsOn
  <2>2. CASE user[w].wait = 0 /\ user[w].at = "gate" /\ user' = [user EXCEPT ![w].at = "lock"]
    <3>. DEFINE r == [user[w] EXCEPT !.at = "lock"]
    <3>1. user' = [user EXCEPT ![w] = r]
      BY <2>2 DEF RateTypes
    <3>2. /\ Whole(r) /\ r.at = "lock" /\ r.free = user[w].free /\ r.stale = user[w].stale
      BY DEF Whole, RateTypes
    <3>3. user[w].free /\ ~user[w].stale => since >= FreeGap
      BY <2>2 DEF SlotInv, RateTypes, SlotAhead
    <3>. HIDE DEF r
    <3>4. OneMoves(w) /\ user'[w] = r
      BY <3>1, <3>2, Replaced
    <3>. QED BY <3>2, <3>3, <3>4 DEF Busy, Onward
  <2>. QED BY <2>1, <2>2 DEF Wake
<1>3. SlotInv'
  BY <1>1, <1>2, OneGoesOn
<1>. QED BY <1>1, <1>2, <1>3 DEF Sends, Busy, Onward

-----------------------------------------------------------------------------
(* Steps with the lock.                                                    *)

\* A user takes the lock and is let through or told to wait.
LEMMA LockKeeps ==
    ASSUME SlotInv, NEW w \in Users, NEW n, Lock(w, n)
    PROVE  SlotInv' /\ level' = level /\ ~Sends(w)
<1>. DEFINE late == user[w].stale \/ (n > user[w].ops /\ quota # "zero")
            r == [user[w] EXCEPT !.at = "sign", !.ops = IF quota = "zero" THEN 1 ELSE n,
                                 !.stale = late]
<1>. RateTypes
  BY DEF SlotInv, HolderInv
<1>1. /\ user[w].at = "lock" /\ w # "recovery"
      /\ \A v \in Users : user[v].at \notin Busy
      /\ since' = since /\ backoff' = backoff /\ level' = level
  BY DEF Lock, LockTaken, GateRest, sends, ladder, Busy
<1>2. CASE ~NoBackoffNow
  <2>1. user' = [user EXCEPT ![w] = Off]
    BY <1>2 DEF Lock
  <2>2. OneMoves(w) /\ user'[w] = Off
    BY <2>1, Replaced DEF Whole, Off
  <2>3. Onward(w)
    BY <2>2 DEF Onward, Off, Busy
  <2>4. SlotInv'
    BY <1>1, <2>3, OneGoesOn DEF RateTypes
  <2>. QED BY <1>1, <2>4 DEF Sends
<1>3. CASE NoBackoffNow
  <2>1. user' = [user EXCEPT ![w] = IF NoBackoffNow THEN r ELSE Off]
    BY DEF Lock
  <2>2. late = (user[w].stale \/ (n > user[w].ops /\ quota # "zero"))
    OBVIOUS
  <2>. HIDE DEF late
  <2>3. Whole(r) /\ r.at = "sign" /\ r.free = user[w].free /\ r.stale = late
    BY DEF Whole, RateTypes
  <2>. HIDE DEF r
  <2>4. ~r.stale => ~user[w].stale
    BY <2>2, <2>3, Zenon
  <2>5. OneMoves(w) /\ user'[w] = r
    <3>1. user' = [user EXCEPT ![w] = r]
      BY <1>3, <2>1
    <3>. QED BY <2>3, <3>1, Replaced
  <2>6. \A v \in Users : v # w => user'[v] = user[v]
    BY <2>5 DEF OneMoves
  <2>7. RateTypes'
    BY <1>1, <2>5 DEF RateTypes, OneMoves
  <2>8. OneHolder'
    BY <1>1, <2>6 DEF OneHolder, SlotInv, HolderInv, Users
  <2>9. CalmHolder'
    BY <1>1, <1>3, <2>6 DEF CalmHolder, NoBackoffNow, Writers, Users
  <2>10. SlotAhead'
    BY <1>1, <2>3, <2>4, <2>5, <2>6 DEF SlotAhead, SlotInv
  <2>. QED BY <1>1, <2>7, <2>8, <2>9, <2>10 DEF SlotInv, HolderInv, Sends
<1>. QED BY <1>2, <1>3

\* What goes out is counted, and who waited until now has looked too early.
LEMMA RecordKeeps ==
    ASSUME SlotInv, NEW w \in Users,
           \A v \in Users : v # w => user[v].at \notin Busy,
           user' = [v \in Users |->
               IF v = w THEN [Off EXCEPT !.at = "sent"]
               ELSE [user[v] EXCEPT !.stale = user[v].at # "off"]],
           since' = 0, level' = level,
           w \in Writers => backoff' = 0
    PROVE  SlotInv'
<1>. RateTypes
  BY DEF SlotInv, HolderInv
<1>1. \A v \in Users \ {w} : /\ Whole(user'[v]) /\ user'[v].at = user[v].at
                             /\ user'[v].stale = (user[v].at # "off")
  BY DEF RateTypes, Whole
<1>2. Whole(user'[w]) /\ user'[w].at = "sent" /\ user'[w].free = FALSE
  BY DEF Whole, Off
<1>3. RateTypes'
  BY <1>1, <1>2 DEF RateTypes
<1>4. OneHolder'
  BY <1>1, <1>2 DEF OneHolder, Busy, Users
<1>5. CalmHolder'
  BY <1>1, <1>2 DEF CalmHolder, Writers, Users
<1>6. SlotAhead'
  BY <1>1, <1>2 DEF SlotAhead
<1>. QED BY <1>3, <1>4, <1>5, <1>6 DEF SlotInv, HolderInv

\* A user sends: no backoff is on, and a free slot has rested.
LEMMA SendKeeps ==
    ASSUME SlotInv, NEW w \in Users, Send(w)
    PROVE  /\ SlotInv' /\ level' = level /\ backoff = 0
           /\ user[w].free /\ ~user[w].stale => since >= FreeGap
           /\ \A v \in Users : Sends(v) => v = w
<1>1. user[w].at = "sign" /\ w \in Writers /\ backoff = 0
  BY DEF Send, SlotInv, HolderInv, OneHolder, CalmHolder, Busy, Users, Writers
<1>2. \A v \in Users : v # w => user[v].at \notin Busy
  BY <1>1 DEF SlotInv, HolderInv, OneHolder, Busy
<1>3. SlotInv'
  BY <1>1, <1>2, RecordKeeps DEF Send, Record, ladder
<1>. QED BY <1>1, <1>2, <1>3 DEF Send, ladder, SlotInv, SlotAhead, Sends, Busy

\* The answer to a send, or its refusal.
LEMMA AnswerKeeps ==
    ASSUME SlotInv, NEW w \in Users, NEW code, Answer(w, code)
    PROVE  SlotInv' /\ (level' > level => backoff = 0) /\ ~Sends(w)
<1>. RateTypes
  BY DEF SlotInv, HolderInv
<1>1. user[w].at = "sent" /\ w \in Writers /\ since' = since
  BY DEF Answer, sends, Users, Writers
<1>2. OneMoves(w) /\ user'[w] = Off
  BY Replaced DEF Answer, Whole, Off
<1>3. Onward(w)
  BY <1>2 DEF Onward, Off, Busy
<1>4. level' \in Nat
  BY RateAssumption DEF Answer, Success, TriggerBackoff, TriggerNoncePause, ladder, RateTypes, Clip
<1>5. backoff = 0
  BY <1>1 DEF SlotInv, HolderInv, CalmHolder, Busy
<1>6. SlotInv'
  BY <1>1, <1>3, <1>4, OneGoesOn
<1>. QED BY <1>1, <1>5, <1>6 DEF Sends

-----------------------------------------------------------------------------
(* The recovery, and time.                                                 *)

\* The recovery goes on to its next attempt.
LEMMA NextAttemptGoesOn ==
    ASSUME SlotInv, NEW k, NextAttempt(k)
    PROVE  Onward("recovery")
<1>. DEFINE r == [at |-> "gate", wait |-> Above(FreeGap - since), ops |-> 1,
                  free |-> TRUE, stale |-> FALSE]
<1>. RateTypes /\ "recovery" \in Users
  BY DEF SlotInv, HolderInv, Users
<1>1. user' = [user EXCEPT !["recovery"] = r]
  BY DEF NextAttempt
<1>2. Whole(r) /\ r.at = "gate" /\ r.wait = Above(FreeGap - since)
  BY DEF Whole
<1>3. r.wait \in Int /\ since + r.wait >= FreeGap
  BY <1>2, RateAssumption DEF Above, RateTypes
<1>. HIDE DEF r
<1>4. OneMoves("recovery") /\ user'["recovery"] = r
  BY <1>1, <1>2, Replaced
<1>. QED BY <1>2, <1>3, <1>4 DEF Onward, Busy

\* The steps of the recovery that send nothing.
LEMMA RecoveryKeeps ==
    ASSUME SlotInv, RecoveryStart \/ RecoveryAnswers \/ RecoveryGivesUp
    PROVE  SlotInv' /\ level' = level /\ ~Sends("recovery")
<1>. RateTypes /\ "recovery" \in Users
  BY DEF SlotInv, HolderInv, Users
<1>1. since' = since /\ backoff' = backoff /\ level' = level
  BY DEF RecoveryStart, RecoveryAnswers, RecoveryAnswer, RecoveryGivesUp, sends, ladder
<1>2. ASSUME user' = [user EXCEPT !["recovery"] = Off]
      PROVE  Onward("recovery")
  <2>1. OneMoves("recovery") /\ user'["recovery"] = Off
    BY <1>2, Replaced DEF Whole, Off
  <2>. QED BY <2>1 DEF Onward, Off, Busy
<1>3. Onward("recovery")
  BY <1>2, NextAttemptGoesOn DEF RecoveryStart, RecoveryAnswers, RecoveryAnswer, RecoveryGivesUp
<1>4. SlotInv'
  BY <1>1, <1>3, OneGoesOn DEF RateTypes
<1>. QED BY <1>1, <1>3, <1>4 DEF Sends, Onward, Busy

\* The recovery sends.
LEMMA RecoverySendKeeps ==
    ASSUME SlotInv, RecoverySend
    PROVE  SlotInv' /\ level' = level /\ \A v \in Users : ~Sends(v)
<1>1. \A v \in Users : user[v].at \notin Busy
  BY DEF RecoverySend, LockTaken, Busy
<1>2. "recovery" \in Users \ Writers
  BY DEF Users, Writers
<1>3. SlotInv'
  BY <1>1, <1>2, RecordKeeps DEF RecoverySend, ladder
<1>. QED BY <1>1, <1>3 DEF RecoverySend, ladder, Sends, Busy

\* What a user has left to sleep and the time since the last send move together.
LEMMA TickKeeps ==
    ASSUME SlotInv, Tick
    PROVE  SlotInv' /\ level' = level /\ \A v \in Users : ~Sends(v)
<1>. RateTypes
  BY DEF SlotInv, HolderInv
<1>1. /\ user' = [w \in Users |-> [user[w] EXCEPT !.wait = Above(user[w].wait - 1)]]
      /\ since' = Clip(since + 1, FreeGap) /\ backoff' = Above(backoff - 1) /\ level' = level
  BY DEF Tick
<1>2. \A v \in Users :
          /\ Whole(user'[v]) /\ user'[v].at = user[v].at
          /\ user'[v].free = user[v].free /\ user'[v].stale = user[v].stale
          /\ user'[v].wait = Above(user[v].wait - 1)
  BY <1>1 DEF RateTypes, Whole
<1>3. FreeGap \in Nat /\ since \in Nat
  BY RateAssumption DEF RateTypes
<1>4. RateTypes'
  <2>1. user' = [w \in Users |-> user'[w]]
    BY <1>1
  <2>2. since' \in Nat /\ level' \in Nat
    BY <1>1, <1>3 DEF RateTypes, Clip
  <2>. QED BY <1>2, <2>1, <2>2 DEF RateTypes
<1>5. OneHolder'
  BY <1>2 DEF SlotInv, HolderInv, OneHolder, Users
<1>6. CalmHolder'
  BY <1>1, <1>2 DEF SlotInv, HolderInv, CalmHolder, Writers, Users, Above
<1>7. SlotAhead'
  <2>1. ASSUME NEW w \in Users, user'[w].free, ~user'[w].stale, user'[w].at = "gate"
        PROVE  user'[w].wait \in Int /\ since' + user'[w].wait >= FreeGap
    <3>1. user[w].wait \in Int /\ since + user[w].wait >= FreeGap
      BY <1>2, <2>1 DEF SlotInv, SlotAhead
    <3>2. user'[w].wait = Above(user[w].wait - 1)
      BY <1>2
    <3>. QED BY <1>1, <1>3, <3>1, <3>2 DEF Clip, Above
  <2>2. ASSUME NEW w \in Users, user'[w].free, ~user'[w].stale, user'[w].at \in {"lock", "sign"}
        PROVE  since' >= FreeGap
    <3>1. since >= FreeGap
      BY <1>2, <2>2 DEF SlotInv, SlotAhead
    <3>. QED BY <1>1, <1>3, <3>1 DEF Clip
  <2>. QED BY <2>1, <2>2 DEF SlotAhead
<1>. QED BY <1>1, <1>2, <1>4, <1>5, <1>6, <1>7 DEF SlotInv, HolderInv, Sends

-----------------------------------------------------------------------------

\* Every step keeps the invariant, and does what the two properties ask of it.
LEMMA RateSteps ==
    ASSUME SlotInv, [RateNext]_rateVars
    PROVE  /\ SlotInv'
           /\ level' > level => backoff = 0
           /\ \A w \in Users : Sends(w) =>
                /\ backoff = 0
                /\ user[w].free /\ ~user[w].stale => since >= FreeGap
<1>. DEFINE Kept == /\ SlotInv'
                    /\ level' > level => backoff = 0
                    /\ \A w \in Users : Sends(w) =>
                         /\ backoff = 0
                         /\ user[w].free /\ ~user[w].stale => since >= FreeGap
<1>. RateTypes
  BY DEF SlotInv, HolderInv
<1>1. ASSUME level' = level PROVE ~(level' > level)
  BY <1>1 DEF RateTypes
<1>2. ASSUME NEW w \in Users, OneMoves(w) PROVE \A v \in Users : Sends(v) => v = w
  BY <1>2 DEF OneMoves, Sends
<1>3. CASE Tick
  BY <1>1, <1>3, TickKeeps
<1>4. ASSUME NEW w \in Users, NEW n \in 1..MaxBatch, Enter(w, n) PROVE Kept
  <2>1. SlotInv' /\ level' = level /\ ~Sends(w)
    BY <1>4, EnterKeeps
  <2>2. \A v \in Users : Sends(v) => v = w
    BY <1>4, <2>1 DEF Enter, RunOn, Sends, RateTypes
  <2>. QED BY <1>1, <2>1, <2>2
<1>5. ASSUME NEW w \in Users, Wake(w) PROVE Kept
  <2>1. SlotInv' /\ level' = level /\ ~Sends(w)
    BY <1>5, WakeKeeps
  <2>2. \A v \in Users : Sends(v) => v = w
    BY <1>5, <2>1 DEF Wake, RunOn, Sends, RateTypes
  <2>. QED BY <1>1, <2>1, <2>2
<1>6. ASSUME NEW w \in Users, Locks(w) PROVE Kept
  <2>1. PICK n \in 1..MaxBatch : Lock(w, n)
    BY <1>6 DEF Locks
  <2>2. SlotInv' /\ level' = level /\ ~Sends(w)
    BY <2>1, LockKeeps
  <2>3. \A v \in Users : Sends(v) => v = w
    BY <2>1 DEF Lock, Sends, RateTypes
  <2>. QED BY <1>1, <2>2, <2>3
<1>7. ASSUME NEW w \in Users, Send(w) PROVE Kept
  BY <1>1, <1>7, SendKeeps
<1>8. ASSUME NEW w \in Users, Answers(w) PROVE Kept
  <2>1. PICK code \in {"ok", "429", "nonce", "quota", "rejected"} : Answer(w, code)
    BY <1>8 DEF Answers
  <2>2. SlotInv' /\ (level' > level => backoff = 0) /\ ~Sends(w)
    BY <2>1, AnswerKeeps
  <2>3. \A v \in Users : Sends(v) => v = w
    BY <2>1 DEF Answer, Sends, RateTypes
  <2>. QED BY <2>2, <2>3
<1>9. CASE RecoveryStart \/ RecoveryAnswers \/ RecoveryGivesUp
  <2>1. SlotInv' /\ level' = level /\ ~Sends("recovery")
    BY <1>9, RecoveryKeeps
  <2>2. \A v \in Users : Sends(v) => v = "recovery"
    BY <1>9 DEF RecoveryStart, RecoveryAnswers, RecoveryAnswer, RecoveryGivesUp, NextAttempt,
                Sends, RateTypes
  <2>. QED BY <1>1, <2>1, <2>2
<1>10. CASE RecoverySend
  BY <1>1, <1>10, RecoverySendKeeps
<1>11. CASE Cooldown \/ UNCHANGED rateVars
  BY <1>1, <1>11
     DEF Cooldown, sends, ladder, rateVars, Sends, SlotInv, HolderInv, RateTypes,
         OneHolder, CalmHolder, SlotAhead
<1>. QED
  BY <1>3, <1>4, <1>5, <1>6, <1>7, <1>8, <1>9, <1>10, <1>11 DEF RateNext

\* The lock, and the second look at the backoff under it, are enough however long a
\* writer slept or queued since its first look: no batch goes out during a backoff,
\* and the ladder climbs one rung per backoff.
THEOREM NoBatchInBackoff == RateSpec => BackoffIsWaitedOut
<1>. DEFINE Step == /\ \A w \in Users : Sends(w) => backoff = 0
                    /\ level' > level => backoff = 0
<1>1. RateInit => SlotInv
  BY RateStarts
<1>2. SlotInv /\ [RateNext]_rateVars => SlotInv'
  BY RateSteps
<1>3. SlotInv /\ [RateNext]_rateVars => [Step]_rateVars
  BY RateSteps
<1>4. RateSpec => [][Step]_rateVars
  BY <1>1, <1>2, <1>3, PTL DEF RateSpec
<1>. QED BY <1>4 DEF BackoffIsWaitedOut

\* A quote sent without quota has a free slot of its own, whoever else the gate lets
\* through: the sleep before the lock ends with a slot, and a send in between is seen.
THEOREM FreeSlotForQuotes == RateSpec => FreeSlotIsFree
<1>. DEFINE Step == \A w \in Users :
                       Sends(w) /\ user[w].free /\ ~user[w].stale => since >= FreeGap
<1>1. SlotInv /\ [RateNext]_rateVars => SlotInv' /\ [Step]_rateVars
  BY RateSteps
<1>2. RateSpec => [][Step]_rateVars
  BY <1>1, RateStarts, PTL DEF RateSpec
<1>. QED BY <1>2 DEF FreeSlotIsFree

-----------------------------------------------------------------------------
(* RateLimiter: the window is overdrawn only by a writer that could not know. *)

\* Ages in the window, the oldest first.
Aged(s) ==
    /\ s \in Seq(0..Window)
    /\ \A i, j \in 1..Len(s) : i <= j => s[j] <= s[i]

Past == {"quota", "gate", "lock", "sign"}

\* Who looked at the window, and nobody sent since: while it sleeps, every op that is
\* in the way of its batch is out of the window by the time it wakes; when it woke,
\* its batch fits.
Looked(w) ==
    /\ user[w].at \notin {"off", "sent"} => user[w].ops \in 1..MaxBatch
    /\ ~user[w].stale =>
        /\ user[w].at = "floor" =>
            /\ user[w].wait \in Nat
            /\ \A j \in 1..(Len(ages) + user[w].ops - Budget) :
                 ages[j] + user[w].wait > Window
        /\ user[w].at \in Past => Len(ages) + user[w].ops <= Budget

WindowInv ==
    /\ Aged(ages) /\ WindowHolds
    /\ user["recovery"].at \in {"off", "gate", "lock", "sent"}
    /\ \A w \in Writers : Looked(w)

\* The numbers of the window.
LEMMA WindowNumbers ==
    Window \in Nat /\ Budget \in Nat /\ MaxBatch \in Nat /\ MaxBatch <= Budget
BY RateAssumption

\* What is in a window.
LEMMA AgesInWindow ==
    ASSUME NEW s, Aged(s)
    PROVE  /\ Len(s) \in Nat /\ DOMAIN s = 1..Len(s)
           /\ \A i \in 1..Len(s) : s[i] \in 0..Window
<1>1. s \in Seq(0..Window)
  BY DEF Aged
<1>2. Len(s) \in Nat /\ s \in [1..Len(s) -> 0..Window] /\ DOMAIN s = 1..Len(s)
  BY <1>1, LenProperties
<1>. QED BY <1>2

\* What is left when time has passed are the youngest ops, each older by one.
LEMMA PrunedIs ==
    ASSUME NEW s, Aged(s), NEW t, t = Pruned([i \in DOMAIN s |-> s[i] + 1])
    PROVE  /\ Aged(t)
           /\ \E d \in 0..Len(s) :
                Len(t) = Len(s) - d /\ \A i \in 1..Len(t) : t[i] = s[i + d] + 1
<1>. DEFINE older == [i \in DOMAIN s |-> s[i] + 1]
            N == Len(s)
            kept == {i \in 1..(N + 1) : i > N \/ older[i] <= Window}
            m == Min(kept)
<1>0. Window \in Nat
  BY WindowNumbers
<1>1. /\ N \in Nat /\ DOMAIN s = 1..N /\ \A i \in 1..N : s[i] \in 0..Window
  BY AgesInWindow
<1>2. /\ older = [i \in 1..N |-> older[i]] /\ \A i \in 1..N : older[i] = s[i] + 1
  BY <1>1
<1>3. older \in Seq(Nat) /\ Len(older) = N
  <2>1. \A i \in 1..N : older[i] \in Nat
    BY <1>0, <1>1, <1>2
  <2>2. older \in [1..N -> Nat]
    BY <1>2, <2>1
  <2>. HIDE DEF older, N
  <2>. QED BY <1>1, <2>2, SeqOfLength
<1>4. t = SubSeq(older, m, N)
  BY <1>3 DEF Pruned
<1>5. m \in kept /\ \A k \in kept : m <= k
  <2>1. kept \subseteq Nat /\ N + 1 \in kept
    BY <1>1
  <2>2. \E x \in kept : \A k \in kept : x <= k
    <3>. HIDE DEF kept
    <3>. QED BY <2>1, LeastOf
  <2>. QED BY <2>2 DEF Min
<1>6. m \in 1..(N + 1) /\ \A i \in m..N : older[i] \in 0..Window
  <2>1. m \in 1..(N + 1) /\ (m > N \/ older[m] <= Window)
    BY <1>5
  <2>. SUFFICES ASSUME NEW i \in m..N PROVE older[i] \in 0..Window
    BY <2>1
  <2>2. m \in 1..N /\ i \in 1..N /\ m <= i /\ older[m] <= Window
    BY <1>1, <2>1
  <2>3. s[i] <= s[m]
    BY <2>2 DEF Aged
  <2>. HIDE DEF m, older
  <2>. QED BY <1>0, <1>1, <1>2, <2>2, <2>3
<1>. HIDE DEF m, older, kept, N
<1>7. /\ t \in Seq(0..Window)
      /\ Len(t) = N - (m - 1)
      /\ \A i \in 1..Len(t) : t[i] = older[m + i - 1]
  <2>1. m \in Int /\ N \in Int
    BY <1>1, <1>6
  <2>2. \A i \in m..N : older[i] \in 0..Window
    BY <1>6
  <2>3. /\ SubSeq(older, m, N) \in Seq(0..Window)
        /\ Len(SubSeq(older, m, N)) = IF m <= N THEN N - m + 1 ELSE 0
        /\ \A i \in 1..(N - m + 1) : SubSeq(older, m, N)[i] = older[m + i - 1]
    BY <2>1, <2>2, SubSeqProperties
  <2>4. /\ t \in Seq(0..Window)
        /\ Len(t) = IF m <= N THEN N - m + 1 ELSE 0
        /\ \A i \in 1..(N - m + 1) : t[i] = older[m + i - 1]
    BY <1>4, <2>3
  <2>5. m \in 1..(N + 1)
    BY <1>6
  <2>6. Len(t) = N - (m - 1) /\ Len(t) = N - m + 1
    <3>1. CASE m <= N
      <4>1. Len(t) = N - m + 1
        BY <2>4, <3>1
      <4>. QED BY <2>1, <4>1
    <3>2. CASE ~(m <= N)
      <4>1. Len(t) = 0
        BY <2>4, <3>2
      <4>2. m = N + 1
        BY <2>1, <2>5, <3>2
      <4>. QED BY <2>1, <4>1, <4>2
    <3>. QED BY <3>1, <3>2
  <2>. QED BY <2>4, <2>6
<1>8. \A i \in 1..Len(t) : i + (m - 1) \in 1..N /\ t[i] = s[i + (m - 1)] + 1
  <2>. TAKE i \in 1..Len(t)
  <2>1. i + (m - 1) \in 1..N /\ m + i - 1 = i + (m - 1)
    BY <1>1, <1>6, <1>7
  <2>. QED BY <1>2, <1>7, <2>1
<1>9. \A i, j \in 1..Len(t) : i <= j => t[j] <= t[i]
  <2>. SUFFICES ASSUME NEW i \in 1..Len(t), NEW j \in 1..Len(t), i <= j
                PROVE  t[j] <= t[i]
    OBVIOUS
  <2>1. /\ i + (m - 1) \in 1..N /\ j + (m - 1) \in 1..N /\ i + (m - 1) <= j + (m - 1)
        /\ t[i] = s[i + (m - 1)] + 1 /\ t[j] = s[j + (m - 1)] + 1
    BY <1>6, <1>7, <1>8
  <2>2. s[j + (m - 1)] <= s[i + (m - 1)]
    BY <2>1 DEF Aged, N
  <2>. QED BY <1>1, <2>1, <2>2
<1>10. m - 1 \in 0..N
  BY <1>1, <1>6
<1>. QED BY <1>7, <1>8, <1>9, <1>10 DEF Aged, N

\* What is sent now comes last.
LEMMA SentIsYoungest ==
    ASSUME NEW s, Aged(s), NEW n \in Nat, NEW t, t = s \o [i \in 1..n |-> 0]
    PROVE  Aged(t) /\ Len(t) = Len(s) + n
<1>. DEFINE z == [i \in 1..n |-> 0]
<1>0. 0 \in 0..Window
  BY WindowNumbers
<1>1. z \in Seq(0..Window) /\ Len(z) = n
  <2>1. z \in [1..n -> 0..Window]
    BY <1>0
  <2>. HIDE DEF z
  <2>. QED BY <2>1, SeqOfLength
<1>2. \A i \in 1..n : z[i] = 0
  OBVIOUS
<1>. HIDE DEF z
<1>3. s \in Seq(0..Window) /\ t = s \o z
  BY DEF Aged, z
<1>4. /\ t \in Seq(0..Window) /\ Len(t) = Len(s) + n
      /\ \A i \in 1..(Len(s) + n) : t[i] = IF i <= Len(s) THEN s[i] ELSE z[i - Len(s)]
  <2>1. /\ s \o z \in Seq(0..Window) /\ Len(s \o z) = Len(s) + Len(z)
        /\ \A i \in 1..(Len(s) + Len(z)) :
             (s \o z)[i] = IF i <= Len(s) THEN s[i] ELSE z[i - Len(s)]
    BY <1>1, <1>3, ConcatProperties
  <2>. QED BY <1>1, <1>3, <2>1
<1>5. Len(s) \in Nat /\ \A i \in 1..Len(s) : s[i] \in 0..Window
  BY AgesInWindow
<1>6. \A i \in 1..(Len(s) + n) : IF i <= Len(s) THEN i \in 1..Len(s) /\ t[i] = s[i]
                                 ELSE t[i] = 0
  BY <1>2, <1>4, <1>5
<1>7. \A i, j \in 1..(Len(s) + n) : i <= j => t[j] <= t[i]
  BY <1>5, <1>6 DEF Aged
<1>. QED BY <1>4, <1>7 DEF Aged

-----------------------------------------------------------------------------

\* The sleep of one look at the window is long enough for the batch, and there is one
\* unless the batch fits.
LEMMA SleepFrees ==
    ASSUME Aged(ages), NEW n \in 1..MaxBatch
    PROVE  /\ TimeUntilFree(n) \in Int
           /\ TimeUntilFree(n) > 0 \/ Len(ages) + n <= Budget
           /\ \A j \in 1..(Len(ages) + n - Budget) : ages[j] + TimeUntilFree(n) > Window
<1>. DEFINE N == Len(ages)
<1>1. /\ N \in Nat /\ \A i \in 1..N : ages[i] \in 0..Window
  BY AgesInWindow
<1>2. \A i, j \in 1..N : i <= j => ages[j] <= ages[i]
  BY DEF Aged
<1>. HIDE DEF N
<1>3. CASE N + n <= Budget
  <2>1. TimeUntilFree(n) = 0
    BY <1>3 DEF TimeUntilFree, N
  <2>2. 1..(N + n - Budget) = {}
    BY <1>1, <1>3, WindowNumbers
  <2>. QED BY <1>3, <2>1, <2>2 DEF N
<1>4. CASE ~(N + n <= Budget)
  <2>. DEFINE k == Clip(N + n - Budget + 1, N)
  <2>1. TimeUntilFree(n) = Window - ages[k] + 1
    BY <1>4 DEF TimeUntilFree, N
  <2>2. k \in 1..N /\ N + n - Budget <= k
    BY <1>1, <1>4, WindowNumbers DEF Clip
  <2>. HIDE DEF k
  <2>3. ages[k] \in 0..Window
    BY <1>1, <2>2
  <2>4. TimeUntilFree(n) \in Int /\ TimeUntilFree(n) > 0
    BY <2>1, <2>3, WindowNumbers
  <2>5. ASSUME NEW j \in 1..(N + n - Budget) PROVE ages[j] + TimeUntilFree(n) > Window
    <3>1. j \in 1..N /\ j <= k
      BY <1>1, <2>2, WindowNumbers
    <3>2. ages[k] <= ages[j] /\ ages[j] \in 0..Window
      BY <1>1, <1>2, <2>2, <3>1
    <3>. QED BY <2>1, <2>3, <3>2, WindowNumbers
  <2>. QED BY <2>4, <2>5 DEF N
<1>. QED BY <1>3, <1>4

\* Whoever runs on through the gate has looked at the window, or did so before.
LEMMA RunsOnLooked ==
    ASSUME RateTypes, Aged(ages), NEW w \in Writers, NEW p \in 1..3, NEW n \in 1..MaxBatch,
           RunOn(w, p, n), ages' = ages,
           p # 1 /\ ~user[w].stale => Len(ages) + n <= Budget
    PROVE  OneMoves(w) /\ Looked(w)'
<1>. DEFINE stops == {q \in p..3 : Waits(w, n)[Phases[q]] > 0}
            q == Min(stops)
            free == ~CancelOnly(w) /\ Free(quota)
            seen == IF p = 1 THEN FALSE ELSE user[w].stale
            fits == Len(ages) + n <= Budget
<1>. w \in Users
  BY DEF Writers, Users
<1>1. Waits(w, n)[Phases[1]] = TimeUntilFree(n)
  BY DEF Waits, Phases
<1>2. 1 \notin stops /\ ~seen => fits
  <2>1. CASE p = 1
    BY <1>1, <2>1, SleepFrees
  <2>2. CASE p # 1
    BY <2>2
  <2>. QED BY <2>1, <2>2
<1>3. CASE stops = {}
  <2>. DEFINE r == [at |-> "lock", wait |-> 0, ops |-> n, free |-> free, stale |-> seen]
  <2>1. user' = [user EXCEPT ![w] = r]
    BY <1>3 DEF RunOn
  <2>2. ~seen => fits
    BY <1>2, <1>3
  <2>. HIDE DEF free, seen, fits
  <2>3. Whole(r) /\ r.at = "lock" /\ r.ops = n /\ r.stale = seen
    BY DEF Whole
  <2>. HIDE DEF r
  <2>4. OneMoves(w) /\ user'[w] = r
    BY <2>1, <2>3, Replaced
  <2>5. ~user'[w].stale => Len(ages) + n <= Budget
    BY <2>2, <2>3, <2>4, Zenon DEF fits
  <2>. QED BY <2>3, <2>4, <2>5 DEF Looked
<1>4. CASE stops # {}
  <2>. DEFINE r == [at |-> IF q = 3 THEN "gate" ELSE Phases[q + 1],
                    wait |-> Waits(w, n)[Phases[q]], ops |-> n,
                    free |-> free, stale |-> seen]
  <2>1. user' = [user EXCEPT ![w] = r]
    BY <1>4 DEF RunOn
  <2>2. q \in stops /\ \A y \in stops : q <= y
    <3>1. stops \subseteq Nat
      OBVIOUS
    <3>2. \E x \in stops : \A y \in stops : x <= y
      <4>. HIDE DEF stops
      <4>. QED BY <1>4, <3>1, LeastOf
    <3>. QED BY <3>2 DEF Min
  <2>3. q \in {1, 2, 3} /\ (q # 1 => 1 \notin stops) /\ Waits(w, n)[Phases[q]] > 0
    BY <2>2
  <2>4. Phases[2] = "floor" /\ Phases[3] = "quota"
    BY DEF Phases
  <2>5. q # 1 /\ ~seen => fits
    BY <1>2, <2>3
  <2>6. q = 1 => Waits(w, n)[Phases[q]] = TimeUntilFree(n)
    BY <1>1
  <2>. HIDE DEF free, q, seen, stops, fits
  <2>7. /\ Whole(r) /\ r.wait = Waits(w, n)[Phases[q]] /\ r.ops = n /\ r.stale = seen
        /\ r.at = IF q = 3 THEN "gate" ELSE Phases[q + 1]
    BY DEF Whole
  <2>. HIDE DEF r
  <2>8. OneMoves(w) /\ user'[w] = r
    BY <2>1, <2>7, Replaced
  <2>9. r.at \in {"floor", "quota", "gate"} /\ (r.at = "floor" => q = 1)
    BY <2>3, <2>4, <2>7
  <2>10. r.at = "floor" => /\ r.wait \in Nat
                           /\ \A j \in 1..(Len(ages) + n - Budget) : ages[j] + r.wait > Window
    <3>. SUFFICES ASSUME q = 1
                  PROVE  /\ r.wait \in Nat
                         /\ \A j \in 1..(Len(ages) + n - Budget) : ages[j] + r.wait > Window
      BY <2>9
    <3>1. r.wait = TimeUntilFree(n) /\ r.wait > 0
      BY <2>3, <2>6, <2>7
    <3>. QED BY <3>1, SleepFrees
  <2>11. r.at \in Past /\ ~r.stale => Len(ages) + n <= Budget
    <3>. SUFFICES ASSUME r.at \in Past, ~r.stale PROVE fits
      BY DEF fits
    <3>1. q # 1
      BY <2>4, <2>7 DEF Past
    <3>2. ~seen
      BY <2>7, Zenon
    <3>. QED BY <2>5, <3>1, <3>2
  <2>. QED BY <2>7, <2>8, <2>10, <2>11 DEF Looked
<1>. QED BY <1>3, <1>4

\* One user moves on, and nothing is sent.
LEMMA OneLooks ==
    ASSUME WindowInv, NEW w \in Users, OneMoves(w), ages' = ages, over' = over,
           w \in Writers => Looked(w)',
           w = "recovery" => user'["recovery"].at \in {"off", "gate", "lock", "sent"}
    PROVE  WindowInv'
<1>1. \A v \in Users : v # w => user'[v] = user[v]
  BY DEF OneMoves
<1>2. user'["recovery"].at \in {"off", "gate", "lock", "sent"}
  BY <1>1 DEF WindowInv, Users
<1>3. \A v \in Writers : Looked(v)'
  <2>. TAKE v \in Writers
  <2>1. CASE v = w
    BY <2>1
  <2>2. CASE v # w
    <3>1. user'[v] = user[v]
      BY <1>1, <2>2 DEF Users, Writers
    <3>2. Looked(v)
      BY DEF WindowInv
    <3>. QED BY <3>1, <3>2 DEF Looked
  <2>. QED BY <2>1, <2>2
<1>4. Aged(ages)' /\ WindowHolds'
  BY DEF WindowInv, WindowHolds
<1>. QED BY <1>2, <1>3, <1>4 DEF WindowInv

\* Ops are sent: who waits has looked too early, who sends or is off does not wait.
LEMMA AllStale ==
    ASSUME RateTypes, WindowInv, NEW w \in Users,
           user' = [v \in Users |->
               IF v = w THEN [Off EXCEPT !.at = "sent"]
               ELSE [user[v] EXCEPT !.stale = user[v].at # "off"]],
           Aged(ages)', WindowHolds'
    PROVE  WindowInv'
<1>1. \A v \in Users \ {w} : /\ user'[v].at = user[v].at /\ user'[v].ops = user[v].ops
                             /\ user'[v].stale = (user[v].at # "off")
  BY DEF RateTypes, Whole
<1>2. user'[w].at = "sent"
  BY DEF Off
<1>3. user'["recovery"].at \in {"off", "gate", "lock", "sent"}
  BY <1>1, <1>2 DEF WindowInv, Users
<1>4. \A v \in Writers : Looked(v)'
  <2>. TAKE v \in Writers
  <2>1. v \in Users
    BY DEF Writers, Users
  <2>2. CASE v = w
    BY <1>2, <2>2 DEF Looked, Past
  <2>3. CASE v # w
    <3>1. Looked(v)
      BY DEF WindowInv
    <3>2. /\ user'[v].at = user[v].at /\ user'[v].ops = user[v].ops
          /\ user'[v].stale = (user[v].at # "off")
      BY <1>1, <2>1, <2>3
    <3>3. CASE user[v].at = "off"
      BY <3>2, <3>3 DEF Looked, Past
    <3>4. CASE user[v].at # "off"
      <4>1. user'[v].stale = TRUE
        BY <3>2, <3>4
      <4>. QED BY <3>1, <3>2, <4>1 DEF Looked
    <3>. QED BY <3>3, <3>4
  <2>. QED BY <2>2, <2>3
<1>. QED BY <1>3, <1>4 DEF WindowInv

-----------------------------------------------------------------------------

\* Nothing was sent at the start.
LEMMA WindowStarts == RateInit => WindowInv
<1>. SUFFICES ASSUME RateInit PROVE WindowInv
  OBVIOUS
<1>1. \A w \in Users : user[w] = Off
  BY DEF RateInit
<1>2. ages = <<>> /\ <<>> \in Seq(0..Window) /\ Len(<<>>) = 0
  BY EmptySeq DEF RateInit
<1>3. Aged(ages) /\ WindowHolds
  BY <1>2, WindowNumbers DEF Aged, WindowHolds
<1>4. \A w \in Writers : Looked(w)
  BY <1>1 DEF Looked, Off, Writers, Users, Past
<1>. QED BY <1>1, <1>3, <1>4 DEF WindowInv, Off, Users

\* A writer looks at the window, or sleeps through what is left of a backoff first.
LEMMA EnterLooks ==
    ASSUME RateTypes, WindowInv, NEW w \in Users, NEW n \in 1..MaxBatch, Enter(w, n)
    PROVE  WindowInv'
<1>1. w \in Writers /\ ages' = ages /\ over' = over
  BY DEF Enter, GateRest, sends, Users, Writers
<1>2. OneMoves(w) /\ Looked(w)'
  <2>1. CASE backoff > 0
    <3>. DEFINE r == [Off EXCEPT !.at = "window", !.wait = backoff, !.ops = n]
    <3>1. user' = [user EXCEPT ![w] = r]
      BY <2>1 DEF Enter
    <3>2. Whole(r) /\ r.at = "window" /\ r.ops = n
      BY DEF Whole, Off
    <3>. HIDE DEF r
    <3>3. OneMoves(w) /\ user'[w] = r
      BY <3>1, <3>2, Replaced
    <3>. QED BY <3>2, <3>3 DEF Looked, Past
  <2>2. CASE ~(backoff > 0)
    <3>1. RunOn(w, 1, n) /\ 1 \in 1..3 /\ Aged(ages)
      BY <2>2 DEF Enter, WindowInv
    <3>. QED BY <1>1, <3>1, RunsOnLooked
  <2>. QED BY <2>1, <2>2
<1>. QED BY <1>1, <1>2, OneLooks DEF Writers

\* A user who slept runs on: when the sleep for the window is over, the batch fits.
LEMMA WakeLooks ==
    ASSUME RateTypes, WindowInv, NEW w \in Users, Wake(w)
    PROVE  WindowInv'
<1>1. user[w].wait = 0 /\ ages' = ages /\ over' = over
  BY DEF Wake, GateRest, sends
<1>2. ASSUME NEW p \in 1..3, user[w].at = Phases[p], RunOn(w, p, user[w].ops)
      PROVE  WindowInv'
  <2>1. w \in Writers
    BY <1>2 DEF WindowInv, Phases, Users, Writers
  <2>2. user[w].ops \in 1..MaxBatch /\ Aged(ages) /\ Looked(w)
    BY <1>2, <2>1 DEF WindowInv, Looked, Phases
  <2>3. p # 1 /\ ~user[w].stale => Len(ages) + user[w].ops <= Budget
    <3>. SUFFICES ASSUME p # 1, ~user[w].stale PROVE Len(ages) + user[w].ops <= Budget
      OBVIOUS
    <3>1. CASE p = 2
      <4>. DEFINE K == Len(ages) + user[w].ops - Budget
      <4>1. Len(ages) \in Nat /\ \A i \in 1..Len(ages) : ages[i] \in 0..Window
        BY <2>2, AgesInWindow
      <4>2. \A j \in 1..K : ages[j] + 0 > Window
        BY <1>1, <1>2, <2>2, <3>1 DEF Looked, Phases
      <4>3. K \in Int /\ K <= Len(ages)
        BY <2>2, <4>1, WindowNumbers
      <4>4. ASSUME K > 0 PROVE FALSE
        <5>1. 1 \in 1..K /\ 1 \in 1..Len(ages)
          BY <4>1, <4>3, <4>4
        <5>. QED BY <4>1, <4>2, <5>1, WindowNumbers
      <4>. QED BY <2>2, <4>1, <4>4, WindowNumbers
    <3>2. CASE p = 3
      BY <1>2, <2>2, <3>2 DEF Looked, Phases, Past
    <3>. QED BY <3>1, <3>2
  <2>4. OneMoves(w) /\ Looked(w)'
    BY <1>1, <1>2, <2>1, <2>2, <2>3, RunsOnLooked
  <2>. QED BY <1>1, <2>1, <2>4, OneLooks DEF Writers
<1>3. CASE user[w].at = "gate" /\ user' = [user EXCEPT ![w].at = "lock"]
  <2>. DEFINE r == [user[w] EXCEPT !.at = "lock"]
  <2>1. user' = [user EXCEPT ![w] = r]
    BY <1>3 DEF RateTypes
  <2>2. /\ Whole(r) /\ r.at = "lock" /\ r.ops = user[w].ops /\ r.stale = user[w].stale
    BY DEF Whole, RateTypes
  <2>. HIDE DEF r
  <2>3. OneMoves(w) /\ user'[w] = r
    BY <2>1, <2>2, Replaced
  <2>4. w \in Writers => Looked(w)'
    <3>. SUFFICES ASSUME w \in Writers PROVE Looked(w)'
      OBVIOUS
    <3>1. Looked(w)
      BY DEF WindowInv
    <3>. QED BY <1>1, <1>3, <2>2, <2>3, <3>1 DEF Looked, Past
  <2>5. user'[w].at = "lock"
    BY <2>2, <2>3
  <2>. QED BY <1>1, <2>3, <2>4, <2>5, OneLooks
<1>. QED BY <1>2, <1>3 DEF Wake

\* A batch that grew behind the gate counts as one that could not know.
LEMMA LockLooks ==
    ASSUME RateTypes, WindowInv, NEW w \in Users, NEW n \in 1..MaxBatch, Lock(w, n)
    PROVE  WindowInv'
<1>. DEFINE late == user[w].stale \/ (n > user[w].ops /\ quota # "zero")
            m == IF quota = "zero" THEN 1 ELSE n
            r == [user[w] EXCEPT !.at = "sign", !.ops = m, !.stale = late]
<1>1. w \in Writers /\ user[w].at = "lock" /\ ages' = ages /\ over' = over
  BY DEF Lock, GateRest, sends, Users, Writers
<1>2. CASE ~NoBackoffNow
  <2>1. user' = [user EXCEPT ![w] = Off]
    BY <1>2 DEF Lock
  <2>2. OneMoves(w) /\ user'[w] = Off
    BY <2>1, Replaced DEF Whole, Off
  <2>3. Looked(w)'
    BY <2>2 DEF Looked, Off, Past
  <2>. QED BY <1>1, <2>2, <2>3, OneLooks DEF Writers
<1>3. CASE NoBackoffNow
  <2>1. user' = [user EXCEPT ![w] = r]
    BY <1>3 DEF Lock
  <2>2. Looked(w)
    BY <1>1 DEF WindowInv
  <2>3. m \in 1..MaxBatch /\ (quota # "zero" => m = n) /\ (quota = "zero" => m = 1)
    BY WindowNumbers
  <2>4. ~late => ~user[w].stale /\ (quota # "zero" => ~(n > user[w].ops))
    OBVIOUS
  <2>. HIDE DEF late, m
  <2>5. Whole(r) /\ r.at = "sign" /\ r.ops = m /\ r.stale = late
    BY DEF Whole, RateTypes
  <2>. HIDE DEF r
  <2>6. OneMoves(w) /\ user'[w] = r
    BY <2>1, <2>5, Replaced
  <2>7. ASSUME ~user'[w].stale PROVE Len(ages) + m <= Budget
    <3>1. ~user[w].stale /\ (quota # "zero" => ~(n > user[w].ops))
      BY <2>4, <2>5, <2>6, <2>7, Zenon
    <3>2. Len(ages) + user[w].ops <= Budget /\ user[w].ops \in 1..MaxBatch
      BY <1>1, <2>2, <3>1 DEF Looked, Past
    <3>3. Len(ages) \in Nat
      BY DEF WindowInv, Aged
    <3>4. m <= user[w].ops
      BY <2>3, <3>1, <3>2, WindowNumbers
    <3>. QED BY <2>3, <3>2, <3>3, <3>4, WindowNumbers
  <2>8. Looked(w)'
    BY <1>1, <2>3, <2>5, <2>6, <2>7 DEF Looked
  <2>. QED BY <1>1, <2>6, <2>8, OneLooks DEF Writers
<1>. QED BY <1>2, <1>3

\* Who knows sends what fits.
LEMMA SendFits ==
    ASSUME RateTypes, WindowInv, NEW w \in Users, Send(w)
    PROVE  WindowInv'
<1>. DEFINE n == user[w].ops
<1>1. w \in Writers /\ user[w].at = "sign"
  BY DEF Send, WindowInv, Users, Writers
<1>2. Looked(w) /\ Aged(ages) /\ WindowHolds
  BY <1>1 DEF WindowInv
<1>3. n \in 1..MaxBatch /\ n \in Nat
  BY <1>1, <1>2, WindowNumbers DEF Looked
<1>4. ages' = ages \o [i \in 1..n |-> 0]
  BY DEF Send, Record
<1>5. Aged(ages)' /\ Len(ages') = Len(ages) + n
  BY <1>2, <1>3, <1>4, SentIsYoungest DEF Aged
<1>6. over' = (over \/ (Len(ages') > Budget /\ user[w].stale))
  BY DEF Send, Record
<1>7. WindowHolds'
  <2>1. Len(ages') \in Nat
    BY <1>5 DEF Aged
  <2>2. CASE user[w].stale
    <3>1. CASE Len(ages') > Budget
      BY <1>6, <2>2, <3>1 DEF WindowHolds
    <3>2. CASE ~(Len(ages') > Budget)
      BY <2>1, <3>2, WindowNumbers DEF WindowHolds
    <3>. QED BY <3>1, <3>2
  <2>3. CASE ~user[w].stale
    BY <1>1, <1>2, <1>5, <2>3 DEF Looked, Past, WindowHolds
  <2>. QED BY <2>2, <2>3
<1>8. user' = [v \in Users |-> IF v = w THEN [Off EXCEPT !.at = "sent"]
                               ELSE [user[v] EXCEPT !.stale = user[v].at # "off"]]
  BY DEF Send, Record
<1>. QED BY <1>5, <1>7, <1>8, AllStale

\* The recovery does not ask, and what it sends is counted.
LEMMA RecoverySendCounts ==
    ASSUME RateTypes, WindowInv, RecoverySend
    PROVE  WindowInv'
<1>1. ages' = Append(ages, 0) /\ Aged(ages) /\ "recovery" \in Users
  BY DEF RecoverySend, WindowInv, Users
<1>2. Append(ages, 0) = ages \o [i \in 1..1 |-> 0]
  BY <1>1 DEF Aged
<1>3. Aged(ages)' /\ Len(ages') = Len(ages) + 1
  BY <1>1, <1>2, SentIsYoungest DEF Aged
<1>4. WindowHolds'
  <2>1. Len(ages') \in Nat
    BY <1>3 DEF Aged
  <2>2. over' = (over \/ Len(ages') > Budget)
    BY DEF RecoverySend
  <2>3. CASE Len(ages') > Budget
    BY <2>2, <2>3 DEF WindowHolds
  <2>4. CASE ~(Len(ages') > Budget)
    BY <2>1, <2>4, WindowNumbers DEF WindowHolds
  <2>. QED BY <2>3, <2>4
<1>5. user' = [v \in Users |-> IF v = "recovery" THEN [Off EXCEPT !.at = "sent"]
                               ELSE [user[v] EXCEPT !.stale = user[v].at # "off"]]
  BY DEF RecoverySend
<1>. QED BY <1>1, <1>3, <1>4, <1>5, AllStale

\* Answers, and the steps of the recovery that send nothing, leave the window alone.
LEMMA OthersLook ==
    ASSUME RateTypes, WindowInv,
           \/ \E w \in Users : Answers(w)
           \/ RecoveryStart \/ RecoveryAnswers \/ RecoveryGivesUp
    PROVE  WindowInv'
<1>1. ASSUME NEW w \in Users, Answers(w) PROVE WindowInv'
  <2>1. PICK code \in {"ok", "429", "nonce", "quota", "rejected"} : Answer(w, code)
    BY <1>1 DEF Answers
  <2>2. w \in Writers /\ ages' = ages /\ over' = over /\ user' = [user EXCEPT ![w] = Off]
    BY <2>1 DEF Answer, sends, Users, Writers
  <2>3. OneMoves(w) /\ user'[w] = Off
    BY <2>2, Replaced DEF Whole, Off
  <2>4. Looked(w)'
    BY <2>3 DEF Looked, Off, Past
  <2>. QED BY <2>2, <2>3, <2>4, OneLooks DEF Writers
<1>2. CASE RecoveryStart \/ RecoveryAnswers \/ RecoveryGivesUp
  <2>1. "recovery" \in Users \ Writers /\ ages' = ages /\ over' = over
    BY <1>2 DEF Users, Writers, RecoveryStart, RecoveryAnswers, RecoveryAnswer,
                RecoveryGivesUp, sends
  <2>2. ASSUME user' = [user EXCEPT !["recovery"] = Off]
        PROVE  OneMoves("recovery") /\ user'["recovery"].at = "off"
    <3>1. OneMoves("recovery") /\ user'["recovery"] = Off
      BY <2>1, <2>2, Replaced DEF Whole, Off
    <3>. QED BY <3>1 DEF Off
  <2>3. ASSUME NEW k, NextAttempt(k)
        PROVE  OneMoves("recovery") /\ user'["recovery"].at = "gate"
    <3>. DEFINE r == [at |-> "gate", wait |-> Above(FreeGap - since), ops |-> 1,
                      free |-> TRUE, stale |-> FALSE]
    <3>1. user' = [user EXCEPT !["recovery"] = r]
      BY <2>3 DEF NextAttempt
    <3>2. Whole(r) /\ r.at = "gate"
      BY DEF Whole
    <3>. HIDE DEF r
    <3>. QED BY <2>1, <3>1, <3>2, Replaced
  <2>4. OneMoves("recovery") /\ user'["recovery"].at \in {"off", "gate"}
    BY <1>2, <2>2, <2>3 DEF RecoveryStart, RecoveryAnswers, RecoveryAnswer, RecoveryGivesUp
  <2>. QED BY <2>1, <2>4, OneLooks
<1>. QED BY <1>1, <1>2

\* The sleep of a writer gets shorter as the ops it waits for get older.
LEMMA TickLooks ==
    ASSUME RateTypes, WindowInv, Tick
    PROVE  WindowInv'
<1>1. /\ user' = [w \in Users |-> [user[w] EXCEPT !.wait = Above(user[w].wait - 1)]]
      /\ ages' = Pruned([i \in DOMAIN ages |-> ages[i] + 1])
      /\ over' = (over /\ Len(ages') > Budget)
  BY DEF Tick
<1>2. \A v \in Users :
          /\ user'[v].at = user[v].at /\ user'[v].ops = user[v].ops
          /\ user'[v].stale = user[v].stale /\ user'[v].wait = Above(user[v].wait - 1)
  BY <1>1 DEF RateTypes, Whole
<1>3. Aged(ages) /\ WindowHolds
  BY DEF WindowInv
<1>4. Aged(ages') /\ \E d \in 0..Len(ages) :
          Len(ages') = Len(ages) - d /\ \A i \in 1..Len(ages') : ages'[i] = ages[i + d] + 1
  BY <1>1, <1>3, PrunedIs
<1>5. PICK d \in 0..Len(ages) :
          Len(ages') = Len(ages) - d /\ \A i \in 1..Len(ages') : ages'[i] = ages[i + d] + 1
  BY <1>4
<1>6. Len(ages) \in Nat /\ d \in Nat /\ \A i \in 1..Len(ages) : ages[i] \in 0..Window
  BY <1>3, AgesInWindow
<1>7. WindowHolds'
  <2>1. CASE over
    <3>1. CASE Len(ages') > Budget
      BY <1>1, <2>1, <3>1 DEF WindowHolds
    <3>2. CASE ~(Len(ages') > Budget)
      BY <1>5, <1>6, <3>2, WindowNumbers DEF WindowHolds
    <3>. QED BY <3>1, <3>2
  <2>2. CASE ~over
    BY <1>3, <1>5, <1>6, <2>2, WindowNumbers DEF WindowHolds
  <2>. QED BY <2>1, <2>2
<1>8. user'["recovery"].at \in {"off", "gate", "lock", "sent"}
  BY <1>2 DEF WindowInv, Users
<1>9. \A w \in Writers : Looked(w)'
  <2>. TAKE w \in Writers
  <2>1. w \in Users /\ Looked(w)
    BY DEF WindowInv, Users, Writers
  <2>2. user'[w].at \notin {"off", "sent"} => user'[w].ops \in 1..MaxBatch
    BY <1>2, <2>1 DEF Looked
  <2>3. ASSUME ~user'[w].stale, user'[w].at = "floor"
        PROVE  /\ user'[w].wait \in Nat
               /\ \A j \in 1..(Len(ages') + user'[w].ops - Budget) :
                    ages'[j] + user'[w].wait > Window
    <3>. DEFINE x == user[w].wait
                n == user[w].ops
    <3>1. /\ n \in 1..MaxBatch /\ x \in Nat
          /\ \A j \in 1..(Len(ages) + n - Budget) : ages[j] + x > Window
      BY <1>2, <2>1, <2>3 DEF Looked
    <3>2. user'[w].wait = Above(x - 1) /\ user'[w].ops = n
      BY <1>2, <2>1
    <3>. HIDE DEF x, n
    <3>3. Above(x - 1) \in Nat /\ Above(x - 1) >= x - 1
      BY <3>1 DEF Above
    <3>4. ASSUME NEW j \in 1..(Len(ages') + n - Budget)
          PROVE  ages'[j] + Above(x - 1) > Window
      <4>1. j \in 1..Len(ages') /\ j + d \in 1..(Len(ages) + n - Budget) /\ j + d \in 1..Len(ages)
        BY <1>5, <1>6, <3>1, WindowNumbers
      <4>2. ages[j + d] + x > Window /\ ages[j + d] \in 0..Window /\ ages'[j] = ages[j + d] + 1
        BY <1>5, <1>6, <3>1, <4>1
      <4>. QED BY <3>1, <3>3, <4>2, WindowNumbers
    <3>. QED BY <3>2, <3>3, <3>4
  <2>4. ASSUME ~user'[w].stale, user'[w].at \in Past
        PROVE  Len(ages') + user'[w].ops <= Budget
    <3>1. Len(ages) + user[w].ops <= Budget /\ user[w].ops \in 1..MaxBatch
      BY <1>2, <2>1, <2>4 DEF Looked, Past
    <3>2. user'[w].ops = user[w].ops
      BY <1>2, <2>1
    <3>. QED BY <1>5, <1>6, <3>1, <3>2, WindowNumbers
  <2>. QED BY <2>2, <2>3, <2>4 DEF Looked
<1>. QED BY <1>4, <1>7, <1>8, <1>9 DEF WindowInv

\* Every step keeps the window's invariant.
LEMMA WindowSteps ==
    ASSUME RateTypes, WindowInv, [RateNext]_rateVars
    PROVE  WindowInv'
<1>1. ASSUME NEW w \in Users, Locks(w) PROVE WindowInv'
  <2>1. PICK n \in 1..MaxBatch : Lock(w, n)
    BY <1>1 DEF Locks
  <2>. QED BY <2>1, LockLooks
<1>2. CASE Cooldown \/ UNCHANGED rateVars
  BY <1>2 DEF Cooldown, sends, rateVars, WindowInv, Aged, WindowHolds, Looked
<1>. QED BY <1>1, <1>2, TickLooks, EnterLooks, WakeLooks, SendFits, OthersLook,
            RecoverySendCounts DEF RateNext

\* The window is overdrawn only by a writer let through before another one sent, by a
\* batch that grew behind the gate, or by a recovery: for a writer alone one look and
\* one sleep are enough, for any window, budget and pacing.
THEOREM WindowIsKept == RateSpec => []WindowHolds
<1>1. RateInit => SlotInv /\ WindowInv
  BY RateStarts, WindowStarts
<1>2. SlotInv /\ WindowInv /\ [RateNext]_rateVars => SlotInv' /\ WindowInv'
  BY RateSteps, WindowSteps DEF SlotInv, HolderInv
<1>3. WindowInv => WindowHolds
  BY DEF WindowInv
<1>. QED BY <1>1, <1>2, <1>3, PTL DEF RateSpec

-----------------------------------------------------------------------------
(* ExposureCap: what is owned and what rests stay within the cap together. *)

Sizes == [CapLevels -> Nat]
Ops == [act : {"create", "modify", "cancel"}, level : CapLevels, size : Nat]

\* Operations of one batch: one for a level at most, and a cancel leaves nothing.
Batch(ops) ==
    /\ ops \subseteq Ops
    /\ \A o, p \in ops : o.level = p.level => o = p
    /\ \A o \in ops : o.act = "cancel" => o.size = 0

CapTypes ==
    /\ open \in Sizes /\ tracked \in Sizes /\ owned \in Nat /\ inventory \in Nat
    /\ Batch(box)
    /\ out = [at |-> out.at, ops |-> out.ops, blind |-> out.blind] /\ Batch(out.ops)
    /\ surplus = [levels |-> surplus.levels, good |-> surplus.good]

\* What the operations add to what rests: a created order, and what a modify makes larger.
Growth(f, ops) ==
    [l \in CapLevels |->
        IF \E o \in ops : o.level = l
        THEN LET o == CHOOSE o \in ops : o.level = l
             IN  IF o.act = "create" THEN o.size
                 ELSE IF f[l] # 0 /\ o.size > f[l] THEN o.size - f[l] ELSE 0
        ELSE 0]

\* Operations that fit on sizes f with a position p: none adds anything, or all together
\* leave the exposure within the cap.
Fits(f, p, ops) ==
    Total(Growth(f, ops)) = 0 \/ p + Total(f) + Total(Growth(f, ops)) <= Cap

\* What is decided on a true view fits, and goes on doing so until it is executed.
Decided ==
    /\ box # {} /\ ~boxBlind => out = Idle /\ Fits(open, owned, box)
    /\ out.at = "sent" /\ ~out.blind => Fits(open, owned, out.ops)

\* What the poller leaves is within the cap.
Kept == [l \in CapLevels |-> IF l \in surplus.levels THEN 0 ELSE open[l]]
SurplusIsEnough == surplus.good => owned + Total(Kept) <= Cap

CapInv == CapTypes /\ ExposureWithinCap /\ Decided /\ SurplusIsEnough

\* The numbers of the cap.
LEMMA CapNumbers == CapTop \in Nat /\ Cap \in Nat /\ MaxOrder \in Nat /\ MaxPosition \in Nat
BY CapAssumption

\* What holds of level 0, and of a level when it holds of the one before, holds of all.
LEMMA LevelByLevel ==
    ASSUME NEW T, 0 \in T, \A k \in T : k + 1 \in CapLevels => k + 1 \in T
    PROVE  CapLevels \subseteq T
<1>. DEFINE bad == {k \in CapLevels : k \notin T}
<1>1. CASE bad = {}
  BY <1>1
<1>2. CASE bad # {}
  <2>1. bad \subseteq Nat
    BY CapNumbers DEF CapLevels
  <2>2. PICK k \in bad : \A j \in bad : k <= j
    BY <1>2, <2>1, LeastOf
  <2>3. k \in CapLevels /\ k \notin T /\ k # 0
    BY <2>2
  <2>4. k - 1 \in CapLevels /\ (k - 1) + 1 = k /\ k - 1 \notin bad
    BY <2>1, <2>2, <2>3, CapNumbers DEF CapLevels
  <2>. QED BY <2>3, <2>4
<1>. QED BY <1>1, <1>2

\* The function that SumTo chooses is there, so that it is what its definition says.
LEMMA SumSteps ==
    ASSUME NEW f
    PROVE  /\ SumTo(f, 0) = f[0]
           /\ \A k \in CapLevels : k # 0 => SumTo(f, k) = SumTo(f, k - 1) + f[k]
<1>. DEFINE Upto(h, n) == h = [k \in 0..n |-> IF k = 0 THEN f[0] ELSE h[k - 1] + f[k]]
            T == {n \in CapLevels : \E h : Upto(h, n)}
            R(h) == h = [k \in CapLevels |-> IF k = 0 THEN f[0] ELSE h[k - 1] + f[k]]
            S == CHOOSE h : R(h)
<1>1. 0 \in T
  <2>. DEFINE h == [k \in 0..0 |-> f[0]]
  <2>1. Upto(h, 0)
    OBVIOUS
  <2>2. 0 \in CapLevels
    BY CapNumbers DEF CapLevels
  <2>. QED BY <2>1, <2>2
<1>2. ASSUME NEW n \in T, n + 1 \in CapLevels PROVE n + 1 \in T
  <2>1. PICK h : Upto(h, n)
    OBVIOUS
  <2>2. n \in Nat
    BY CapNumbers DEF CapLevels
  <2>. DEFINE g == [k \in 0..(n + 1) |-> IF k = n + 1 THEN h[n] + f[n + 1] ELSE h[k]]
  <2>3. \A k \in 0..n : g[k] = h[k] /\ (k # 0 => g[k] = h[k - 1] + f[k]) /\ (k = 0 => g[k] = f[0])
    BY <2>1, <2>2
  <2>4. \A k \in 0..n : k # 0 => k - 1 \in 0..n
    BY <2>2
  <2>5. g[n + 1] = h[n] + f[n + 1] /\ n \in 0..n /\ n + 1 \in 0..(n + 1) /\ n + 1 # 0
    BY <2>2
  <2>6. \A k \in 0..(n + 1) : k = n + 1 \/ k \in 0..n
    BY <2>2
  <2>7. \A k \in 0..(n + 1) : g[k] = IF k = 0 THEN f[0] ELSE g[k - 1] + f[k]
    <3>. HIDE DEF g
    <3>1. ASSUME NEW k \in 0..n PROVE g[k] = IF k = 0 THEN f[0] ELSE g[k - 1] + f[k]
      BY <2>3, <2>4
    <3>2. g[n + 1] = g[(n + 1) - 1] + f[n + 1]
      BY <2>2, <2>3, <2>5
    <3>. QED BY <2>5, <2>6, <3>1, <3>2
  <2>8. g = [k \in 0..(n + 1) |-> g[k]]
    OBVIOUS
  <2>. HIDE DEF g
  <2>9. Upto(g, n + 1)
    BY <2>7, <2>8
  <2>. HIDE DEF Upto
  <2>. QED BY <1>2, <2>9
<1>3. CapTop \in T
  <2>1. CapLevels \subseteq T
    <3>. HIDE DEF T
    <3>. QED BY <1>1, <1>2, LevelByLevel
  <2>. QED BY <2>1, CapNumbers DEF CapLevels
<1>4. \E h : R(h)
  BY <1>3 DEF CapLevels
<1>5. R(S)
  <2>. HIDE DEF R
  <2>. QED BY <1>4
<1>6. \A k \in CapLevels : S[k] = IF k = 0 THEN f[0] ELSE S[k - 1] + f[k]
  <2>. HIDE DEF S
  <2>. QED BY <1>5
<1>7. \A l : SumTo(f, l) = S[l]
  BY DEF SumTo
<1>. HIDE DEF S
<1>8. 0 \in CapLevels
  BY CapNumbers DEF CapLevels
<1>. QED BY <1>6, <1>7, <1>8

\* Sums of sizes: they are sizes, add up, and follow a change of one level.
LEMMA SumsAdd ==
    ASSUME NEW f \in [CapLevels -> Int], NEW g \in [CapLevels -> Int],
           NEW h \in [CapLevels -> Int], \A l \in CapLevels : h[l] = f[l] + g[l]
    PROVE  \A l \in CapLevels : /\ SumTo(f, l) \in Int /\ SumTo(g, l) \in Int
                                /\ SumTo(h, l) = SumTo(f, l) + SumTo(g, l)
<1>. DEFINE T == {l \in CapLevels : /\ SumTo(f, l) \in Int /\ SumTo(g, l) \in Int
                                    /\ SumTo(h, l) = SumTo(f, l) + SumTo(g, l)}
<1>1. 0 \in T
  <2>1. 0 \in CapLevels
    BY CapNumbers DEF CapLevels
  <2>. QED BY <2>1, SumSteps
<1>2. ASSUME NEW k \in T, k + 1 \in CapLevels PROVE k + 1 \in T
  <2>1. k \in CapLevels /\ k + 1 # 0 /\ (k + 1) - 1 = k
    BY CapNumbers DEF CapLevels
  <2>2. SumTo(f, k + 1) = SumTo(f, k) + f[k + 1] /\ SumTo(g, k + 1) = SumTo(g, k) + g[k + 1]
        /\ SumTo(h, k + 1) = SumTo(h, k) + h[k + 1]
    <3>. DEFINE j == k + 1
    <3>1. j \in CapLevels /\ j # 0 /\ j - 1 = k
      BY <1>2, <2>1
    <3>. HIDE DEF j
    <3>2. SumTo(f, j) = SumTo(f, k) + f[j] /\ SumTo(g, j) = SumTo(g, k) + g[j]
          /\ SumTo(h, j) = SumTo(h, k) + h[j]
      BY <3>1, SumSteps
    <3>. QED BY <3>2 DEF j
  <2>3. f[k + 1] \in Int /\ g[k + 1] \in Int /\ h[k + 1] = f[k + 1] + g[k + 1]
    BY <1>2
  <2>. QED BY <1>2, <2>2, <2>3
<1>. HIDE DEF T
<1>3. CapLevels \subseteq T
  BY <1>1, <1>2, LevelByLevel
<1>. QED BY <1>3 DEF T

\* Sums of sizes are numbers.
LEMMA SumOfSizes ==
    ASSUME NEW f \in Sizes
    PROVE  \A l \in CapLevels : SumTo(f, l) \in Nat
<1>. DEFINE T == {l \in CapLevels : SumTo(f, l) \in Nat}
<1>1. 0 \in T
  <2>1. 0 \in CapLevels
    BY CapNumbers DEF CapLevels
  <2>. QED BY <2>1, SumSteps DEF Sizes
<1>2. ASSUME NEW k \in T, k + 1 \in CapLevels PROVE k + 1 \in T
  <2>. DEFINE j == k + 1
  <2>1. j \in CapLevels /\ j # 0 /\ j - 1 = k
    BY <1>2, CapNumbers DEF CapLevels
  <2>. HIDE DEF j
  <2>2. SumTo(f, j) = SumTo(f, k) + f[j] /\ f[j] \in Nat
    BY <2>1, SumSteps DEF Sizes
  <2>. QED BY <2>1, <2>2 DEF j
<1>. HIDE DEF T
<1>3. CapLevels \subseteq T
  BY <1>1, <1>2, LevelByLevel
<1>. QED BY <1>3 DEF T

\* Sizes that are nowhere larger do not sum up to more.
LEMMA SmallerSum ==
    ASSUME NEW f \in Sizes, NEW g \in Sizes, \A l \in CapLevels : f[l] <= g[l]
    PROVE  \A l \in CapLevels : SumTo(f, l) <= SumTo(g, l)
<1>. DEFINE d == [l \in CapLevels |-> g[l] - f[l]]
<1>1. f \in [CapLevels -> Int] /\ g \in [CapLevels -> Int]
  BY DEF Sizes
<1>2. d \in Sizes /\ \A l \in CapLevels : g[l] = f[l] + d[l]
  BY DEF Sizes
<1>3. d \in [CapLevels -> Int]
  BY <1>2 DEF Sizes
<1>. HIDE DEF d
<1>. QED BY <1>1, <1>2, <1>3, SumsAdd, SumOfSizes

\* Sizes of which one level alone has anything.
LEMMA SumOfOne ==
    ASSUME NEW f \in [CapLevels -> Int], NEW l \in CapLevels,
           \A k \in CapLevels : k # l => f[k] = 0
    PROVE  Total(f) = f[l]
<1>. DEFINE T == {k \in CapLevels : SumTo(f, k) = IF k < l THEN 0 ELSE f[l]}
<1>0. CapTop \in CapLevels /\ 0 \in CapLevels /\ l \in 0..CapTop
  BY CapNumbers DEF CapLevels
<1>1. 0 \in T
  <2>1. SumTo(f, 0) = f[0]
    BY SumSteps
  <2>. QED BY <1>0, <2>1
<1>2. ASSUME NEW k \in T, k + 1 \in CapLevels PROVE k + 1 \in T
  <2>. DEFINE j == k + 1
  <2>1. j \in CapLevels /\ j # 0 /\ j - 1 = k /\ k \in Nat
    BY <1>2, CapNumbers DEF CapLevels
  <2>2. (k < l <=> j < l \/ j = l) /\ (j < l => j # l)
    BY <1>0, <2>1
  <2>. HIDE DEF j
  <2>3. SumTo(f, j) = SumTo(f, k) + f[j] /\ f[j] \in Int /\ f[l] \in Int
    BY <2>1, SumSteps
  <2>. QED BY <2>1, <2>2, <2>3 DEF j
<1>. HIDE DEF T
<1>3. CapLevels \subseteq T
  BY <1>1, <1>2, LevelByLevel
<1>. QED BY <1>0, <1>3 DEF T, Total

\* The total when one level changes.
LEMMA TotalOfChange ==
    ASSUME NEW f \in Sizes, NEW g \in Sizes, NEW l \in CapLevels,
           \A k \in CapLevels : k # l => g[k] = f[k]
    PROVE  Total(g) = Total(f) + (g[l] - f[l]) /\ Total(f) \in Nat /\ Total(g) \in Nat
<1>. DEFINE d == [k \in CapLevels |-> g[k] - f[k]]
<1>1. f \in [CapLevels -> Int] /\ g \in [CapLevels -> Int] /\ d \in [CapLevels -> Int]
  BY DEF Sizes
<1>2. \A k \in CapLevels : g[k] = f[k] + d[k]
  BY DEF Sizes
<1>3. (\A k \in CapLevels : k # l => d[k] = 0) /\ d[l] = g[l] - f[l]
  BY DEF Sizes
<1>4. CapTop \in CapLevels
  BY CapNumbers DEF CapLevels
<1>. HIDE DEF d
<1>5. Total(d) = d[l]
  BY <1>1, <1>3, SumOfOne
<1>6. Total(g) = Total(f) + Total(d)
  BY <1>1, <1>2, <1>4, SumsAdd DEF Total
<1>. QED BY <1>3, <1>4, <1>5, <1>6, SumOfSizes DEF Total

\* Totals of sizes grow with the sizes.
LEMMA Totals ==
    /\ Empty \in Sizes /\ Total(Empty) = 0
    /\ \A f \in Sizes : Total(f) \in Nat
    /\ \A f, g \in Sizes : (\A l \in CapLevels : f[l] <= g[l]) => Total(f) <= Total(g)
<1>1. CapTop \in CapLevels /\ 0 \in CapLevels
  BY CapNumbers DEF CapLevels
<1>2. Empty \in Sizes /\ Empty \in [CapLevels -> Int] /\ \A l \in CapLevels : Empty[l] = 0
  BY DEF Empty, Sizes
<1>3. Total(Empty) = 0
  BY <1>1, <1>2, SumOfOne
<1>4. \A f \in Sizes : Total(f) \in Nat
  BY <1>1, SumOfSizes DEF Total
<1>5. ASSUME NEW f \in Sizes, NEW g \in Sizes, \A l \in CapLevels : f[l] <= g[l]
      PROVE  Total(f) <= Total(g)
  BY <1>1, <1>5, SmallerSum DEF Total
<1>. QED BY <1>2, <1>3, <1>4, <1>5

\* What a tick collects in ops: what each level becomes, b, and what this adds up to
\* level by level, more.
CollectedAs(v, size, choice, b, more, ops) ==
    /\ more[0] = 0
    /\ \A l \in CapLevels :
          /\ b[l] = Becomes(v, l, size, choice, more[l])
          /\ more[l + 1] = more[l] + (IF b[l] > v[l] THEN b[l] - v[l] ELSE 0)
    /\ ops = {[act |-> IF v[l] = 0 THEN "create" ELSE IF b[l] = 0 THEN "cancel" ELSE "modify",
               level |-> l, size |-> b[l]] : l \in {k \in CapLevels : b[k] # v[k]}}

\* Whatever a tick collects is of that form.
LEMMA CollectedGrows ==
    ASSUME NEW v \in Sizes, NEW size \in Nat, NEW choice
    PROVE  \E b \in Sizes, more \in [0..(CapTop + 1) -> Nat] :
              CollectedAs(v, size, choice, b, more, Collected(v, size, choice))
<1>. DEFINE Grown(l, x) == LET b == Becomes(v, l, size, choice, x)
                           IN  x + (IF b > v[l] THEN b - v[l] ELSE 0)
            F == [k \in Nat |-> [x \in Nat |-> IF k - 1 \in CapLevels THEN Grown(k - 1, x) ELSE 0]]
            R(h) == h = [l \in 0..(CapTop + 1) |->
                            IF l = 0 THEN 0
                            ELSE LET b == Becomes(v, l - 1, size, choice, h[l - 1])
                                 IN  h[l - 1] + (IF b > v[l - 1] THEN b - v[l - 1] ELSE 0)]
            P == CHOOSE h : R(h)
            B == [l \in CapLevels |-> Becomes(v, l, size, choice, P[l])]
<1>1. ASSUME NEW l \in CapLevels, NEW x
      PROVE  Becomes(v, l, size, choice, x) \in Nat /\ v[l] \in Nat
  BY DEF Becomes, Sizes
<1>2. F \in [Nat -> [Nat -> Nat]]
  <2>1. ASSUME NEW k \in Nat, NEW x \in Nat
        PROVE  (IF k - 1 \in CapLevels THEN Grown(k - 1, x) ELSE 0) \in Nat
    <3>1. CASE k - 1 \in CapLevels
      <4>. DEFINE j == k - 1
      <4>1. Becomes(v, j, size, choice, x) \in Nat /\ v[j] \in Nat
        BY <1>1, <3>1
      <4>. HIDE DEF j
      <4>2. Grown(j, x) \in Nat
        BY <4>1
      <4>. QED BY <3>1, <4>2 DEF j
    <3>2. CASE k - 1 \notin CapLevels
      BY <3>2
    <3>. QED BY <3>1, <3>2
  <2>. HIDE DEF Grown
  <2>. QED BY <2>1
<1>3. PICK h \in [0..(CapTop + 1) -> Nat] :
         h[0] = 0 /\ \A k \in 1..(CapTop + 1) : h[k] = F[k][h[k - 1]]
  <2>. DEFINE n == CapTop + 1
  <2>1. n \in Nat /\ 0 \in Nat
    BY CapNumbers
  <2>. HIDE DEF F, n
  <2>2. \E g : Follows(g, n, Nat, 0, F)
    BY <1>2, <2>1, StepByStep
  <2>. QED BY <2>2 DEF n, Follows
<1>4. \A k \in 1..(CapTop + 1) : k - 1 \in CapLevels /\ h[k - 1] \in Nat /\ k \in Nat
  <2>1. \A k \in 1..(CapTop + 1) : /\ k - 1 \in CapLevels /\ k - 1 \in 0..(CapTop + 1)
                                   /\ k \in Nat
    BY CapNumbers DEF CapLevels
  <2>. HIDE DEF F
  <2>. QED BY <1>3, <2>1
<1>5. \A k \in 1..(CapTop + 1) : h[k] = Grown(k - 1, h[k - 1])
  <2>. HIDE DEF Grown
  <2>. QED BY <1>3, <1>4
<1>6. R(h)
  <2>1. \A l \in 0..(CapTop + 1) : l = 0 \/ l \in 1..(CapTop + 1)
    BY CapNumbers
  <2>2. \A l \in 0..(CapTop + 1) : h[l] = IF l = 0 THEN 0 ELSE Grown(l - 1, h[l - 1])
    <3>. HIDE DEF Grown
    <3>. QED BY <1>3, <1>5, <2>1
  <2>3. h = [l \in 0..(CapTop + 1) |-> h[l]]
    BY <1>3
  <2>4. h = [l \in 0..(CapTop + 1) |-> IF l = 0 THEN 0 ELSE Grown(l - 1, h[l - 1])]
    <3>. HIDE DEF Grown
    <3>. QED BY <2>2, <2>3
  <2>. QED BY <2>4
<1>7. R(P)
  <2>. HIDE DEF R
  <2>. QED BY <1>6
<1>8. Collected(v, size, choice) =
         {[act |-> IF v[l] = 0 THEN "create"
                   ELSE IF Becomes(v, l, size, choice, P[l]) = 0 THEN "cancel" ELSE "modify",
           level |-> l, size |-> Becomes(v, l, size, choice, P[l])] :
             l \in {k \in CapLevels : Becomes(v, k, size, choice, P[k]) # v[k]}}
  BY DEF Collected
<1>. HIDE DEF P
<1>9. B \in Sizes
  BY <1>1 DEF Sizes
<1>10. \A l \in 0..(CapTop + 1) : P[l] = IF l = 0 THEN 0 ELSE Grown(l - 1, P[l - 1])
  BY <1>7
<1>11. P \in [0..(CapTop + 1) -> Nat]
  <2>. DEFINE T == {l \in CapLevels : P[l] \in Nat}
  <2>1. 0 \in T
    BY <1>10, CapNumbers DEF CapLevels
  <2>2. ASSUME NEW k \in CapLevels, P[k] \in Nat PROVE P[k + 1] \in Nat
    <3>. DEFINE j == k + 1
    <3>1. j \in 0..(CapTop + 1) /\ j # 0 /\ j - 1 = k
      BY CapNumbers DEF CapLevels
    <3>2. P[j] = Grown(k, P[k])
      <4>. HIDE DEF Grown, j
      <4>. QED BY <1>10, <3>1
    <3>. HIDE DEF j
    <3>3. Becomes(v, k, size, choice, P[k]) \in Nat /\ v[k] \in Nat
      BY <1>1
    <3>. QED BY <2>2, <3>2, <3>3 DEF j
  <2>3. CapLevels \subseteq T
    <3>1. \A k \in T : k + 1 \in CapLevels => k + 1 \in T
      BY <2>2
    <3>. HIDE DEF T
    <3>. QED BY <2>1, <3>1, LevelByLevel
  <2>4. P[CapTop + 1] \in Nat
    <3>1. CapTop \in CapLevels
      BY CapNumbers DEF CapLevels
    <3>2. P[CapTop] \in Nat
      BY <2>3, <3>1
    <3>. QED BY <2>2, <3>1, <3>2
  <2>5. \A l \in 0..(CapTop + 1) : l \in CapLevels \/ l = CapTop + 1
    BY CapNumbers DEF CapLevels
  <2>6. \A l \in 0..(CapTop + 1) : P[l] \in Nat
    BY <2>3, <2>4, <2>5
  <2>7. P = [l \in 0..(CapTop + 1) |-> P[l]]
    BY <1>7
  <2>. QED BY <2>6, <2>7
<1>12. ASSUME NEW l \in CapLevels
       PROVE  /\ B[l] = Becomes(v, l, size, choice, P[l])
              /\ P[l + 1] = P[l] + (IF B[l] > v[l] THEN B[l] - v[l] ELSE 0)
  <2>. DEFINE j == l + 1
  <2>1. j \in 0..(CapTop + 1) /\ j # 0 /\ j - 1 = l
    BY CapNumbers DEF CapLevels
  <2>2. P[j] = Grown(l, P[l])
    <3>. HIDE DEF Grown, j
    <3>. QED BY <1>10, <2>1
  <2>. QED BY <2>2
<1>13. P[0] = 0
  <2>1. 0 \in 0..(CapTop + 1)
    BY CapNumbers
  <2>. HIDE DEF Grown
  <2>. QED BY <1>10, <2>1
<1>14. Collected(v, size, choice) =
         {[act |-> IF v[l] = 0 THEN "create" ELSE IF B[l] = 0 THEN "cancel" ELSE "modify",
           level |-> l, size |-> B[l]] : l \in {k \in CapLevels : B[k] # v[k]}}
  BY <1>8
<1>. HIDE DEF B
<1>15. CollectedAs(v, size, choice, B, P, Collected(v, size, choice))
  BY <1>12, <1>13, <1>14 DEF CollectedAs
<1>. QED BY <1>9, <1>11, <1>15

\* What an operation adds, and that levels without one get nothing more.
LEMMA GrowthIs ==
    ASSUME NEW f \in Sizes, NEW ops, Batch(ops)
    PROVE  /\ Growth(f, ops) \in Sizes
           /\ \A l \in CapLevels : (\A o \in ops : o.level # l) => Growth(f, ops)[l] = 0
           /\ \A o \in ops : Growth(f, ops)[o.level] =
                 IF o.act = "create" THEN o.size
                 ELSE IF f[o.level] # 0 /\ o.size > f[o.level] THEN o.size - f[o.level] ELSE 0
<1>1. ASSUME NEW l \in CapLevels, \A o \in ops : o.level # l
      PROVE  Growth(f, ops)[l] = 0
  BY <1>1 DEF Growth
<1>2. ASSUME NEW o \in ops
      PROVE  /\ o.level \in CapLevels /\ o.size \in Nat /\ f[o.level] \in Nat
             /\ Growth(f, ops)[o.level] =
                  IF o.act = "create" THEN o.size
                  ELSE IF f[o.level] # 0 /\ o.size > f[o.level] THEN o.size - f[o.level] ELSE 0
  <2>1. o.level \in CapLevels /\ o.size \in Nat /\ f[o.level] \in Nat
    BY DEF Batch, Ops, Sizes
  <2>. DEFINE c == CHOOSE p \in ops : p.level = o.level
  <2>2. c = o
    <3>1. c \in ops /\ c.level = o.level
      OBVIOUS
    <3>. HIDE DEF c
    <3>. QED BY <3>1 DEF Batch
  <2>3. Growth(f, ops)[o.level] =
           IF c.act = "create" THEN c.size
           ELSE IF f[o.level] # 0 /\ c.size > f[o.level] THEN c.size - f[o.level] ELSE 0
    BY <2>1 DEF Growth
  <2>. HIDE DEF c
  <2>. QED BY <2>1, <2>2, <2>3
<1>3. \A l \in CapLevels : Growth(f, ops)[l] \in Nat
  <2>. TAKE l \in CapLevels
  <2>1. CASE \A o \in ops : o.level # l
    BY <1>1, <2>1
  <2>2. CASE \E o \in ops : o.level = l
    <3>1. PICK o \in ops : o.level = l
      BY <2>2
    <3>2. o.size \in Nat /\ f[l] \in Nat
      BY <1>2, <3>1
    <3>3. Growth(f, ops)[l] = IF o.act = "create" THEN o.size
                              ELSE IF f[l] # 0 /\ o.size > f[l] THEN o.size - f[l] ELSE 0
      BY <1>2, <3>1
    <3>. QED BY <3>2, <3>3
  <2>. QED BY <2>1, <2>2
<1>4. Growth(f, ops) = [l \in CapLevels |-> Growth(f, ops)[l]]
  BY DEF Growth
<1>5. Growth(f, ops) \in Sizes
  BY <1>3, <1>4 DEF Sizes
<1>. QED BY <1>1, <1>2, <1>5

\* The growth grows with nothing that makes the sizes smaller or the operations fewer.
LEMMA FitsStill ==
    ASSUME NEW f \in Sizes, NEW g \in Sizes, NEW ops, Batch(ops), NEW kept, Batch(kept),
           NEW p \in Nat, NEW q \in Nat, q + Total(g) <= p + Total(f),
           \A l \in CapLevels : Growth(g, kept)[l] <= Growth(f, ops)[l],
           Fits(f, p, ops)
    PROVE  Fits(g, q, kept)
<1>1. Growth(g, kept) \in Sizes /\ Growth(f, ops) \in Sizes
  BY GrowthIs
<1>. DEFINE x == Total(Growth(g, kept))  y == Total(Growth(f, ops))  a == Total(f)  b == Total(g)
<1>2. x \in Nat /\ y \in Nat /\ x <= y /\ a \in Nat /\ b \in Nat
  BY <1>1, Totals
<1>3. y = 0 \/ p + a + y <= Cap
  BY DEF Fits
<1>. HIDE DEF x, y, a, b
<1>4. q + b <= p + a
  BY DEF a, b
<1>5. x = 0 \/ q + b + x <= Cap
  BY <1>2, <1>3, <1>4, CapNumbers
<1>. QED BY <1>5 DEF x, b, Fits

\* What fits still does with fewer operations.
LEMMA FewerFit ==
    ASSUME NEW f \in Sizes, NEW p \in Nat, NEW ops, Batch(ops), NEW kept, kept \subseteq ops,
           Fits(f, p, ops)
    PROVE  Batch(kept) /\ Fits(f, p, kept)
<1>1. Batch(kept)
  BY DEF Batch
<1>2. \A l \in CapLevels : Growth(f, kept)[l] <= Growth(f, ops)[l]
  <2>. TAKE l \in CapLevels
  <2>1. Growth(f, ops)[l] \in Nat
    BY GrowthIs DEF Sizes
  <2>2. CASE \A o \in kept : o.level # l
    <3>1. Growth(f, kept)[l] = 0
      BY <1>1, <2>2, GrowthIs
    <3>. QED BY <2>1, <3>1
  <2>3. CASE \E o \in kept : o.level = l
    <3>1. Growth(f, kept)[l] = Growth(f, ops)[l]
      BY <1>1, <2>3, GrowthIs
    <3>. QED BY <2>1, <3>1
  <2>. QED BY <2>2, <2>3
<1>3. p + Total(f) <= p + Total(f)
  BY Totals
<1>. QED BY <1>1, <1>2, <1>3, FitsStill

\* A fill that overtakes no modify.
LEMMA FilledFit ==
    ASSUME NEW f \in Sizes, NEW g \in Sizes, NEW p \in Nat, NEW ops, Batch(ops),
           NEW l \in CapLevels, NEW n \in Nat, n <= f[l], g[l] = f[l] - n,
           \A k \in CapLevels : k # l => g[k] = f[k],
           ~Resizes(ops, l), Fits(f, p, ops)
    PROVE  Fits(g, p + n, ops)
<1>1. \A k \in CapLevels : Growth(g, ops)[k] <= Growth(f, ops)[k]
  <2>. TAKE k \in CapLevels
  <2>1. Growth(f, ops)[k] \in Nat
    BY GrowthIs DEF Sizes
  <2>2. CASE \A o \in ops : o.level # k
    BY <2>1, <2>2, GrowthIs
  <2>3. CASE \E o \in ops : o.level = k
    <3>1. PICK o \in ops : o.level = k
      BY <2>3
    <3>2. o.size \in Nat /\ f[k] \in Nat /\ g[k] \in Nat /\ o.act \in {"create", "modify", "cancel"}
          /\ (o.act = "cancel" => o.size = 0)
      BY DEF Batch, Ops, Sizes
    <3>3. Growth(g, ops)[k] = (IF o.act = "create" THEN o.size
                               ELSE IF g[k] # 0 /\ o.size > g[k] THEN o.size - g[k] ELSE 0)
          /\ Growth(f, ops)[k] = (IF o.act = "create" THEN o.size
                                  ELSE IF f[k] # 0 /\ o.size > f[k] THEN o.size - f[k] ELSE 0)
      BY <3>1, GrowthIs
    <3>4. o.act = "modify" => g[k] = f[k]
      BY <3>1 DEF Resizes
    <3>. QED BY <3>2, <3>3, <3>4
  <2>. QED BY <2>2, <2>3
<1>2. Total(g) = Total(f) + (g[l] - f[l]) /\ Total(f) \in Nat /\ Total(g) \in Nat
  BY TotalOfChange
<1>3. (p + n) + Total(g) <= p + Total(f) /\ p + n \in Nat
  <2>1. f[l] \in Nat /\ g[l] \in Nat
    BY DEF Sizes
  <2>. QED BY <1>2, <2>1
<1>. QED BY <1>1, <1>3, FitsStill

\* Levels that are cancelled on the exchange.
LEMMA CancelledFit ==
    ASSUME NEW f \in Sizes, NEW g \in Sizes, NEW p \in Nat, NEW ops, Batch(ops),
           \A l \in CapLevels : g[l] \in {0, f[l]}, Fits(f, p, ops)
    PROVE  Fits(g, p, ops) /\ Total(g) <= Total(f)
<1>1. \A k \in CapLevels : Growth(g, ops)[k] <= Growth(f, ops)[k]
  <2>. TAKE k \in CapLevels
  <2>1. Growth(f, ops)[k] \in Nat
    BY GrowthIs DEF Sizes
  <2>2. CASE \A o \in ops : o.level # k
    BY <2>1, <2>2, GrowthIs
  <2>3. CASE \E o \in ops : o.level = k
    <3>1. PICK o \in ops : o.level = k
      BY <2>3
    <3>2. o.size \in Nat /\ f[k] \in Nat /\ g[k] \in {0, f[k]}
      BY DEF Batch, Ops, Sizes
    <3>3. Growth(g, ops)[k] = (IF o.act = "create" THEN o.size
                               ELSE IF g[k] # 0 /\ o.size > g[k] THEN o.size - g[k] ELSE 0)
          /\ Growth(f, ops)[k] = (IF o.act = "create" THEN o.size
                                  ELSE IF f[k] # 0 /\ o.size > f[k] THEN o.size - f[k] ELSE 0)
      BY <3>1, GrowthIs
    <3>. QED BY <3>2, <3>3
  <2>. QED BY <2>2, <2>3
<1>2. \A l \in CapLevels : g[l] <= f[l]
  <2>. TAKE l \in CapLevels
  <2>1. f[l] \in Nat /\ g[l] \in {0, f[l]}
    BY DEF Sizes
  <2>. QED BY <2>1
<1>3. Total(g) <= Total(f) /\ Total(g) \in Nat /\ Total(f) \in Nat
  BY <1>2, Totals
<1>4. p + Total(g) <= p + Total(f)
  BY <1>3
<1>. QED BY <1>1, <1>3, <1>4, FitsStill

\* What a tick collects on its own view fits on that view.
LEMMA TickFits ==
    ASSUME NEW v \in Sizes, NEW size \in Nat, NEW choice, inventory \in Nat
    PROVE  /\ Batch(Collected(v, size, choice))
           /\ Fits(v, inventory, Collected(v, size, choice))
<1>. DEFINE ops == Collected(v, size, choice)
<1>0. PICK b \in Sizes, more \in [0..(CapTop + 1) -> Nat] :
         CollectedAs(v, size, choice, b, more, ops)
  BY CollectedGrows
<1>. HIDE DEF ops
<1>1. /\ more[0] = 0
      /\ \A l \in CapLevels :
            /\ b[l] = Becomes(v, l, size, choice, more[l])
            /\ more[l + 1] = more[l] + (IF b[l] > v[l] THEN b[l] - v[l] ELSE 0)
      /\ ops = {[act |-> IF v[l] = 0 THEN "create" ELSE IF b[l] = 0 THEN "cancel" ELSE "modify",
                 level |-> l, size |-> b[l]] : l \in {k \in CapLevels : b[k] # v[k]}}
  BY <1>0 DEF CollectedAs
<1>2. \A l \in CapLevels : b[l] \in Nat /\ v[l] \in Nat /\ more[l] \in Nat /\ more[l + 1] \in Nat
  <2>. TAKE l \in CapLevels
  <2>1. l \in 0..(CapTop + 1) /\ l + 1 \in 0..(CapTop + 1)
    BY CapNumbers DEF CapLevels
  <2>. QED BY <2>1 DEF Sizes
<1>3. \A o \in ops : /\ o \in Ops /\ b[o.level] # v[o.level] /\ o.size = b[o.level]
                     /\ o.act = IF v[o.level] = 0 THEN "create"
                                ELSE IF b[o.level] = 0 THEN "cancel" ELSE "modify"
                     /\ o = [act |-> o.act, level |-> o.level, size |-> o.size]
  BY <1>1, <1>2 DEF Ops
<1>4. Batch(ops)
  <2>1. ops \subseteq Ops /\ \A o \in ops : o.act = "cancel" => o.size = 0
    BY <1>3
  <2>2. \A o, p \in ops : o.level = p.level => o = p
    BY <1>3
  <2>. QED BY <2>1, <2>2 DEF Batch
<1>. DEFINE gain == Growth(v, ops)
<1>5. gain \in Sizes /\ gain \in [CapLevels -> Int]
  BY <1>4, GrowthIs DEF Sizes
<1>6. \A l \in CapLevels : gain[l] = IF b[l] > v[l] THEN b[l] - v[l] ELSE 0
  <2>. TAKE l \in CapLevels
  <2>1. CASE b[l] = v[l]
    <3>1. \A o \in ops : o.level # l
      BY <1>3, <2>1
    <3>. QED BY <1>2, <1>4, <2>1, <3>1, GrowthIs
  <2>2. CASE b[l] # v[l]
    <3>1. PICK o \in ops : o.level = l
      <4>1. [act |-> IF v[l] = 0 THEN "create" ELSE IF b[l] = 0 THEN "cancel" ELSE "modify",
             level |-> l, size |-> b[l]] \in ops
        BY <1>1, <2>2
      <4>. QED BY <4>1
    <3>2. gain[l] = IF o.act = "create" THEN o.size
                    ELSE IF v[l] # 0 /\ o.size > v[l] THEN o.size - v[l] ELSE 0
      BY <1>4, <3>1, GrowthIs
    <3>3. o.size = b[l] /\ (o.act = "create" <=> v[l] = 0)
      BY <1>3, <3>1
    <3>. QED BY <1>2, <2>2, <3>2, <3>3
  <2>. QED BY <2>1, <2>2
<1>. HIDE DEF gain
<1>7. Total(v) \in Nat
  BY Totals
<1>. DEFINE Holds(l) == /\ SumTo(gain, l) = more[l + 1]
                        /\ more[l + 1] = 0 \/ inventory + Total(v) + more[l + 1] <= Cap
            T == {l \in CapLevels : Holds(l)}
<1>8. ASSUME NEW l \in CapLevels, more[l] = 0 \/ inventory + Total(v) + more[l] <= Cap
      PROVE  more[l + 1] = 0 \/ inventory + Total(v) + more[l + 1] <= Cap
  <2>1. b[l] = Becomes(v, l, size, choice, more[l])
        /\ more[l + 1] = more[l] + (IF b[l] > v[l] THEN b[l] - v[l] ELSE 0)
    BY <1>1
  <2>2. CASE b[l] > v[l]
    <3>1. b[l] = size /\ ~Capped(v, l, size, more[l])
      BY <1>2, <2>1, <2>2 DEF Becomes
    <3>2. inventory + Total(v) - v[l] + size + more[l] <= Cap
      BY <1>2, <1>7, <3>1, CapNumbers DEF Capped, Projected
    <3>. QED BY SMTT(30), <1>2, <1>7, <2>1, <2>2, <3>1, <3>2, CapNumbers
  <2>3. CASE ~(b[l] > v[l])
    <3>1. more[l + 1] = more[l]
      BY <1>2, <2>1, <2>3
    <3>. QED BY <1>8, <3>1
  <2>. QED BY <2>2, <2>3
<1>9. 0 \in T
  <2>1. 0 \in CapLevels
    BY CapNumbers DEF CapLevels
  <2>2. SumTo(gain, 0) = gain[0]
    BY SumSteps
  <2>3. more[0 + 1] = more[0] + gain[0] /\ more[0] = 0
    BY <1>1, <1>6, <2>1
  <2>4. SumTo(gain, 0) = more[0 + 1]
    BY <1>2, <2>1, <2>2, <2>3, <1>5 DEF Sizes
  <2>. QED BY <1>8, <2>1, <2>3, <2>4
<1>10. ASSUME NEW k \in T, k + 1 \in CapLevels PROVE k + 1 \in T
  <2>. DEFINE j == k + 1
  <2>1. j \in CapLevels /\ j # 0 /\ j - 1 = k /\ k \in CapLevels
    BY <1>10, CapNumbers DEF CapLevels
  <2>2. SumTo(gain, k) = more[j] /\ (more[j] = 0 \/ inventory + Total(v) + more[j] <= Cap)
    OBVIOUS
  <2>. HIDE DEF j
  <2>3. SumTo(gain, j) = SumTo(gain, k) + gain[j]
    BY <2>1, SumSteps
  <2>4. more[j + 1] = more[j] + gain[j]
    BY <1>1, <1>6, <2>1
  <2>5. Holds(j)
    BY <1>8, <2>1, <2>2, <2>3, <2>4
  <2>. QED BY <2>1, <2>5 DEF j
<1>11. CapLevels \subseteq T
  <2>. HIDE DEF T
  <2>. QED BY <1>9, <1>10, LevelByLevel
<1>12. CapTop \in CapLevels
  BY CapNumbers DEF CapLevels
<1>13. Total(gain) = 0 \/ inventory + Total(v) + Total(gain) <= Cap
  BY <1>11, <1>12 DEF Total
<1>. QED BY <1>4, <1>13 DEF gain, Fits, ops

\* The total of a sum is the sum of the totals.
LEMMA TotalsAdd ==
    \A f, g, h \in [CapLevels -> Int] :
       (\A l \in CapLevels : h[l] = f[l] + g[l]) => Total(h) = Total(f) + Total(g)
<1>1. CapTop \in CapLevels
  BY CapNumbers DEF CapLevels
<1>2. ASSUME NEW f \in [CapLevels -> Int], NEW g \in [CapLevels -> Int],
             NEW h \in [CapLevels -> Int], \A l \in CapLevels : h[l] = f[l] + g[l]
      PROVE  Total(h) = Total(f) + Total(g)
  BY <1>1, <1>2, SumsAdd DEF Total
<1>. QED BY <1>2

\* What fits is still within the cap once it is executed.
LEMMA ExecutedFits ==
    ASSUME CapTypes, NEW g, g = [l \in CapLevels |-> Executed(l)]
    PROVE  /\ g \in Sizes
           /\ Fits(open, owned, out.ops) /\ owned + Total(open) <= Cap
                 => owned + Total(g) <= Cap
<1>. DEFINE ops == out.ops
            gain == Growth(open, ops)
            sum == [l \in CapLevels |-> open[l] + gain[l]]
<1>1. Batch(ops) /\ open \in Sizes /\ owned \in Nat
  BY DEF CapTypes
<1>2. gain \in Sizes
  BY <1>1, GrowthIs
<1>3. \A l \in CapLevels : g[l] \in Nat /\ g[l] <= open[l] + gain[l]
  <2>. TAKE l \in CapLevels
  <2>0. open[l] \in Nat /\ gain[l] \in Nat
    BY <1>1, <1>2 DEF Sizes
  <2>1. CASE \A o \in ops : o.level # l
    <3>1. g[l] = open[l]
      BY <2>1 DEF Executed
    <3>. QED BY <2>0, <3>1
  <2>2. CASE \E o \in ops : o.level = l
    <3>. DEFINE c == CHOOSE o \in ops : o.level = l
    <3>1. c \in ops /\ c.level = l
      BY <2>2
    <3>2. g[l] = IF c.act = "create" THEN open[l] + c.size
                 ELSE IF open[l] = 0 THEN 0 ELSE c.size
      BY <2>2 DEF Executed
    <3>. HIDE DEF c, gain
    <3>3. c.size \in Nat
      BY <1>1, <3>1 DEF Batch, Ops
    <3>4. gain[l] = IF c.act = "create" THEN c.size
                    ELSE IF open[l] # 0 /\ c.size > open[l] THEN c.size - open[l] ELSE 0
      BY <1>1, <3>1, GrowthIs DEF gain
    <3>. QED BY <2>0, <3>2, <3>3, <3>4
  <2>. QED BY <2>1, <2>2
<1>4. g \in Sizes
  BY <1>3 DEF Sizes
<1>. HIDE DEF gain
<1>5. sum \in Sizes /\ \A l \in CapLevels : sum[l] = open[l] + gain[l] /\ g[l] <= sum[l]
  BY <1>1, <1>2, <1>3 DEF Sizes
<1>. HIDE DEF sum
<1>6. Total(sum) = Total(open) + Total(gain)
  <2>1. sum \in [CapLevels -> Int] /\ open \in [CapLevels -> Int] /\ gain \in [CapLevels -> Int]
    BY <1>1, <1>2, <1>5 DEF Sizes
  <2>2. \A l \in CapLevels : sum[l] = open[l] + gain[l]
    BY <1>5
  <2>. QED BY <2>1, <2>2, TotalsAdd
<1>7. Total(g) <= Total(sum) /\ Total(g) \in Nat /\ Total(open) \in Nat /\ Total(gain) \in Nat
  BY <1>1, <1>2, <1>4, <1>5, Totals
<1>8. ASSUME Fits(open, owned, ops), owned + Total(open) <= Cap
      PROVE  owned + Total(g) <= Cap
  <2>1. Total(gain) = 0 \/ owned + Total(open) + Total(gain) <= Cap
    BY <1>8 DEF Fits, gain
  <2>. QED BY <1>1, <1>6, <1>7, <1>8, <2>1, CapNumbers
<1>. QED BY <1>4, <1>8

\* What the poller keeps, by the right position, is within the cap.
LEMMA KeptFits ==
    ASSUME NEW f \in Sizes, NEW g, NEW p \in Nat, p <= Cap,
           g = [l \in CapLevels |-> IF f[l] > 0 /\ p + SumTo(f, l) > Cap THEN 0 ELSE f[l]]
    PROVE  p + Total(g) <= Cap
<1>1. \A l \in CapLevels : f[l] \in Nat /\ g[l] \in Nat /\ g[l] <= f[l]
                           /\ (g[l] = 0 \/ (g[l] = f[l] /\ p + SumTo(f, l) <= Cap))
  <2>. TAKE l \in CapLevels
  <2>1. f[l] \in Nat /\ SumTo(f, l) \in Nat
    BY SumOfSizes DEF Sizes
  <2>2. g[l] = IF f[l] > 0 /\ p + SumTo(f, l) > Cap THEN 0 ELSE f[l]
    OBVIOUS
  <2>. DEFINE x == SumTo(f, l)
  <2>3. x \in Nat
    BY <2>1
  <2>4. g[l] = IF f[l] > 0 /\ p + x > Cap THEN 0 ELSE f[l]
    BY <2>2
  <2>. HIDE DEF x
  <2>5. f[l] = 0 \/ f[l] > 0
    BY <2>1
  <2>6. ~(p + x > Cap) => p + x <= Cap
    BY <2>3, CapNumbers
  <2>7. g[l] = 0 \/ (g[l] = f[l] /\ p + x <= Cap)
    BY <2>4, <2>5, <2>6
  <2>. QED BY <2>1, <2>4, <2>7 DEF x
<1>2. g \in Sizes
  BY <1>1 DEF Sizes
<1>3. \A l \in CapLevels : SumTo(g, l) <= SumTo(f, l) /\ SumTo(f, l) \in Nat /\ SumTo(g, l) \in Nat
  BY <1>1, <1>2, SmallerSum, SumOfSizes
<1>. DEFINE T == {l \in CapLevels : p + SumTo(g, l) <= Cap}
<1>4. 0 \in T
  <2>1. 0 \in CapLevels
    BY CapNumbers DEF CapLevels
  <2>2. SumTo(g, 0) = g[0]
    BY SumSteps
  <2>. QED BY <1>1, <1>3, <2>1, <2>2, CapNumbers
<1>5. ASSUME NEW k \in T, k + 1 \in CapLevels PROVE k + 1 \in T
  <2>. DEFINE j == k + 1
  <2>1. j \in CapLevels /\ j # 0 /\ j - 1 = k /\ k \in CapLevels
    BY <1>5, CapNumbers DEF CapLevels
  <2>. HIDE DEF j
  <2>2. SumTo(g, j) = SumTo(g, k) + g[j]
    BY <2>1, SumSteps
  <2>3. p + SumTo(g, k) <= Cap
    BY <1>5
  <2>4. p + SumTo(g, j) <= Cap
    BY <1>1, <1>3, <2>1, <2>2, <2>3, CapNumbers
  <2>. QED BY <2>1, <2>4 DEF j
<1>. HIDE DEF T
<1>6. CapLevels \subseteq T
  BY <1>4, <1>5, LevelByLevel
<1>7. CapTop \in CapLevels
  BY CapNumbers DEF CapLevels
<1>. QED BY <1>6, <1>7 DEF T, Total

-----------------------------------------------------------------------------
(* The invariant of the cap, action by action. *)

\* Nothing is open at the start.
LEMMA CapStarts == CapInit => CapInv
<1>. SUFFICES ASSUME CapInit PROVE CapInv
  OBVIOUS
<1>. USE DEF CapInit
<1>1. CapTypes
  BY Totals DEF CapTypes, Batch, Idle, NoSurplus
<1>2. ExposureWithinCap
  <2>1. owned + Total(open) = 0
    BY Totals
  <2>. QED BY <2>1, CapNumbers DEF ExposureWithinCap
<1>3. Decided /\ SurplusIsEnough
  BY DEF Decided, SurplusIsEnough, Idle, NoSurplus
<1>. QED BY <1>1, <1>2, <1>3 DEF CapInv

\* A tick decides on the view it has; on a true one, what it decides fits.
LEMMA CapTickKeeps ==
    ASSUME CapInv, NEW size \in Nat, NEW choice, CapTick(size, choice)
    PROVE  CapInv'
<1>. USE DEF CapInv, CapTick
<1>1. Batch(box') /\ Fits(tracked, inventory, box')
  BY TickFits DEF CapTypes
<1>2. CapTypes'
  BY <1>1 DEF CapTypes
<1>3. ~boxBlind' => out' = Idle /\ Fits(open', owned', box')
  <2>. SUFFICES ASSUME ~boxBlind' PROVE out' = Idle /\ Fits(open', owned', box')
    OBVIOUS
  <2>1. TrueView
    OBVIOUS
  <2>. QED BY <1>1, <2>1 DEF TrueView
<1>4. Decided'
  BY <1>3 DEF Decided
<1>5. ExposureWithinCap' /\ SurplusIsEnough'
  BY DEF ExposureWithinCap, SurplusIsEnough, Kept
<1>. QED BY <1>2, <1>4, <1>5

\* The sender takes the operations out of the box.
LEMMA PullKeeps ==
    ASSUME CapInv, Pull
    PROVE  CapInv'
<1>. USE DEF CapInv, Pull
<1>. DEFINE ops == {o \in box : StillWanted(o)}
<1>0. Batch(box) /\ open \in Sizes /\ owned \in Nat
  BY DEF CapTypes
<1>1. Batch(ops)
  BY <1>0 DEF Batch
<1>2. Fits(open, owned, box) => Fits(open, owned, ops)
  BY <1>0, FewerFit
<1>3. out' = IF ops = {} THEN Idle ELSE [at |-> "sent", ops |-> ops, blind |-> boxBlind]
  OBVIOUS
<1>. HIDE DEF ops
<1>4. CapTypes'
  <2>1. Batch({})
    BY DEF Batch
  <2>2. Batch(out'.ops) /\ out' = [at |-> out'.at, ops |-> out'.ops, blind |-> out'.blind]
    <3>1. CASE ops = {}
      <4>1. out' = [at |-> "idle", ops |-> {}, blind |-> FALSE]
        BY <1>3, <3>1 DEF Idle
      <4>. HIDE DEF Pull, CapInv
      <4>2. out'.ops = {} /\ out'.at = "idle" /\ out'.blind = FALSE
        BY <4>1
      <4>3. out' = [at |-> out'.at, ops |-> out'.ops, blind |-> out'.blind]
        BY <4>1, <4>2
      <4>. QED BY <2>1, <4>2, <4>3
    <3>2. CASE ops # {}
      <4>1. out' = [at |-> "sent", ops |-> ops, blind |-> boxBlind]
        BY <1>3, <3>2
      <4>2. out'.ops = ops /\ out' = [at |-> out'.at, ops |-> out'.ops, blind |-> out'.blind]
        <5>. HIDE DEF Pull
        <5>. QED BY <4>1
      <4>. QED BY <1>1, <4>2
    <3>. QED BY <3>1, <3>2
  <2>. QED BY <2>1, <2>2 DEF CapTypes
<1>5. Decided'
  <2>1. CASE ops = {}
    BY <1>3, <2>1 DEF Decided, Idle
  <2>2. CASE ops # {}
    <3>1. out' = [at |-> "sent", ops |-> ops, blind |-> boxBlind]
      BY <1>3, <2>2
    <3>2. ~boxBlind => Fits(open, owned, ops)
      BY <1>2 DEF Decided
    <3>3. ~out'.blind => Fits(open', owned', out'.ops)
      BY <3>1, <3>2
    <3>. QED BY <3>3 DEF Decided
  <2>. QED BY <2>1, <2>2
<1>6. ExposureWithinCap' /\ SurplusIsEnough'
  BY DEF ExposureWithinCap, SurplusIsEnough, Kept
<1>. QED BY <1>4, <1>5, <1>6

\* The exchange executes a batch.
LEMMA CapExecuteKeeps ==
    ASSUME CapInv, CapExecute
    PROVE  CapInv'
<1>. USE DEF CapInv, CapExecute
<1>1. open' \in Sizes /\ (Fits(open, owned, out.ops) /\ owned + Total(open) <= Cap
                             => owned + Total(open') <= Cap)
  BY ExecutedFits
<1>2. /\ out'.at = "done" /\ out'.ops = out.ops
      /\ out' = [at |-> out'.at, ops |-> out'.ops, blind |-> out'.blind]
  BY DEF CapTypes
<1>3. surplus' = [levels |-> surplus'.levels, good |-> surplus'.good] /\ surplus'.good = FALSE
  BY DEF CapTypes
<1>4. CapTypes'
  BY <1>1, <1>2, <1>3 DEF CapTypes
<1>5. ExposureWithinCap'
  <2>. SUFFICES ASSUME ~blind' PROVE owned' + Total(open') <= Cap
    BY DEF ExposureWithinCap
  <2>1. ~blind /\ ~out.blind
    OBVIOUS
  <2>2. owned + Total(open) <= Cap
    BY <2>1 DEF ExposureWithinCap
  <2>3. Fits(open, owned, out.ops)
    BY <2>1 DEF Decided
  <2>. QED BY <1>1, <2>2, <2>3
<1>6. Decided'
  <2>1. box = {} \/ boxBlind
    BY DEF Decided, Idle
  <2>. QED BY <1>2, <2>1 DEF Decided
<1>7. SurplusIsEnough'
  BY <1>3 DEF SurplusIsEnough
<1>. QED BY <1>4, <1>5, <1>6, <1>7

\* The answer to a batch comes back.
LEMMA CapAnswerKeeps ==
    ASSUME CapInv, CapAnswer
    PROVE  CapInv'
<1>. USE DEF CapInv, CapAnswer
<1>. DEFINE to == {o \in out.ops : o.act # "cancel"}
<1>1. tracked' = [l \in CapLevels |-> IF \E o \in to : o.level = l
                                       THEN (CHOOSE o \in to : o.level = l).size ELSE tracked[l]]
  OBVIOUS
<1>2. tracked' \in Sizes
  <2>1. ASSUME NEW l \in CapLevels PROVE tracked'[l] \in Nat
    <3>1. CASE \E o \in to : o.level = l
      <4>. DEFINE c == CHOOSE o \in to : o.level = l
      <4>1. c \in to
        BY <3>1
      <4>2. tracked'[l] = c.size
        BY <1>1, <3>1
      <4>. HIDE DEF c
      <4>. QED BY <4>1, <4>2 DEF CapTypes, Batch, Ops
    <3>2. CASE ~\E o \in to : o.level = l
      <4>1. tracked'[l] = tracked[l]
        BY <1>1, <3>2
      <4>. QED BY <4>1 DEF CapTypes, Sizes
    <3>. QED BY <3>1, <3>2
  <2>. HIDE DEF to
  <2>2. tracked' = [l \in CapLevels |-> tracked'[l]]
    BY <1>1
  <2>. QED BY <2>1, <2>2 DEF Sizes
<1>3. CapTypes'
  BY <1>2 DEF CapTypes, Idle, Batch
<1>4. Decided'
  <2>1. box = {} \/ boxBlind
    BY DEF Decided, Idle
  <2>. QED BY <2>1 DEF Decided, Idle
<1>5. ExposureWithinCap' /\ SurplusIsEnough'
  BY DEF ExposureWithinCap, SurplusIsEnough, Kept
<1>. QED BY <1>3, <1>4, <1>5

\* A fill moves size from what rests to what is owned: the exposure stays.
LEMMA BoughtKeeps ==
    ASSUME CapInv, NEW l \in CapLevels, NEW n \in Nat, Bought(l, n)
    PROVE  CapInv'
<1>. USE DEF CapInv, Bought
<1>0. open \in Sizes /\ owned \in Nat /\ open[l] \in Nat /\ Batch(box) /\ Batch(out.ops)
  BY DEF CapTypes, Sizes
<1>1. /\ open' \in Sizes /\ open'[l] = open[l] - n
      /\ \A k \in CapLevels : k # l => open'[k] = open[k]
  BY <1>0 DEF Sizes
<1>2. Total(open') = Total(open) - n /\ Total(open) \in Nat
  <2>1. Total(open') = Total(open) + (open'[l] - open[l]) /\ Total(open) \in Nat
    BY <1>0, <1>1, TotalOfChange
  <2>. QED BY <1>0, <1>1, <2>1
<1>3. owned' \in Nat /\ owned' = owned + n
  BY <1>0
<1>4. /\ out'.at = out.at /\ out'.ops = out.ops
      /\ out' = [at |-> out'.at, ops |-> out'.ops, blind |-> out'.blind]
  BY DEF CapTypes
<1>5. ~out'.blind => ~out.blind /\ ~Resizes(out.ops, l)
  <2>1. out'.blind = (out.blind \/ Resizes(out.ops, l))
    BY DEF CapTypes
  <2>. QED BY <2>1
<1>6. /\ surplus'.levels = surplus.levels
      /\ surplus' = [levels |-> surplus'.levels, good |-> surplus'.good]
  BY DEF CapTypes
<1>7. surplus'.good => surplus.good /\ l \notin surplus.levels
  <2>1. surplus'.good = (surplus.good /\ l \notin surplus.levels)
    BY DEF CapTypes
  <2>. QED BY <2>1
<1>8. CapTypes'
  BY <1>0, <1>1, <1>3, <1>4, <1>6 DEF CapTypes
<1>9. ExposureWithinCap'
  <2>. SUFFICES ASSUME ~blind' PROVE owned' + Total(open') <= Cap
    BY DEF ExposureWithinCap
  <2>1. owned + Total(open) <= Cap
    BY DEF ExposureWithinCap
  <2>. QED BY <1>0, <1>2, <1>3, <2>1, CapNumbers
<1>10. Decided'
  <2>1. ASSUME box' # {}, ~boxBlind' PROVE out' = Idle /\ Fits(open', owned', box')
    <3>1. ~boxBlind /\ ~Resizes(box, l)
      BY <2>1
    <3>2. out = Idle /\ Fits(open, owned, box)
      BY <2>1, <3>1 DEF Decided
    <3>3. Fits(open', owned', box)
      BY <1>0, <1>1, <1>3, <3>1, <3>2, FilledFit
    <3>4. out.ops = {} /\ out.at = "idle" /\ ~out.blind
      BY <3>2 DEF Idle
    <3>5. out'.blind = FALSE
      BY <3>2 DEF Idle, Resizes
    <3>. QED BY <1>4, <3>3, <3>4, <3>5 DEF Idle
  <2>2. ASSUME out'.at = "sent", ~out'.blind PROVE Fits(open', owned', out'.ops)
    <3>1. Fits(open, owned, out.ops) /\ ~Resizes(out.ops, l)
      BY <1>4, <1>5, <2>2 DEF Decided
    <3>2. ASSUME NEW ops, Batch(ops), Fits(open, owned, ops), ~Resizes(ops, l)
          PROVE  Fits(open', owned', ops)
      <4>. HIDE DEF CapInv, Bought
      <4>1. n <= open[l]
        BY DEF Bought
      <4>. QED BY <1>0, <1>1, <1>3, <3>2, <4>1, FilledFit
    <3>3. Fits(open', owned', out.ops)
      BY <1>0, <3>1, <3>2
    <3>. QED BY <1>4, <3>3
  <2>. QED BY <2>1, <2>2 DEF Decided
<1>11. SurplusIsEnough'
  <2>. SUFFICES ASSUME surplus'.good PROVE owned' + Total(Kept') <= Cap
    BY DEF SurplusIsEnough
  <2>1. surplus.good /\ l \notin surplus.levels
    BY <1>7
  <2>2. owned + Total(Kept) <= Cap
    BY <2>1 DEF SurplusIsEnough
  <2>3. Kept \in Sizes /\ Kept' \in Sizes
    BY <1>0, <1>1 DEF Kept, Sizes
  <2>4. Kept[l] = open[l] /\ Kept'[l] = open[l] - n
    BY <1>1, <1>6, <2>1 DEF Kept
  <2>5. \A k \in CapLevels : k # l => Kept'[k] = Kept[k]
    BY <1>1, <1>6 DEF Kept
  <2>6. Total(Kept') = Total(Kept) + (Kept'[l] - Kept[l]) /\ Total(Kept) \in Nat
    <3>. HIDE DEF Kept
    <3>. QED BY <2>3, <2>5, TotalOfChange
  <2>. QED BY <1>0, <1>3, <2>2, <2>4, <2>6, CapNumbers
<1>. QED BY <1>8, <1>9, <1>10, <1>11

\* The bot hears of the position or of an order.
LEMMA ToldKeeps ==
    ASSUME CapInv, PositionTold \/ \E l \in CapLevels : OrderTold(l)
    PROVE  CapInv'
<1>. USE DEF CapInv
<1>1. UNCHANGED <<owned, open, box, out, surplus, boxBlind, blind>>
  BY DEF PositionTold, OrderTold
<1>2. inventory' \in Nat /\ tracked' \in Sizes
  <2>1. CASE PositionTold
    BY <2>1 DEF PositionTold, CapTypes
  <2>2. ASSUME NEW l \in CapLevels, OrderTold(l) PROVE inventory' \in Nat /\ tracked' \in Sizes
    BY <2>2 DEF OrderTold, CapTypes, Sizes
  <2>. QED BY <2>1, <2>2
<1>3. CapTypes'
  BY <1>1, <1>2 DEF CapTypes
<1>4. ExposureWithinCap' /\ Decided' /\ SurplusIsEnough'
  BY <1>1 DEF ExposureWithinCap, Decided, SurplusIsEnough, Kept
<1>. QED BY <1>3, <1>4

\* The poller looks for orders over the cap.
LEMMA PollKeeps ==
    ASSUME CapInv, Poll
    PROVE  CapInv'
<1>. USE DEF CapInv
<1>. DEFINE far == {l \in CapLevels : open[l] > 0 /\ UpTo(l) > Cap}
<1>1. /\ surplus' = [levels |-> far, good |-> inventory = owned /\ owned <= Cap]
      /\ UNCHANGED <<owned, inventory, open, tracked, box, out, boxBlind, blind>>
  BY DEF Poll
<1>2. CapTypes'
  <2>. HIDE DEF far
  <2>1. surplus' = [levels |-> surplus'.levels, good |-> surplus'.good]
    BY <1>1
  <2>. QED BY <1>1, <2>1 DEF CapTypes
<1>3. SurplusIsEnough'
  <2>. SUFFICES ASSUME surplus'.good PROVE owned' + Total(Kept') <= Cap
    BY DEF SurplusIsEnough
  <2>1. inventory = owned /\ owned <= Cap
    <3>. HIDE DEF far
    <3>1. surplus'.good = (inventory = owned /\ owned <= Cap)
      BY <1>1
    <3>. QED BY <3>1
  <2>2. Kept' = [l \in CapLevels |-> IF open[l] > 0 /\ owned + SumTo(open, l) > Cap
                                     THEN 0 ELSE open[l]]
    <3>1. \A l \in CapLevels : l \in far <=> open[l] > 0 /\ owned + SumTo(open, l) > Cap
      BY <2>1 DEF UpTo
    <3>. HIDE DEF far
    <3>. QED BY <1>1, <3>1 DEF Kept
  <2>3. open \in Sizes /\ owned \in Nat
    BY DEF CapTypes
  <2>4. owned + Total(Kept') <= Cap
    BY <2>1, <2>2, <2>3, KeptFits
  <2>. QED BY <1>1, <2>4
<1>4. ExposureWithinCap' /\ Decided'
  <2>. HIDE DEF far
  <2>. QED BY <1>1 DEF ExposureWithinCap, Decided
<1>. QED BY <1>2, <1>3, <1>4

\* The poller cancels what it found.
LEMMA PollCancelsKeeps ==
    ASSUME CapInv, PollCancels
    PROVE  CapInv'
<1>. USE DEF CapInv, PollCancels
<1>0. open \in Sizes /\ owned \in Nat /\ Batch(box)
  BY DEF CapTypes
<1>1. open' = Kept
  BY DEF Kept
<1>2. open' \in Sizes /\ \A l \in CapLevels : open'[l] \in {0, open[l]}
  BY <1>0 DEF Sizes
<1>3. \A l \in CapLevels : open'[l] <= open[l]
  <2>. TAKE l \in CapLevels
  <2>1. open[l] \in Nat /\ open'[l] \in {0, open[l]}
    BY <1>0, <1>2 DEF Sizes
  <2>. QED BY <2>1
<1>4. Total(open') <= Total(open) /\ Total(open) \in Nat /\ Total(open') \in Nat
  BY <1>0, <1>2, <1>3, Totals
<1>5. CapTypes'
  BY <1>2 DEF CapTypes, NoSurplus
<1>6. ExposureWithinCap'
  <2>. SUFFICES ASSUME ~blind' PROVE owned' + Total(open') <= Cap
    BY DEF ExposureWithinCap
  <2>1. CASE ~blind
    <3>1. owned + Total(open) <= Cap
      BY <2>1 DEF ExposureWithinCap
    <3>. QED BY <1>0, <1>4, <3>1, CapNumbers
  <2>2. CASE surplus.good
    BY <1>1, <2>2 DEF SurplusIsEnough
  <2>. QED BY <2>1, <2>2
<1>7. Decided'
  <2>1. ASSUME box # {}, ~boxBlind PROVE out = Idle /\ Fits(open', owned, box)
    <3>1. out = Idle /\ Fits(open, owned, box)
      BY <2>1 DEF Decided
    <3>2. Fits(open', owned, box)
      BY <1>0, <1>2, <3>1, CancelledFit
    <3>. QED BY <3>1, <3>2
  <2>. QED BY <2>1 DEF Decided
<1>8. SurplusIsEnough'
  BY DEF SurplusIsEnough, NoSurplus
<1>. QED BY <1>5, <1>6, <1>7, <1>8

\* Every step keeps the invariant.
LEMMA CapKeeps == CapInv /\ [CapNext]_capVars => CapInv'
<1>. SUFFICES ASSUME CapInv, [CapNext]_capVars PROVE CapInv'
  OBVIOUS
<1>1. CASE CapTicks
  <2>1. 1 \in Nat /\ 1..MaxOrder \subseteq Nat
    OBVIOUS
  <2>. QED BY <1>1, <2>1, CapTickKeeps DEF CapTicks
<1>2. CASE Pull
  BY <1>2, PullKeeps
<1>3. CASE CapExecute
  BY <1>3, CapExecuteKeeps
<1>4. CASE CapAnswer
  BY <1>4, CapAnswerKeeps
<1>5. CASE Buys
  <2>1. 1..MaxOrder \subseteq Nat
    OBVIOUS
  <2>. QED BY <1>5, <2>1, BoughtKeeps DEF Buys
<1>6. CASE PositionTold \/ OrdersTold
  BY <1>6, ToldKeeps DEF OrdersTold
<1>7. CASE Poll
  BY <1>7, PollKeeps
<1>8. CASE PollCancels
  BY <1>8, PollCancelsKeeps
<1>9. CASE UNCHANGED capVars
  BY <1>9 DEF capVars, CapInv, CapTypes, ExposureWithinCap, Decided, SurplusIsEnough, Kept
<1>. QED BY <1>1, <1>2, <1>3, <1>4, <1>5, <1>6, <1>7, <1>8, <1>9 DEF CapNext

\* collect_order_operations and the poller together: whatever the levels, the sizes, the
\* cap and the positions, what is owned and what rests stay within the cap, unless a batch
\* was executed that was decided on a wrong view.
THEOREM ExposureIsCapped == CapSpec => []ExposureWithinCap
<1>1. CapInv => ExposureWithinCap
  BY DEF CapInv
<1>. QED BY CapStarts, CapKeeps, <1>1, PTL DEF CapSpec

-----------------------------------------------------------------------------
(* Session: no quote outlives it, and its close stops at zero. *)

\* What excuses a close that took the position through zero.
Excuses == {"call", "untold", "filled"}
LastSteps == {"stopClose", "stopWait", "verify"}

SessionTypes ==
    /\ {pos, known, want, exit} \subseteq Int
    /\ phase \in Running \cup {"ended"} /\ sender \in {"idle", "gated"}

\* A quote of the session before is gone once the startup is over, and from the
\* final cancel on there is none, unless the sender was still behind its gate.
CleanSlate ==
    /\ phase \in InTry \cup InCleanup /\ "call" \notin excuse => quote # "old"
    /\ phase \in LastSteps => tried
    /\ phase \in LastSteps \cup {"ended"} /\ excuse = {} => quote = "none"

\* What the close orders have still to do is what brings the position to zero, and
\* none is at work where the next one is placed or quotes go out.
CloseOwed ==
    excuse \cap Excuses = {} =>
        /\ exit # 0 => exit + pos = 0
        /\ phase \in {"starting", "waiting", "startClose", "trading", "stopClose"} => exit = 0
        /\ phase \in {"startClose", "stopClose"} => want = pos
        /\ ~turned

SessionInv == SessionTypes /\ CleanSlate /\ CloseOwed

\* The invariant holds at the start.
LEMMA SessionStarts == SessionInit => SessionInv
BY SessionAssumption DEF SessionInit, SessionInv, SessionTypes, CleanSlate, CloseOwed, Excuses,
   LastSteps, Running, InTry, InCleanup

\* The session ends, for a reason or after its verification.
LEMMA EndKeeps ==
    ASSUME SessionInv, NEW why, End(why), why # {} \/ phase = "verify"
    PROVE  SessionInv'
<1>. USE DEF SessionInv, End, Blame, exchangeVars, closeVars
<1>1. SessionTypes'
  BY DEF SessionTypes
<1>2. CleanSlate'
  BY DEF CleanSlate, LastSteps, InTry, InCleanup
<1>3. CloseOwed'
  BY DEF CloseOwed, Excuses
<1>. QED BY <1>1, <1>2, <1>3

\* Every step keeps the invariant.
LEMMA SessionKeeps == SessionInv /\ [SessionNext]_sessionVars => SessionInv'
<1>. SUFFICES ASSUME SessionInv, [SessionNext]_sessionVars PROVE SessionInv'
  OBVIOUS
<1>. USE DEF SessionInv, Go, Blame, exchangeVars, closeVars, Running, InTry, InCleanup, LastSteps, Excuses
<1>1. CASE Startup
  <2>1. SessionTypes'
    BY <1>1 DEF Startup, CancelAll, SessionTypes
  <2>2. CleanSlate'
    BY <1>1 DEF Startup, CancelAll, CleanSlate, Listed, NothingToCancel
  <2>3. CloseOwed'
    BY <1>1 DEF Startup, CancelAll, CloseOwed
  <2>. QED BY <2>1, <2>2, <2>3
<1>2. CASE Ready
  BY <1>2 DEF Ready, SessionTypes, CleanSlate, CloseOwed
<1>3. CASE NotReady
  BY <1>3 DEF NotReady, SessionTypes, CleanSlate, CloseOwed
<1>4. CASE Place
  <2>1. SessionTypes'
    BY <1>4 DEF Place, AfterClose, SessionTypes
  <2>2. CleanSlate'
    BY <1>4 DEF Place, AfterClose, CleanSlate
  <2>3. CloseOwed'
    <3>1. {pos, exit, want} \subseteq Int /\ exit' \in {exit, exit - want}
      BY <1>4 DEF Place, SessionTypes
    <3>2. phase \in {"startClose", "stopClose"} /\ UNCHANGED <<pos, turned, want>>
      BY <1>4 DEF Place
    <3>3. CASE "call" \in excuse'
      BY <3>3 DEF CloseOwed
    <3>4. CASE "call" \notin excuse'
      <4>1. phase' \in {"startWait", "stopWait"} /\ excuse' = excuse
        BY <1>4, <3>4 DEF Place
      <4>2. CASE excuse \cap Excuses = {}
        <5>1. exit = 0 /\ want = pos /\ ~turned
          BY <3>2, <4>2 DEF CloseOwed
        <5>2. exit' # 0 => exit' + pos' = 0
          BY <3>1, <3>2, <5>1
        <5>. QED BY <3>2, <4>1, <5>1, <5>2 DEF CloseOwed
      <4>3. CASE excuse \cap Excuses # {}
        BY <4>1, <4>3 DEF CloseOwed
      <4>. QED BY <4>2, <4>3
    <3>. QED BY <3>3, <3>4
  <2>. QED BY <2>1, <2>2, <2>3
<1>5. CASE WaitOver
  <2>1. SessionTypes'
    BY <1>5 DEF WaitOver, CloseEnds, CancelAll, AfterClose, SessionTypes
  <2>2. CleanSlate'
    BY <1>5 DEF WaitOver, CloseEnds, CancelAll, AfterClose, CleanSlate
  <2>3. CloseOwed'
    BY <1>5 DEF WaitOver, CloseEnds, CancelAll, AfterClose, CloseOwed
  <2>. QED BY <2>1, <2>2, <2>3
<1>6. CASE Post
  BY <1>6 DEF Post, SessionTypes, CleanSlate, CloseOwed
<1>7. CASE GateOpens
  BY <1>7 DEF GateOpens, SessionTypes, CleanSlate, CloseOwed
<1>8. ASSUME NEW n \in {-1, 1}, Fill(n) PROVE SessionInv'
  <2>1. SessionTypes'
    BY <1>8, SessionAssumption DEF Fill, SessionTypes
  <2>2. CleanSlate'
    BY <1>8 DEF Fill, CleanSlate
  <2>3. CloseOwed'
    BY <1>8 DEF Fill, CloseOwed, Closing
  <2>. QED BY <2>1, <2>2, <2>3
<1>9. CASE ExitFills
  <2>1. SessionTypes'
    BY <1>9 DEF ExitFills, SessionTypes
  <2>2. CleanSlate'
    BY <1>9 DEF ExitFills, CleanSlate
  <2>3. CloseOwed'
    <3>1. pos \in Int /\ exit \in Int
      BY DEF SessionTypes
    <3>2. exit # 0 /\ exit' + pos' = exit + pos
      BY <1>9, <3>1 DEF ExitFills
    <3>6. turned' = (turned \/ pos = 0)
      BY <1>9 DEF ExitFills
    <3>3. UNCHANGED <<phase, want, excuse>>
      BY <1>9 DEF ExitFills
    <3>7. pos' \in Int /\ exit' \in Int
      BY <1>9, <3>1 DEF ExitFills
    <3>4. CASE excuse \cap Excuses = {}
      <4>1. exit + pos = 0
        BY <3>2, <3>4 DEF CloseOwed
      <4>2. pos # 0
        BY <3>1, <3>2, <4>1
      <4>4. exit' + pos' = 0
        BY <3>2, <4>1
      <4>3. phase \notin {"starting", "waiting", "startClose", "trading", "stopClose"} /\ ~turned
        BY <3>2, <3>4 DEF CloseOwed
      <4>. QED BY <3>3, <3>6, <4>2, <4>3, <4>4 DEF CloseOwed
    <3>5. CASE excuse \cap Excuses # {}
      BY <3>3, <3>5 DEF CloseOwed
    <3>. QED BY <3>4, <3>5
  <2>. QED BY <2>1, <2>2, <2>3
<1>10. CASE Tell
  BY <1>10 DEF Tell, SessionTypes, CleanSlate, CloseOwed
<1>11. CASE Signal
  BY <1>11 DEF Signal, SessionTypes, CleanSlate, CloseOwed
<1>12. CASE Interrupted
  <2>1. CASE phase \in InTry
    <3>1. phase' = "teardown" /\ UNCHANGED <<exchangeVars, known, sender, closeVars, tried, excuse>>
      BY <1>12, <2>1 DEF Interrupted
    <3>. QED BY <2>1, <3>1 DEF SessionTypes, CleanSlate, CloseOwed
  <2>2. CASE phase \notin InTry
    <3>1. \E why \in {{"early signal"}, {"second signal"}} :
            End(why)
      BY <1>12, <2>2 DEF Interrupted
    <3>. QED BY <3>1, EndKeeps
  <2>. QED BY <2>1, <2>2
<1>13. CASE Teardown
  <2>1. CASE rows /\ End({"flush"})
    BY <1>13, <2>1, EndKeeps DEF Teardown
  <2>2. CASE ~(rows /\ End({"flush"}))
    <3>1. phase = "teardown" /\ phase' = "final"
      BY <1>13, <2>2 DEF Teardown, AfterTeardown
    <3>2. UNCHANGED <<rows, sender, interrupt, sessions, exchangeVars, known, closeVars, tried, excuse>>
      BY <1>13, <2>2 DEF Teardown, AfterTeardown
    <3>. QED BY <3>1, <3>2 DEF SessionTypes, CleanSlate, CloseOwed
  <2>. QED BY <2>1, <2>2
<1>14. CASE FinalCancel
  <2>1. SessionTypes'
    BY <1>14 DEF FinalCancel, CancelAll, SessionTypes
  <2>2. CleanSlate'
    BY <1>14 DEF FinalCancel, CancelAll, CleanSlate
  <2>3. CloseOwed'
    BY <1>14 DEF FinalCancel, CancelAll, CloseOwed
  <2>. QED BY <2>1, <2>2, <2>3
<1>15. CASE Verified
  BY <1>15, EndKeeps DEF Verified
<1>16. CASE SessionCrash
  BY <1>16, EndKeeps DEF SessionCrash
<1>17. CASE NextSession
  BY <1>17 DEF NextSession, SessionTypes, CleanSlate, CloseOwed
<1>18. CASE UNCHANGED sessionVars
  BY <1>18 DEF sessionVars, SessionTypes, CleanSlate, CloseOwed
<1>. QED BY <1>1, <1>2, <1>3, <1>4, <1>5, <1>6, <1>7, <1>8, <1>9, <1>10, <1>11, <1>12,
            <1>13, <1>14, <1>15, <1>16, <1>17, <1>18 DEF SessionNext

\* The invariant holds throughout.
LEMMA SessionIsInv == SessionSpec => []SessionInv
BY SessionStarts, SessionKeeps, PTL DEF SessionSpec

\* Trading never begins over the quotes of an earlier session unless a cancel failed, and
\* a session leaves none behind unless one of the listed excuses came to pass, however
\* often it retries.
THEOREM SlateIsClean == SessionSpec => []NoOrphanQuotes
<1>1. SessionInv => NoOrphanQuotes
  BY DEF SessionInv, CleanSlate, NoOrphanQuotes
<1>. QED BY <1>1, SessionIsInv, PTL

\* The emergency close takes no position through zero, however many rounds it needs,
\* unless a call failed, a quote filled meanwhile or a change of the position was not
\* told.
THEOREM CloseNeverTurns == SessionSpec => []CloseStopsAtFlat
<1>1. SessionInv => CloseStopsAtFlat
  BY DEF SessionInv, CloseOwed, CloseStopsAtFlat, Excuses
<1>. QED BY <1>1, SessionIsInv, PTL
=============================================================================
