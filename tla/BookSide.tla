------------------------------ MODULE BookSide ------------------------------
(***************************************************************************)
(* CBookSide, the sorted arrays that hold a side of an order book: binary  *)
(* search, shifting inserts and removals, growth by doubling, and snapshot *)
(* loads that fill the arrays directly.  Cells are numbered from 0, as in  *)
(* the code; a cell from count on holds what was last left there.          *)
(*                                                                         *)
(* A price and its size move together in every operation, so one array of  *)
(* levels stands for _prices and _sizes.                                   *)
(***************************************************************************)
EXTENDS Integers, Sequences, FiniteSetsExt

CONSTANTS BookPrices, Amounts, Bounds, MaxItems,
          InitialCapacity       \* INITIAL_CAPACITY

ASSUME SideAssumption ==
    /\ BookPrices \subseteq Nat /\ Amounts \subseteq Nat /\ Bounds \subseteq Nat
    /\ MaxItems \in Nat /\ InitialCapacity \in Nat \ {0}

VARIABLES
    cells,      \* _prices, _sizes: [0.._capacity - 1 -> level]
    count,      \* _count
    answer      \* what the last read returned

sideVars == <<cells, count, answer>>

Map == INSTANCE SideMap WITH
    map <- [p \in {cells[i].price : i \in 0..(count - 1)} |->
                cells[CHOOSE i \in 0..(count - 1) : cells[i].price = p].size]

Items == [price : BookPrices, size : Amounts]
Messages == UNION {[1..n -> Items] : n \in 0..MaxItems}
OncePerPrice(msg) == \A i, j \in DOMAIN msg : msg[i].price = msg[j].price => i = j

Level(p, n) == [price |-> p, size |-> n]
NoLevel == Level(0, 0)
Capacity(c) == Cardinality(DOMAIN c)

SideInit ==
    /\ cells = [i \in 0..(InitialCapacity - 1) |-> NoLevel]
    /\ count = 0 /\ answer = Map!Unasked

-----------------------------------------------------------------------------
(* Binary search, over the cells below n. *)

\* Mutant: a level at the price counts as one before it.
AfterEqual(c, n, price) == \* as _bisect_right
    LET at[r \in (0..n) \X (0..n)] ==
            LET mid == (r[1] + r[2]) \div 2
            IN  IF r[1] >= r[2] THEN r[1]
                ELSE at[IF c[mid].price <= price THEN <<mid + 1, r[2]>> ELSE <<r[1], mid>>]
    IN  at[<<0, n>>]

\* The first cell whose price is at least this one.
BisectLeft(c, n, price) ==
    LET at[r \in (0..n) \X (0..n)] ==
            LET mid == (r[1] + r[2]) \div 2
            IN  IF r[1] >= r[2] THEN r[1]
                ELSE at[IF c[mid].price < price THEN <<mid + 1, r[2]>> ELSE <<r[1], mid>>]
    IN  at[<<0, n>>]

BisectRight(c, n, price) ==
    LET at[r \in (0..n) \X (0..n)] ==
            LET mid == (r[1] + r[2]) \div 2
            IN  IF r[1] >= r[2] THEN r[1]
                ELSE at[IF c[mid].price <= price THEN <<mid + 1, r[2]>> ELSE <<r[1], mid>>]
    IN  at[<<0, n>>]

Found(c, n, i, price) == i < n /\ c[i].price = price

-----------------------------------------------------------------------------
(* Writes: each takes and returns [c |-> cells, n |-> count]. *)

\* _ensure_capacity: doubled when full.
Ensured(c, n) ==
    IF n < Capacity(c) THEN c
    ELSE [i \in 0..(2 * Capacity(c) - 1) |-> IF i \in DOMAIN c THEN c[i] ELSE NoLevel]

\* _c_insert: an equal price is updated, else the rest moves right by one.
Insert(s, price, size) ==
    LET i == BisectLeft(s.c, s.n, price)
        wide == Ensured(s.c, s.n)
    IN  IF Found(s.c, s.n, i, price) THEN [s EXCEPT !.c[i] = Level(price, size)]
        ELSE [c |-> [j \in DOMAIN wide |->
                        IF j = i THEN Level(price, size)
                        ELSE IF j \in (i + 1)..s.n THEN wide[j - 1] ELSE wide[j]],
              n |-> s.n + 1]

\* _c_remove, pop: the rest moves left by one, and the last cell keeps its level.
TakeOut(s, price) ==
    LET i == BisectLeft(s.c, s.n, price)
    IN  IF ~Found(s.c, s.n, i, price) THEN s
        ELSE [c |-> [j \in DOMAIN s.c |-> IF j \in i..(s.n - 2) THEN s.c[j + 1] ELSE s.c[j]],
              n |-> s.n - 1]

\* apply_delta_from_wire, apply_delta_from_binance.
Delta(msg) ==
    LET put[k \in 0..Len(msg)] ==
            IF k = 0 THEN [c |-> cells, n |-> count]
            ELSE IF msg[k].size = 0 THEN TakeOut(put[k - 1], msg[k].price)
            ELSE Insert(put[k - 1], msg[k].price, msg[k].size)
    IN  /\ cells' = put[Len(msg)].c /\ count' = put[Len(msg)].n
        /\ answer' = Map!Asked

\* The capacity that holds n levels: with _count kept at the capacity, every
\* _ensure_capacity doubles.
Grown(c, n) ==
    LET wide[cap \in Nat] == IF cap >= n THEN cap ELSE wide[2 * cap]
    IN  [i \in 0..(wide[Capacity(c)] - 1) |-> IF i \in DOMAIN c THEN c[i] ELSE NoLevel]

\* apply_snapshot_from_wire, apply_snapshot_from_binance: sorted once, levels
\* without size left out, and an empty one only resets the count.
LoadSnapshot(msg) ==
    LET kept == {msg[i] : i \in {j \in DOMAIN msg : msg[j].size > 0}}
        n == Cardinality(kept)
        sorted == [i \in 0..(n - 1) |->
            CHOOSE l \in kept : Cardinality({k \in kept : k.price < l.price}) = i]
        wide == Grown(cells, n)
    IN  /\ cells' = IF n = 0 THEN cells
                    ELSE [i \in DOMAIN wide |-> IF i < n THEN sorted[i] ELSE wide[i]]
        /\ count' = n
        /\ answer' = Map!Asked

-----------------------------------------------------------------------------
(* Reads. *)

SumCells(lo, hi) == MapThenSumSet(LAMBDA i : cells[i].size, lo..hi)

Returned(query) ==
    CASE query.q = "from" -> SumCells(BisectLeft(cells, count, query.at), count - 1)
      [] query.q = "to" -> SumCells(0, BisectRight(cells, count, query.at) - 1)
      [] query.q = "size" ->
            LET i == BisectLeft(cells, count, query.at)
            IN  IF Found(cells, count, i, query.at) THEN cells[i].size ELSE 0
      [] query.q = "rank" ->
            LET i == IF query.at >= 0 THEN query.at ELSE count + query.at
            IN  IF i < 0 \/ i >= count THEN {} ELSE {<<cells[i].price, cells[i].size>>}

AskSide(query) ==
    /\ answer' = [q |-> query, r |-> Returned(query)]
    /\ UNCHANGED <<cells, count>>

-----------------------------------------------------------------------------

SideNext ==
    \/ \E msg \in Messages : Delta(msg)
    \/ \E msg \in Messages : OncePerPrice(msg) /\ LoadSnapshot(msg)
    \/ \E query \in Map!Queries : AskSide(query)

SideSpec == SideInit /\ [][SideNext]_sideVars

\* The arrays are the map and every read returns what the map holds, through any
\* run of inserts, removals, growth and snapshots: search, shift and reuse of the
\* arrays never lose, repeat or misplace a level.
SideIsMap == Map!Spec
=============================================================================
