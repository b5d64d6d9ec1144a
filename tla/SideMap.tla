------------------------------ MODULE SideMap ------------------------------
(***************************************************************************)
(* What one side of an order book promises its users: a finite map from    *)
(* price to size, written by snapshots and deltas, and read by rank, by    *)
(* range and by sums over a range.                                         *)
(***************************************************************************)
EXTENDS Integers, FiniteSetsExt

CONSTANTS
    BookPrices,         \* the prices levels may have
    Amounts,        \* sizes; 0 in a message takes a level away
    Bounds,         \* the bounds a reader may ask for
    MaxItems        \* bound: prices in a message

\* What a message tells: a size for each of at most MaxItems prices.
Tellings == UNION {[set -> Amounts] : set \in {x \in SUBSET BookPrices : Cardinality(x) <= MaxItems}}

Queries == [q : {"from", "to", "size"}, at : Bounds] \cup [q : {"rank"}, at : -2..1]

VARIABLES map, answer
vars == <<map, answer>>

\* What the user holds before it has asked, and after a write.
Unasked == [q |-> [q |-> "nothing", at |-> 0]]
Asked == [q |-> [q |-> "written", at |-> 0]]

\* Told sizes replace what the map holds, and size 0 takes the level away.
SizeIn(m, told, p) ==
    IF p \in DOMAIN told THEN told[p] ELSE IF p \in DOMAIN m THEN m[p] ELSE 0

Written(m, told) ==
    [p \in {x \in DOMAIN m \cup DOMAIN told : SizeIn(m, told, x) > 0} |-> SizeIn(m, told, p)]

SumOver(m, set) == MapThenSumSet(LAMBDA p : m[p], set)

\* The level with so many below it, or, for a negative rank, above it.
RankOf(m, p) == Cardinality({x \in DOMAIN m : x < p})

Reply(m, query) ==
    CASE query.q = "from" -> SumOver(m, {p \in DOMAIN m : p >= query.at})
      [] query.q = "to" -> SumOver(m, {p \in DOMAIN m : p <= query.at})
      [] query.q = "size" -> IF query.at \in DOMAIN m THEN m[query.at] ELSE 0
      [] query.q = "rank" ->
            LET n == Cardinality(DOMAIN m)
                rank == IF query.at < 0 THEN n + query.at ELSE query.at
            IN  {<<p, m[p]>> : p \in {x \in DOMAIN m : RankOf(m, x) = rank}}

Init == map = [p \in {} |-> 0] /\ answer = Unasked

\* A delta changes the map, a snapshot replaces it.
Write ==
    /\ answer' = Asked
    /\ \E told \in Tellings, old \in {map, [p \in {} |-> 0]} : map' = Written(old, told)

Read ==
    /\ answer'.q \in Queries
    /\ answer' = [q |-> answer'.q, r |-> Reply(map, answer'.q)]
    /\ UNCHANGED map

Next == Write \/ Read

Spec == Init /\ [][Next]_vars
=============================================================================
