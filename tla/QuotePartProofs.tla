-------------------------- MODULE QuotePartProofs --------------------------
(***************************************************************************)
(* Proofs about the quotes, their dry run and grid, the trade log, the     *)
(* research files and the sides of the book, for every value of their      *)
(* constants.  MCQuoteParts runs the same parts on a small instance; the   *)
(* last theorem is about that composition of theirs.                       *)
(***************************************************************************)
EXTENDS MCQuoteParts, EstimateProofs

-----------------------------------------------------------------------------
(* DryRun: what a slot shows, and what the wallet adds up to. *)

SimOrders == [side : DrySides, price : Int, size : Nat, eligible : BOOLEAN, arrived : BOOLEAN,
              next : Int, nextSize : Nat, cancel : {"no", "sent", "due"}]
Wallets == [pos : Int, margin : Int, realized : Int, cap : Int]
Sound(w) == w \in Wallets /\ Balanced(w)

OrdersLive ==
    /\ DOMAIN live \subseteq DrySides /\ slot = [s \in DrySides |-> slot[s]]
    /\ \A s \in DOMAIN live : live[s] \in SimOrders

WalletsSound ==
    /\ rate \in Int /\ Sound(wallet)
    /\ file = NoFile \/ Sound(file)
    /\ \A j \in jobs : /\ j = [at |-> j.at, wallet |-> j.wallet, rows |-> j.rows]
                       /\ Sound(j.wallet)

DryInv == OrdersLive /\ SlotShowsOrder /\ WalletsSound

\* The numbers of the dry run.
LEMMA DryNumbers == MaxSize \in Nat /\ Fee \in Nat /\ Capital \in Nat
BY DryAssumption

\* A position that is closed gives back its whole margin.
LEMMA WholeMargin ==
    ASSUME NEW m \in Int, NEW p \in Nat \ {0}
    PROVE  (m * p) \div p = m
OBVIOUS

\* A part of a margin is a whole number of units.
LEMMA PartOfMargin ==
    ASSUME NEW x \in Int, NEW p \in Nat \ {0}
    PROVE  x \div p \in Int
OBVIOUS

\* A fill leaves a wallet that adds up: what it moves between capital, margin and
\* result has the sum it had, less the fee.
LEMMA FilledIsSound ==
    ASSUME NEW side \in DrySides, NEW w, Sound(w), NEW size \in Nat, NEW price \in Int,
           NEW fee \in Int
    PROVE  Sound(Filled(side, w, size, price, fee))
<1>. DEFINE p == Size(w.pos)
            reduced == IF Reducing(side, w.pos) THEN Least(size, p) ELSE 0
            released == IF reduced = 0 THEN 0 ELSE (w.margin * reduced) \div p
            cost == reduced * price
            rest == (size - reduced) * price
            pnl == IF side = "sell" THEN cost - released ELSE released - cost
            turned == Reducing(side, w.pos) /\ size > reduced
<1>1. /\ w.pos \in Int /\ w.margin \in Int /\ w.realized \in Int /\ w.cap \in Int
      /\ w.cap + w.margin = Capital + w.realized
  BY DEF Sound, Wallets, Balanced
<1>2. p \in Nat /\ (Reducing(side, w.pos) => p \in Nat \ {0})
  BY <1>1 DEF Size, Reducing
<1>. HIDE DEF p
<1>3. reduced \in Nat /\ size - reduced \in Int /\ (reduced # 0 => p \in Nat \ {0})
      /\ (turned => reduced = p) /\ (Reducing(side, w.pos) /\ ~turned => size = reduced)
      /\ (~Reducing(side, w.pos) => reduced = 0)
  BY <1>2 DEF Least
<1>. HIDE DEF reduced
<1>4. released \in Int /\ (turned => released = w.margin)
  <2>1. CASE reduced = 0
    <3>1. ~turned
      BY <1>2, <1>3, <2>1
    <3>. QED BY <2>1, <3>1
  <2>2. CASE reduced # 0
    <3>1. released = (w.margin * reduced) \div p /\ p \in Nat \ {0}
      BY <1>3, <2>2
    <3>2. w.margin * reduced \in Int
      BY <1>1, <1>3
    <3>3. released \in Int
      <4>. HIDE DEF released
      <4>. QED BY <3>1, <3>2, PartOfMargin
    <3>4. ASSUME turned PROVE released = w.margin
      <4>1. released = (w.margin * p) \div p
        BY <1>3, <3>1, <3>4
      <4>. HIDE DEF released
      <4>. QED BY <1>1, <3>1, <4>1, WholeMargin
    <3>. HIDE DEF released, turned
    <3>. QED BY <3>3, <3>4
  <2>. QED BY <2>1, <2>2
<1>5. cost \in Int /\ rest \in Int
  BY <1>3
<1>6. pnl \in Int
  <2>. HIDE DEF cost, released
  <2>. QED BY <1>4, <1>5
<1>7. MarginTaken(side, w, size, price) = rest
  <2>1. CASE Reducing(side, w.pos)
    BY <2>1 DEF MarginTaken, p, reduced
  <2>2. CASE ~Reducing(side, w.pos)
    <3>1. reduced = 0
      BY <1>3, <2>2
    <3>. QED BY <2>2, <3>1 DEF MarginTaken
  <2>. QED BY <2>1, <2>2
<1>8. ~turned => Reducing(side, w.pos) \/ released = 0
  BY <1>3
<1>. DEFINE new == [pos |-> IF side = "buy" THEN w.pos + size ELSE w.pos - size,
                    margin |-> IF turned THEN rest ELSE w.margin - released + rest,
                    realized |-> w.realized + pnl - fee,
                    cap |-> w.cap + released + pnl - fee - rest]
<1>9. Filled(side, w, size, price, fee) = new
  BY <1>7 DEF Filled, p, reduced
<1>. HIDE DEF cost, rest, released, pnl, turned
<1>10. new \in Wallets
  BY <1>1, <1>4, <1>5, <1>6 DEF Wallets
<1>11. new.cap + new.margin = Capital + new.realized
  <2>1. CASE turned
    BY <1>1, <1>4, <1>5, <1>6, <2>1, DryNumbers
  <2>2. CASE ~turned
    BY <1>1, <1>4, <1>5, <1>6, <2>2, DryNumbers
  <2>. QED BY <2>1, <2>2
<1>. HIDE DEF new
<1>. QED BY <1>9, <1>10, <1>11 DEF Sound, Balanced

\* The invariant holds at the start.
LEMMA DryStarts == DryInit => DryInv
<1>. SUFFICES ASSUME DryInit PROVE DryInv
  OBVIOUS
<1>1. DOMAIN live = {}
  BY DEF DryInit
<1>2. OrdersLive /\ SlotShowsOrder
  BY <1>1 DEF OrdersLive, SlotShowsOrder, DryInit
<1>3. WalletsSound
  BY DryNumbers DEF DryInit, WalletsSound, Sound, Wallets, Balanced, Fresh, NoFile
<1>. QED BY <1>2, <1>3 DEF DryInv

\* Where neither the wallet nor the disk is touched.
LEMMA SoundStays ==
    ASSUME WalletsSound, UNCHANGED <<walletVars, diskVars>>
    PROVE  WalletsSound'
BY DEF WalletsSound, walletVars, diskVars, Sound, Balanced

\* One field of an order changed, and the fields a modify changes.
LEMMA OneField ==
    ASSUME NEW r \in SimOrders, NEW p \in Int, NEW n \in Nat
    PROVE  /\ [r EXCEPT !.next = p] \in SimOrders /\ [r EXCEPT !.next = p].price = r.price
           /\ [r EXCEPT !.next = p].size = r.size
           /\ [r EXCEPT !.price = p] \in SimOrders /\ [r EXCEPT !.size = n] \in SimOrders
           /\ [r EXCEPT !.nextSize = n] \in SimOrders /\ [r EXCEPT !.nextSize = n].price = r.price
           /\ [r EXCEPT !.nextSize = n].size = r.size
<1>1. /\ [r EXCEPT !.next = p] \in SimOrders /\ [r EXCEPT !.next = p].price = r.price
      /\ [r EXCEPT !.next = p].size = r.size
  BY DEF SimOrders
<1>2. [r EXCEPT !.price = p] \in SimOrders /\ [r EXCEPT !.size = n] \in SimOrders
  BY DEF SimOrders
<1>3. /\ [r EXCEPT !.nextSize = n] \in SimOrders /\ [r EXCEPT !.nextSize = n].price = r.price
      /\ [r EXCEPT !.nextSize = n].size = r.size
  BY DEF SimOrders
<1>. QED BY <1>1, <1>2, <1>3

\* An order that waits for its latency is the order it was.
LEMMA NotEligible ==
    ASSUME NEW r \in SimOrders
    PROVE  /\ [r EXCEPT !.eligible = FALSE] \in SimOrders
           /\ [r EXCEPT !.eligible = FALSE].price = r.price
           /\ [r EXCEPT !.eligible = FALSE].size = r.size
BY DEF SimOrders

\* An order is created.
LEMMA CreateShows ==
    ASSUME DryInv, NEW side \in DrySides, NEW price \in Prices, NEW size \in 1..MaxSize,
           NEW top, Create(side, price, size, top)
    PROVE  DryInv'
<1>. DEFINE new == [side |-> side, price |-> price, size |-> size, eligible |-> FALSE,
                    arrived |-> FALSE, next |-> 0, nextSize |-> 0, cancel |-> "no"]
<1>1. /\ live' = [s \in DOMAIN live \cup {side} |-> IF s # side THEN live[s] ELSE new]
      /\ slot' = [slot EXCEPT ![side] = SlotOf(live'[side])]
  BY DEF Create
<1>2. new \in SimOrders
  BY DryNumbers DEF SimOrders, Prices
<1>. HIDE DEF new
<1>3. OrdersLive'
  BY <1>1, <1>2 DEF DryInv, OrdersLive
<1>4. SlotShowsOrder'
  <2>1. DOMAIN live' = DOMAIN live \cup {side} /\ \A s \in DOMAIN live : s # side => live'[s] = live[s]
    BY <1>1
  <2>2. slot'[side] = SlotOf(live'[side]) /\ \A s \in DrySides : s # side => slot'[s] = slot[s]
    BY <1>1 DEF DryInv, OrdersLive
  <2>. QED BY <2>1, <2>2 DEF DryInv, SlotShowsOrder
<1>5. WalletsSound'
  BY SoundStays DEF DryInv, Create, OrderRest
<1>. QED BY <1>3, <1>4, <1>5 DEF DryInv

\* An order is modified.
LEMMA ModifyShows ==
    ASSUME DryInv, NEW side \in DrySides, NEW price \in Prices, NEW size \in 1..MaxSize,
           NEW top, Modify(side, price, size, top)
    PROVE  DryInv'
<1>. DEFINE new == [live[side] EXCEPT !.next = price, !.nextSize = size, !.eligible = FALSE]
<1>1. live' = [live EXCEPT ![side] = new] /\ slot' = slot /\ side \in DOMAIN live
  BY DEF Modify, BoundLater
<1>2. new \in SimOrders /\ new.price = live[side].price /\ new.size = live[side].size
  <2>1. live[side] \in SimOrders
    BY <1>1 DEF DryInv, OrdersLive
  <2>2. price \in Int /\ size \in Nat
    BY DryNumbers DEF Prices
  <2>. DEFINE o == live[side]
              a == [o EXCEPT !.next = price]  b == [a EXCEPT !.nextSize = size]
              c == [b EXCEPT !.eligible = FALSE]
  <2>3. a \in SimOrders /\ a.price = o.price /\ a.size = o.size
    BY <2>1, <2>2, OneField
  <2>. HIDE DEF a
  <2>4. b \in SimOrders /\ b.price = o.price /\ b.size = o.size
    BY <2>2, <2>3, OneField
  <2>. HIDE DEF b
  <2>5. c \in SimOrders /\ c.price = o.price /\ c.size = o.size
    BY <2>4, NotEligible
  <2>. QED BY <2>5 DEF a, b
<1>. HIDE DEF new
<1>3. OrdersLive'
  BY <1>1, <1>2 DEF DryInv, OrdersLive
<1>4. SlotShowsOrder'
  BY <1>1, <1>2 DEF DryInv, SlotShowsOrder, SlotOf
<1>5. WalletsSound'
  BY SoundStays DEF DryInv, Modify, OrderRest
<1>. QED BY <1>3, <1>4, <1>5 DEF DryInv

\* A cancel and a latency leave price and size of every order alone.
LEMMA SameQuotes ==
    ASSUME DryInv, DOMAIN live' = DOMAIN live,
           \A s \in DOMAIN live : /\ live'[s] \in SimOrders
                                  /\ live'[s].price = live[s].price
                                  /\ live'[s].size = live[s].size,
           slot' = slot, UNCHANGED <<walletVars, diskVars>>
    PROVE  DryInv'
<1>1. OrdersLive'
  BY DEF DryInv, OrdersLive
<1>2. SlotShowsOrder'
  BY DEF DryInv, SlotShowsOrder, SlotOf
<1>3. WalletsSound'
  BY SoundStays DEF DryInv
<1>. QED BY <1>1, <1>2, <1>3 DEF DryInv

\* An order is cancelled.
LEMMA CancelShows ==
    ASSUME DryInv, NEW side \in DrySides, Cancel(side)
    PROVE  DryInv'
<1>1. live' = [i \in DOMAIN live |-> IF i = side THEN [live[i] EXCEPT !.cancel = "sent"] ELSE live[i]]
  BY DEF Cancel
<1>2. DOMAIN live' = DOMAIN live
  BY <1>1
<1>3. \A s \in DOMAIN live : /\ live'[s] \in SimOrders /\ live'[s].price = live[s].price
                             /\ live'[s].size = live[s].size
  <2>. TAKE s \in DOMAIN live
  <2>1. live[s] \in SimOrders
    BY DEF DryInv, OrdersLive
  <2>2. live'[s] = IF s = side THEN [live[s] EXCEPT !.cancel = "sent"] ELSE live[s]
    BY <1>1
  <2>3. CASE s # side
    BY <2>1, <2>2, <2>3
  <2>4. CASE s = side
    <3>1. live'[s] = [live[s] EXCEPT !.cancel = "sent"]
      BY <2>2, <2>4
    <3>. QED BY <2>1, <3>1 DEF SimOrders
  <2>. QED BY <2>3, <2>4
<1>4. slot' = slot
  <2>1. slot' = [slot EXCEPT ![side] = IF side \in DOMAIN live THEN slot[side] ELSE NoSlot]
    BY DEF Cancel
  <2>2. side \notin DOMAIN live => slot[side] = NoSlot
    BY DEF DryInv, SlotShowsOrder
  <2>3. slot = [s \in DrySides |-> slot[s]]
    BY DEF DryInv, OrdersLive
  <2>. QED BY <2>1, <2>2, <2>3
<1>. QED BY <1>2, <1>3, <1>4, SameQuotes DEF Cancel, OrderRest

\* The latency of an order is over.
LEMMA LatencyShows ==
    ASSUME DryInv, NEW side \in DOMAIN live, Latency(side)
    PROVE  DryInv'
<1>. DEFINE to == IF live' = [live EXCEPT ![side].eligible = TRUE]
                  THEN [live[side] EXCEPT !.eligible = TRUE]
                  ELSE [live[side] EXCEPT !.cancel = "due"]
<1>1. live' = [live EXCEPT ![side] = to]
  BY DEF Latency
<1>2. live[side] \in SimOrders
  BY DEF DryInv, OrdersLive
<1>3. to \in SimOrders /\ to.price = live[side].price /\ to.size = live[side].size
  BY <1>2 DEF SimOrders
<1>. HIDE DEF to
<1>4. \A s \in DOMAIN live : /\ live'[s] \in SimOrders /\ live'[s].price = live[s].price
                             /\ live'[s].size = live[s].size
  BY <1>1, <1>3 DEF DryInv, OrdersLive
<1>5. DOMAIN live' = DOMAIN live
  BY <1>1
<1>. QED BY <1>4, <1>5, SameQuotes DEF Latency, OrderRest

\* What a fill pass makes of one order.
LEMMA LandedIs ==
    ASSUME NEW o \in SimOrders, NEW top
    PROVE  /\ Landed(o, top) \in SimOrders
           /\ o.next = 0 \/ ~o.eligible => Landed(o, top) = o
<1>. DEFINE to == Landed(o, top)
<1>1. \/ to = o \/ to = [o EXCEPT !.next = 0]
      \/ to = [o EXCEPT !.price = o.next, !.size = o.nextSize, !.next = 0]
  BY DEF Landed
<1>2. o.next = 0 \/ ~o.eligible => to = o
  BY DEF Landed
<1>. HIDE DEF to
<1>3. o.next \in Int /\ o.nextSize \in Nat /\ 0 \in Int
  BY DEF SimOrders
<1>. DEFINE p == o.next  m == o.nextSize
<1>. HIDE DEF p, m
<1>4. p \in Int /\ m \in Nat /\ 0 \in Int
  BY <1>3 DEF p, m
<1>5. [o EXCEPT !.next = 0] \in SimOrders
      /\ [[[o EXCEPT !.price = p] EXCEPT !.size = m] EXCEPT !.next = 0] \in SimOrders
  BY <1>4, OneField
<1>6. to \in SimOrders
  BY <1>1, <1>5 DEF p, m
<1>. QED BY <1>2, <1>6 DEF to

\* A pass takes no more of an order than there is.
LEMMA TakesIs ==
    ASSUME NEW o \in SimOrders, NEW found \in Nat, NEW top
    PROVE  Takes(o, found, top) \in Nat /\ Takes(o, found, top) <= o.size
<1>1. o.size \in Nat
  BY DEF SimOrders
<1>. QED BY <1>1 DEF Takes, Least

\* A pass leaves an order at its price with what it did not take.
LEMMA AfterIs ==
    ASSUME NEW o \in SimOrders, NEW found \in Nat, NEW top
    PROVE  /\ After(o, found, top) \in SimOrders
           /\ After(o, found, top).price = o.price
           /\ After(o, found, top).size = o.size - Takes(o, found, top)
<1>. DEFINE n == Takes(o, found, top)
            a == After(o, found, top)
            b == o.arrived \/ ~UnderWay(o)
<1>1. n \in Nat /\ n <= o.size
  BY TakesIs
<1>2. b \in BOOLEAN
  OBVIOUS
<1>3. a = [o EXCEPT !.size = o.size - n, !.arrived = b]
  BY DEF After
<1>. HIDE DEF n, b, a
<1>4. o.size - n \in Nat
  BY <1>1 DEF SimOrders
<1>5. a \in SimOrders /\ a.price = o.price /\ a.size = o.size - n
  BY <1>2, <1>3, <1>4 DEF SimOrders
<1>. QED BY <1>5 DEF a, n

\* A pass over the live orders, in any order of its sides.
LEMMA CheckFillsShows ==
    ASSUME DryInv, NEW found \in Nat, NEW top, CheckFills(found, top)
    PROVE  DryInv'
<1>. DEFINE o == [s \in DOMAIN live |-> Landed(live[s], top)]
            left == {s \in DOMAIN live : ~Gone(o[s], found, top)}
            n == [s \in DrySides |-> IF s \in DOMAIN live THEN Takes(o[s], found, top) ELSE 0]
            Fill(s, w) == IF n[s] = 0 THEN w
                          ELSE Filled(s, w, n[s], o[s].price, rate * n[s])
<1>1. /\ live' = [s \in left |-> After(o[s], found, top)]
      /\ slot' = [s \in DrySides |->
            IF s \in DOMAIN live \ left THEN NoSlot
            ELSE IF s \in left /\ Rebound(s, found, top) THEN SlotOf(live'[s])
            ELSE slot[s]]
      /\ wallet' = Fill("sell", Fill("buy", wallet))
      /\ UNCHANGED <<rate, file, jobs>>
  BY DEF CheckFills
<1>2. DOMAIN live \subseteq DrySides /\ \A s \in DOMAIN live : live[s] \in SimOrders
  BY DEF DryInv, OrdersLive
<1>3. \A s \in DOMAIN live : o[s] \in SimOrders /\ (live[s].next = 0 \/ ~live[s].eligible => o[s] = live[s])
  BY <1>2, LandedIs
<1>4. \A s \in DOMAIN live : o[s] = Landed(live[s], top)
  OBVIOUS
<1>5. left \subseteq DOMAIN live
  OBVIOUS
<1>6. \A s \in DOMAIN live : n[s] = Takes(o[s], found, top) /\ n[s] \in Nat
  BY <1>2, <1>3, TakesIs
<1>7. \A s \in DrySides : n[s] \in Nat /\ (n[s] # 0 => s \in DOMAIN live)
  BY <1>6
<1>. HIDE DEF o, n, left
<1>8. OrdersLive'
  <2>1. DOMAIN live' = left
    BY <1>1
  <2>2. \A s \in left : live'[s] \in SimOrders
    BY <1>1, <1>3, <1>5, AfterIs
  <2>3. slot' = [s \in DrySides |-> slot'[s]]
    BY <1>1
  <2>. QED BY <1>2, <1>5, <2>1, <2>2, <2>3 DEF OrdersLive
<1>9. SlotShowsOrder'
  <2>. SUFFICES ASSUME NEW s \in DrySides
                PROVE  slot'[s] = IF s \in DOMAIN live' THEN SlotOf(live'[s]) ELSE NoSlot
    BY DEF SlotShowsOrder
  <2>1. slot[s] = IF s \in DOMAIN live THEN SlotOf(live[s]) ELSE NoSlot
    BY DEF DryInv, SlotShowsOrder
  <2>2. DOMAIN live' = left
    BY <1>1
  <2>3. slot'[s] = IF s \in DOMAIN live \ left THEN NoSlot
                   ELSE IF s \in left /\ Rebound(s, found, top) THEN SlotOf(live'[s])
                   ELSE slot[s]
    BY <1>1
  <2>4. CASE s \notin left
    BY <1>5, <2>1, <2>2, <2>3, <2>4
  <2>5. CASE s \in left /\ Rebound(s, found, top)
    BY <2>2, <2>3, <2>5
  <2>6. CASE s \in left /\ ~Rebound(s, found, top)
    <3>1. live[s].next = 0 \/ ~live[s].eligible
      BY <2>6 DEF Rebound
    <3>2. o[s] = live[s] /\ n[s] = 0
      <4>1. ~(Takes(o[s], found, top) > 0)
        BY <1>4, <1>5, <2>6 DEF Rebound
      <4>. QED BY <1>3, <1>5, <1>6, <2>6, <3>1, <4>1
    <3>3. live'[s].price = o[s].price /\ live'[s].size = o[s].size - n[s]
      BY <1>1, <1>3, <1>5, <1>6, <2>6, AfterIs
    <3>4. o[s].size - n[s] = live[s].size
      BY <1>2, <1>5, <2>6, <3>2 DEF SimOrders
    <3>5. SlotOf(live'[s]) = SlotOf(live[s])
      BY <3>2, <3>3, <3>4 DEF SlotOf
    <3>. QED BY <1>5, <2>1, <2>2, <2>3, <2>6, <3>5
  <2>. QED BY <2>4, <2>5, <2>6
<1>10. WalletsSound'
  <2>1. Sound(wallet) /\ rate \in Int
    BY DEF DryInv, WalletsSound
  <2>2. ASSUME NEW s \in DrySides, NEW w, Sound(w) PROVE Sound(Fill(s, w))
    <3>1. CASE n[s] = 0
      BY <2>2, <3>1
    <3>2. CASE n[s] # 0
      <4>1. n[s] \in Nat /\ rate * n[s] \in Int
        BY <1>7, <2>1
      <4>2. o[s].price \in Int
        BY <1>3, <1>7, <3>2 DEF SimOrders
      <4>3. Sound(Filled(s, w, n[s], o[s].price, rate * n[s]))
        BY <2>2, <4>1, <4>2, FilledIsSound
      <4>. QED BY <3>2, <4>3
    <3>. QED BY <3>1, <3>2
  <2>3. "buy" \in DrySides /\ "sell" \in DrySides
    BY DEF DrySides
  <2>. HIDE DEF Fill
  <2>4. Sound(Fill("buy", wallet))
    BY <2>1, <2>2, <2>3
  <2>5. Sound(Fill("sell", Fill("buy", wallet)))
    BY <2>2, <2>3, <2>4
  <2>6. Sound(wallet')
    BY <1>1, <2>5
  <2>7. Sound(wallet)' <=> Sound(wallet')
    BY DEF Sound, Balanced
  <2>8. /\ file' = file /\ jobs' = jobs /\ rate' = rate
        /\ Sound(file)' <=> Sound(file)
        /\ \A j : Sound(j)' <=> Sound(j)
    BY <1>1 DEF Sound, Balanced
  <2>. QED BY <2>6, <2>8 DEF DryInv, WalletsSound, Sound, Balanced
<1>. QED BY <1>8, <1>9, <1>10 DEF DryInv

\* The disk is sound when the file and the jobs are.
LEMMA JobsKeep ==
    ASSUME WalletsSound, rate' = rate, wallet' = wallet, NEW w, Sound(w),
           file' = file \/ file' = w,
           \A j \in jobs' : j \in jobs \/ \E at, rows : j = [at |-> at, wallet |-> w, rows |-> rows]
    PROVE  WalletsSound'
<1>1. \A x : Sound(x)' <=> Sound(x)
  BY DEF Sound, Balanced
<1>2. Sound(wallet') /\ rate' \in Int
  BY DEF WalletsSound
<1>3. file' = NoFile \/ Sound(file')
  BY DEF WalletsSound
<1>4. \A j \in jobs' : j = [at |-> j.at, wallet |-> j.wallet, rows |-> j.rows] /\ Sound(j.wallet)
  <2>. TAKE j \in jobs'
  <2>1. CASE j \in jobs
    BY <2>1 DEF WalletsSound
  <2>2. CASE j \notin jobs
    <3>1. PICK at, rows : j = [at |-> at, wallet |-> w, rows |-> rows]
      BY <2>2
    <3>. QED BY <3>1
  <2>. QED BY <2>1, <2>2
<1>. QED BY <1>1, <1>2, <1>3, <1>4 DEF WalletsSound, Sound, Balanced

\* The wallet in a job or in the file is one the program had.
LEMMA DiskShows ==
    ASSUME DryInv, Summary \/ Leave \/ \E job \in jobs : Write(job) \/ Grab(job) \/ AppendRows(job)
    PROVE  DryInv'
<1>1. UNCHANGED <<live, slot, wallet, rate>>
  BY DEF Summary, Leave, Write, Grab, AppendRows, DiskRest, orderVars, walletVars
<1>2. OrdersLive' /\ SlotShowsOrder'
  BY <1>1 DEF DryInv, OrdersLive, SlotShowsOrder
<1>3. /\ rate \in Int /\ Sound(wallet) /\ (file = NoFile \/ Sound(file))
      /\ \A j \in jobs : /\ j = [at |-> j.at, wallet |-> j.wallet, rows |-> j.rows]
                         /\ Sound(j.wallet)
  BY DEF DryInv, WalletsSound
<1>0. WalletsSound /\ rate' = rate /\ wallet' = wallet
  BY <1>1 DEF DryInv
<1>4. ASSUME Summary \/ Leave PROVE WalletsSound'
  <2>1. /\ file' = file \/ file' = wallet
        /\ \A j \in jobs' : j \in jobs \/ \E at, rows : j = [at |-> at, wallet |-> wallet, rows |-> rows]
    BY <1>4 DEF Summary, Leave
  <2>. QED BY <1>0, <1>3, <2>1, JobsKeep
<1>5. ASSUME NEW job \in jobs, Write(job) \/ Grab(job) \/ AppendRows(job)
      PROVE  WalletsSound'
  <2>1. job = [at |-> job.at, wallet |-> job.wallet, rows |-> job.rows] /\ Sound(job.wallet)
    BY <1>3
  <2>2. /\ file' = file \/ file' = job.wallet
        /\ jobs' \subseteq {[job EXCEPT !.at = "flush"], [job EXCEPT !.at = "append", !.rows = buffer]}
    BY <1>5 DEF Write, Grab, AppendRows, Snapshot
  <2>3. [job EXCEPT !.at = "flush"] = [at |-> "flush", wallet |-> job.wallet, rows |-> job.rows]
    BY <2>1
  <2>4. [[job EXCEPT !.at = "append"] EXCEPT !.rows = buffer]
           = [at |-> "append", wallet |-> job.wallet, rows |-> buffer]
    <3>. DEFINE a == [job EXCEPT !.at = "append"]
    <3>1. a = [at |-> "append", wallet |-> job.wallet, rows |-> job.rows]
      BY <2>1
    <3>. HIDE DEF a
    <3>2. [a EXCEPT !.rows = buffer] = [at |-> "append", wallet |-> job.wallet, rows |-> buffer]
      BY <3>1
    <3>. QED BY <3>2 DEF a
  <2>5. \A j \in jobs' : \E at, rows : j = [at |-> at, wallet |-> job.wallet, rows |-> rows]
    BY <2>2, <2>3, <2>4
  <2>6. ASSUME NEW w, w = job.wallet PROVE WalletsSound'
    BY <1>0, <2>1, <2>2, <2>5, <2>6, JobsKeep
  <2>. QED BY <2>6
<1>6. WalletsSound'
  BY <1>4, <1>5
<1>. QED BY <1>2, <1>6 DEF DryInv

\* The process leaves or crashes.
LEMMA DownShows ==
    ASSUME DryInv, Left \/ DryCrash
    PROVE  DryInv'
<1>1. /\ live' = <<>> /\ slot' = [s \in DrySides |-> NoSlot] /\ jobs' = {}
      /\ UNCHANGED <<wallet, rate, file>>
  BY DEF Left, DryCrash, Down, walletVars
<1>2. DOMAIN live' = {}
  BY <1>1
<1>3. OrdersLive' /\ SlotShowsOrder'
  BY <1>1, <1>2 DEF OrdersLive, SlotShowsOrder
<1>4. WalletsSound'
  BY <1>1 DEF DryInv, WalletsSound, Sound, Balanced
<1>. QED BY <1>3, <1>4 DEF DryInv

\* The process starts again from what is on the disk.
LEMMA RestartShows ==
    ASSUME DryInv, Restart
    PROVE  DryInv'
<1>1. UNCHANGED <<live, slot, file, jobs>>
  BY DEF Restart, orderVars
<1>2. OrdersLive' /\ SlotShowsOrder'
  BY <1>1 DEF DryInv, OrdersLive, SlotShowsOrder
<1>3. Sound(Fresh)
  BY DryNumbers DEF Fresh, Sound, Wallets, Balanced
<1>4. Sound(wallet') /\ rate' \in Int
  BY <1>3, DryNumbers DEF Restart, DryInv, WalletsSound
<1>5. WalletsSound'
  BY <1>1, <1>4 DEF DryInv, WalletsSound, Sound, Balanced
<1>. QED BY <1>2, <1>5 DEF DryInv

\* Every step keeps the invariant.
LEMMA DryKeeps == DryInv /\ [DryNext]_dryVars => DryInv'
<1>. SUFFICES ASSUME DryInv, [DryNext]_dryVars PROVE DryInv'
  OBVIOUS
<1>1. ASSUME NEW s \in DrySides, NEW p \in Prices, NEW n \in 1..MaxSize, NEW t \in Tops,
             Create(s, p, n, t) \/ Modify(s, p, n, t)
      PROVE  DryInv'
  BY <1>1, CreateShows, ModifyShows
<1>2. ASSUME NEW s \in DrySides, Cancel(s) PROVE DryInv'
  BY <1>2, CancelShows
<1>3. ASSUME NEW s \in DOMAIN live, Latency(s) PROVE DryInv'
  BY <1>3, LatencyShows
<1>4. ASSUME NEW found \in 0..MaxSize, NEW t \in Tops, CheckFills(found, t) PROVE DryInv'
  <2>1. found \in Nat
    BY DryNumbers
  <2>. QED BY <1>4, <2>1, CheckFillsShows
<1>5. CASE Summary \/ Leave \/ \E job \in jobs : Write(job) \/ Grab(job) \/ AppendRows(job)
  BY <1>5, DiskShows
<1>6. CASE Left \/ DryCrash
  BY <1>6, DownShows
<1>7. CASE Restart
  BY <1>7, RestartShows
<1>8. CASE UNCHANGED dryVars
  BY <1>8, SoundStays DEF dryVars, orderVars, walletVars, diskVars, DryInv, OrdersLive, SlotShowsOrder
<1>. QED BY <1>1, <1>2, <1>3, <1>4, <1>5, <1>6, <1>7, <1>8 DEF DryNext

\* The invariant holds throughout.
LEMMA DryIsInv == DrySpec => []DryInv
BY DryStarts, DryKeeps, PTL DEF DrySpec

\* process_batch and check_fills: whatever is created, modified, cancelled or filled, in any
\* order and with any latency, a slot shows the order that can be filled, as it can be.
THEOREM SlotsShowOrders == DrySpec => []SlotShowsOrder
<1>1. DryInv => SlotShowsOrder
  BY DEF DryInv
<1>. QED BY <1>1, DryIsInv, PTL

\* _process_fill, the state file and load_state: for any prices, sizes and fees, capital,
\* margin and realised PnL add up, in memory and on disk.
THEOREM WalletAddsUp == DrySpec => []WalletBalances
<1>1. DryInv => WalletBalances
  BY DEF DryInv, WalletsSound, Sound, WalletBalances
<1>. QED BY <1>1, DryIsInv, PTL

-----------------------------------------------------------------------------
(* Grid: how far fills take a slot. *)

Passed == -(Most + GridLevels - 1)..(Most + GridLevels - 1)

GridTypes ==
    /\ gridPos \in [GridSlots -> Int]
    /\ standing \in [GridSlots -> [GridSides -> 0..GridLevels]]

\* The loop does not sleep on news, unless the event is set.
Awake == loop = "wait" /\ news => event

\* Whatever of these orders is filled, the position stays within the bound.
InReach(pos, f) ==
    /\ pos \in Passed
    /\ pos + f["buy"] <= Most + GridLevels - 1
    /\ pos - f["sell"] >= -(Most + GridLevels - 1)

SlotsInReach == \A s \in GridSlots \ unlimited : InReach(gridPos[s], standing[s])

GridInv == GridTypes /\ Awake /\ SlotsInReach

\* The numbers of the grid.
LEMMA GridNumbers ==
    /\ GridLevels \in Nat \ {0} /\ Most \in Nat /\ \A lim \in GridLimits : lim \in Nat /\ lim <= Most
<1>1. \E l \in GridLimits : \A k \in GridLimits : l >= k
  <2>1. PICK m \in GridLimits : \A k \in GridLimits : k <= m
    BY GridAssumption
  <2>2. \A k \in GridLimits : m >= k
    BY <2>1, GridAssumption
  <2>. QED BY <2>2
<1>2. Most \in GridLimits /\ \A k \in GridLimits : Most >= k
  BY <1>1 DEF Most
<1>. QED BY <1>2, GridAssumption

\* What a pass may leave standing of a slot that has a limit is in reach.
LEMMA PassInReach ==
    ASSUME GridTypes, NEW s \in GridSlots, InReach(gridPos[s], standing[s]),
           NEW offer \in SUBSET GridSides, NEW lim \in GridLimits, offer = {} \/ lim # 0,
           NEW f \in Standing(s, offer, lim)
    PROVE  InReach(gridPos[s], f)
<1>. DEFINE left == offer \ Suppressed(gridPos[s], lim)
            p == gridPos[s]
            top == Most + GridLevels - 1
<1>1. CASE left = {}
  BY <1>1 DEF Standing
<1>2. CASE left # {}
  <2>1. lim \in Nat /\ lim > 0 /\ lim <= Most
    BY <1>2, GridNumbers
  <2>2. f \in [GridSides -> 0..GridLevels] /\ \A d \in GridSides :
            IF d \in left THEN f[d] >= standing[s][d] ELSE f[d] <= standing[s][d]
    BY <1>2 DEF Standing
  <2>3. "buy" \in GridSides /\ "sell" \in GridSides
    BY DEF GridSides
  <2>4. p \in Int /\ f["buy"] \in 0..GridLevels /\ f["sell"] \in 0..GridLevels
        /\ standing[s]["buy"] \in 0..GridLevels /\ standing[s]["sell"] \in 0..GridLevels
    BY <2>2, <2>3 DEF GridTypes
  <2>5. p \in Passed /\ p + standing[s]["buy"] <= top /\ p - standing[s]["sell"] >= -top
    BY DEF InReach
  <2>6. /\ "buy" \notin Suppressed(p, lim) => p < lim \/ p <= 0
        /\ "sell" \notin Suppressed(p, lim) => -p < lim \/ p > 0
    BY <2>1, <2>4 DEF Suppressed, LimitReached
  <2>7. p + f["buy"] <= top
    <3>1. CASE "buy" \in left
      <4>1. p < lim \/ p <= 0
        BY <2>6, <3>1
      <4>. QED BY <2>1, <2>4, <4>1, GridNumbers
    <3>2. CASE "buy" \notin left
      <4>1. f["buy"] <= standing[s]["buy"]
        BY <2>2, <2>3, <3>2
      <4>. QED BY <2>4, <2>5, <4>1, GridNumbers
    <3>. QED BY <3>1, <3>2
  <2>8. p - f["sell"] >= -top
    <3>1. CASE "sell" \in left
      <4>1. -p < lim \/ p > 0
        BY <2>6, <3>1
      <4>. QED BY <2>1, <2>4, <4>1, GridNumbers
    <3>2. CASE "sell" \notin left
      <4>1. f["sell"] <= standing[s]["sell"]
        BY <2>2, <2>3, <3>2
      <4>. QED BY <2>4, <2>5, <4>1, GridNumbers
    <3>. QED BY <3>1, <3>2
  <2>. QED BY <2>5, <2>7, <2>8 DEF InReach
<1>. QED BY <1>1, <1>2

\* What a pass leaves of a slot is in reach of its limits.
LEMMA PassIsTyped ==
    ASSUME GridTypes, NEW s \in GridSlots, NEW o \in Outcomes(s)
    PROVE  /\ o[1] \in [GridSides -> 0..GridLevels]
           /\ InReach(gridPos[s], standing[s]) /\ ~o[2] => InReach(gridPos[s], o[1])
<1>1. PICK offer \in OffersOf, lim \in GridLimits :
         \E f \in Standing(s, offer, lim) : o = <<f, offer # {} /\ lim = 0>>
  BY DEF Outcomes
<1>. PICK f \in Standing(s, offer, lim) : o = <<f, offer # {} /\ lim = 0>>
  BY <1>1
<1>2. o[1] = f /\ o[2] = (offer # {} /\ lim = 0)
  OBVIOUS
<1>3. offer \in SUBSET GridSides
  BY DEF OffersOf
<1>4. f \in [GridSides -> 0..GridLevels]
  BY DEF Standing, GridTypes
<1>5. ASSUME InReach(gridPos[s], standing[s]), ~o[2] PROVE InReach(gridPos[s], o[1])
  <2>1. offer = {} \/ lim # 0
    BY <1>2, <1>5
  <2>. QED BY <1>2, <1>3, <1>5, <2>1, PassInReach
<1>. QED BY <1>2, <1>4, <1>5

\* The invariant holds at the start.
LEMMA GridStarts == GridInit => GridInv
<1>. SUFFICES ASSUME GridInit PROVE GridInv
  OBVIOUS
<1>1. GridTypes /\ Awake
  BY GridNumbers DEF GridInit, GridTypes, Awake
<1>2. SlotsInReach
  <2>. SUFFICES ASSUME NEW s \in GridSlots PROVE InReach(gridPos[s], standing[s])
    BY DEF SlotsInReach
  <2>1. gridPos[s] = 0 /\ standing[s]["buy"] = 0 /\ standing[s]["sell"] = 0
    BY DEF GridInit, GridSides
  <2>. QED BY <2>1, GridNumbers DEF InReach, Passed
<1>. QED BY <1>1, <1>2 DEF GridInv

\* A message of the book, with its dispatch to every slot.
LEMMA GridBookKeeps ==
    ASSUME GridInv, GridBook
    PROVE  GridInv'
<1>. USE DEF GridInv
<1>1. Awake'
  BY DEF GridBook, Awake
<1>2. unlimited' = unlimited
  BY DEF GridBook
<1>3. CASE UNCHANGED <<gridPos, standing>>
  BY <1>1, <1>2, <1>3 DEF GridTypes, SlotsInReach, InReach
<1>4. ASSUME NEW s \in GridSlots, NEW d \in GridSides, NEW n \in 1..GridLevels,
             n <= standing[s][d],
             standing' = [standing EXCEPT ![s][d] = @ - n],
             gridPos' = [gridPos EXCEPT ![s] = IF d = "buy" THEN gridPos[s] + n ELSE gridPos[s] - n]
      PROVE  GridInv'
  <2>1. gridPos[s] \in Int /\ standing[s][d] \in 0..GridLevels /\ n \in Nat
    BY GridNumbers DEF GridTypes
  <2>2. /\ standing'[s][d] = standing[s][d] - n
        /\ \A k \in GridSides : k # d => standing'[s][k] = standing[s][k]
        /\ \A t \in GridSlots : t # s => standing'[t] = standing[t] /\ gridPos'[t] = gridPos[t]
        /\ gridPos'[s] = IF d = "buy" THEN gridPos[s] + n ELSE gridPos[s] - n
    BY <1>4 DEF GridTypes
  <2>3. GridTypes'
    <3>1. standing[s][d] - n \in 0..GridLevels
      BY <1>4, <2>1, GridNumbers
    <3>. QED BY <1>4, <2>1, <3>1 DEF GridTypes
  <2>4. ASSUME InReach(gridPos[s], standing[s]) PROVE InReach(gridPos'[s], standing'[s])
    <3>1. d = "buy" \/ d = "sell"
      BY DEF GridSides
    <3>2. standing[s]["buy"] \in 0..GridLevels /\ standing[s]["sell"] \in 0..GridLevels
      BY DEF GridTypes, GridSides
    <3>3. CASE d = "buy"
      <4>1. /\ standing'[s]["buy"] = standing[s]["buy"] - n /\ n <= standing[s]["buy"]
            /\ standing'[s]["sell"] = standing[s]["sell"]
            /\ gridPos'[s] = gridPos[s] + n
        BY <1>4, <2>2, <3>3 DEF GridSides
      <4>. QED BY <2>1, <2>4, <3>2, <4>1, GridNumbers DEF InReach, Passed
    <3>4. CASE d = "sell"
      <4>1. /\ standing'[s]["sell"] = standing[s]["sell"] - n /\ n <= standing[s]["sell"]
            /\ standing'[s]["buy"] = standing[s]["buy"]
            /\ gridPos'[s] = gridPos[s] - n
        BY <1>4, <2>2, <3>4 DEF GridSides
      <4>. QED BY <2>1, <2>4, <3>2, <4>1, GridNumbers DEF InReach, Passed
    <3>. QED BY <3>1, <3>3, <3>4
  <2>5. SlotsInReach'
    <3>. SUFFICES ASSUME NEW t \in GridSlots, t \notin unlimited
                  PROVE  InReach(gridPos'[t], standing'[t])
      BY <1>2 DEF SlotsInReach, InReach
    <3>1. InReach(gridPos[t], standing[t])
      BY DEF SlotsInReach
    <3>. QED BY <2>2, <2>4, <3>1
  <2>. QED BY <1>1, <2>3, <2>5
<1>. QED BY <1>3, <1>4 DEF GridBook

\* The loop ticks the slots it owes.
LEMMA TickSlotsKeeps ==
    ASSUME GridInv, TickSlots
    PROVE  GridInv'
<1>. USE DEF GridInv
<1>1. loop' # "wait" /\ gridPos' = gridPos
  BY DEF TickSlots
<1>2. Awake'
  BY <1>1 DEF Awake
<1>3. CASE UNCHANGED <<standing, unlimited>>
  BY <1>1, <1>2, <1>3 DEF GridTypes, SlotsInReach, InReach
<1>4. ASSUME NEW to, \A s \in GridSlots : to[s] \in Outcomes(s),
             standing' = [s \in GridSlots |-> to[s][1]],
             unlimited' = unlimited \cup {s \in GridSlots : to[s][2]}
      PROVE  GridInv'
  <2>1. \A s \in GridSlots : /\ to[s][1] \in [GridSides -> 0..GridLevels]
                             /\ InReach(gridPos[s], standing[s]) /\ ~to[s][2]
                                   => InReach(gridPos[s], to[s][1])
    BY <1>4, PassIsTyped
  <2>2. GridTypes'
    BY <1>1, <1>4, <2>1 DEF GridTypes
  <2>3. SlotsInReach'
    <3>. SUFFICES ASSUME NEW s \in GridSlots, s \notin unlimited'
                  PROVE  InReach(gridPos'[s], standing'[s])
      BY DEF SlotsInReach, InReach
    <3>1. s \notin unlimited /\ ~to[s][2] /\ standing'[s] = to[s][1]
      BY <1>4
    <3>2. InReach(gridPos[s], standing[s])
      BY <3>1 DEF SlotsInReach
    <3>. QED BY <1>1, <2>1, <3>1, <3>2
  <2>. QED BY <1>2, <2>2, <2>3
<1>. QED BY <1>3, <1>4 DEF TickSlots

\* Every step keeps the invariant.
LEMMA GridKeeps == GridInv /\ [GridNext]_gridVars => GridInv'
<1>. SUFFICES ASSUME GridInv, [GridNext]_gridVars PROVE GridInv'
  OBVIOUS
<1>1. CASE GridBook
  BY <1>1, GridBookKeeps
<1>2. CASE TickSlots
  BY <1>2, TickSlotsKeeps
<1>3. ASSUME UNCHANGED <<gridPos, standing, unlimited>>, loop' = "wait" /\ news' => event'
      PROVE  GridInv'
  BY <1>3 DEF GridInv, GridTypes, Awake, SlotsInReach, InReach
<1>4. CASE GridOneSided \/ GridDisconnect
  BY <1>3, <1>4 DEF GridOneSided, GridDisconnect, GridInv, Awake
<1>5. CASE LoopTop
  BY <1>2, <1>3, <1>5 DEF LoopTop, NothingNew
<1>6. ASSUME NEW timeout \in BOOLEAN, Wakes(timeout) PROVE GridInv'
  BY <1>2, <1>6 DEF Wakes
<1>7. CASE GridShutdown
  BY <1>3, <1>7 DEF GridShutdown
<1>8. CASE UNCHANGED gridVars
  BY <1>3, <1>8 DEF gridVars, GridInv, Awake
<1>. QED BY <1>1, <1>4, <1>5, <1>6, <1>7, <1>8 DEF GridNext

\* The loop of the grid and the callback of its feed: for any number of slots, levels and
\* limits, no book is slept on, and no slot that had a limit goes farther past it than the
\* levels that stood below it.
THEOREM GridIsBounded == GridSpec => []GridKeepsUp
<1>1. GridInv => GridKeepsUp
  BY DEF GridInv, Awake, SlotsInReach, InReach, Passed, GridKeepsUp
<1>. QED BY <1>1, GridStarts, GridKeeps, PTL DEF GridSpec

-----------------------------------------------------------------------------
(* QuotePrices: the grid. *)

\* The grid from d hundredths of a unit on, from a middle that is t from it.
GridFrom(t, d) == t - Step * ((100 * t - d) \div (100 * Step))

\* The numbers of the prices.
LEMMA PriceNumbers ==
    /\ Step \in Nat \ {0} /\ PriceTop \in Nat /\ LevelFactor \in Nat \ {0}
    /\ \A depth \in Depths : depth \in Nat \ {0}
    /\ \A pct \in Widenings : pct \in Nat /\ pct >= 100
    /\ \A pct \in Tightenings : pct \in Nat /\ 1 <= pct /\ pct <= 100
BY PriceAssumption

\* What division leaves is less than the divisor.
LEMMA DivBounds ==
    ASSUME NEW x \in Int, NEW y \in Nat \ {0}
    PROVE  x \div y \in Int /\ y * (x \div y) <= x /\ x < y * (x \div y) + y
OBVIOUS

\* The larger quotient is that of the larger number.
LEMMA DivGrows ==
    ASSUME NEW x \in Int, NEW z \in Int, NEW y \in Nat \ {0}, x <= z
    PROVE  x \div y <= z \div y
<1>. DEFINE a == x \div y  b == z \div y
<1>1. a \in Int /\ b \in Int /\ y * a <= x /\ z < y * b + y
  BY DivBounds
<1>. HIDE DEF a, b
<1>2. ASSUME b < a PROVE FALSE
  <2>. DEFINE c == a - b - 1
  <2>1. c \in Nat /\ a = b + 1 + c
    BY <1>1, <1>2
  <2>. HIDE DEF c
  <2>2. y * a = y * b + y + y * c
    BY <1>1, <2>1
  <2>3. y * c \in Nat /\ y * b \in Int /\ y * a \in Int
    BY <1>1, <2>1
  <2>. QED BY <1>1, <2>2, <2>3
<1>3. a <= b
  BY <1>1, <1>2
<1>. QED BY <1>3 DEF a, b

\* Rounding outwards takes nothing closer, keeps what is on the grid, and keeps order.
LEMMA GridKeepsOrder ==
    ASSUME NEW t \in Int, NEW d \in Int
    PROVE  /\ GridFrom(t, d) \in Int /\ d <= 100 * GridFrom(t, d)
           /\ GridFrom(t, 100 * GridFrom(t, d)) = GridFrom(t, d)
           /\ \A e \in Int : d <= e => GridFrom(t, d) <= GridFrom(t, e)
<1>. DEFINE y == 100 * Step
            q == (100 * t - d) \div y
            k == Step * q
<1>1. Step \in Nat \ {0} /\ y \in Nat \ {0} /\ 100 * t - d \in Int
  BY PriceNumbers
<1>2. q \in Int /\ y * q <= 100 * t - d
  <2>. HIDE DEF y
  <2>. QED BY <1>1, DivBounds
<1>3. GridFrom(t, d) = t - k
  BY DEF GridFrom
<1>. HIDE DEF q
<1>4. y * q = 100 * k /\ k \in Int
  BY <1>1, <1>2
<1>5. GridFrom(t, 100 * GridFrom(t, d)) = GridFrom(t, d)
  <2>1. 100 * t - 100 * GridFrom(t, d) = q * y
    BY <1>1, <1>2, <1>3, <1>4
  <2>2. (q * y) \div y = q
    <3>. HIDE DEF y
    <3>. QED BY <1>1, <1>2, WholeMargin
  <2>3. GridFrom(t, 100 * GridFrom(t, d)) = t - Step * ((100 * t - 100 * GridFrom(t, d)) \div y)
    BY DEF GridFrom
  <2>4. GridFrom(t, 100 * GridFrom(t, d)) = t - Step * q
    <3>. HIDE DEF y
    <3>. QED BY <2>1, <2>2, <2>3
  <2>. QED BY <1>3, <2>4
<1>6. ASSUME NEW e \in Int, d <= e PROVE GridFrom(t, d) <= GridFrom(t, e)
  <2>. DEFINE r == (100 * t - e) \div y
  <2>1. r <= (100 * t - d) \div y /\ r \in Int
    <3>1. 100 * t - e \in Int /\ 100 * t - e <= 100 * t - d
      BY <1>6
    <3>. HIDE DEF y
    <3>. QED BY <1>1, <3>1, DivGrows, DivBounds
  <2>2. GridFrom(t, e) = t - Step * r
    BY DEF GridFrom
  <2>. HIDE DEF r
  <2>3. r <= q
    BY <2>1 DEF q
  <2>. DEFINE c == q - r
  <2>4. c \in Nat /\ q = r + c
    BY <1>2, <2>1, <2>3
  <2>. HIDE DEF c
  <2>5. Step * q = Step * r + Step * c /\ Step * c \in Nat /\ Step * r \in Int
    BY <1>1, <1>2, <2>1, <2>4
  <2>. QED BY <1>3, <1>4, <2>2, <2>5
<1>7. d <= 100 * GridFrom(t, d) /\ GridFrom(t, d) \in Int
  BY <1>2, <1>3, <1>4
<1>. QED BY <1>5, <1>6, <1>7

\* The factors by level are there, positive, and grow.
LEMMA FactorsGrow ==
    /\ \A l \in Ladder : SpreadFactors[l] \in Nat \ {0}
    /\ \A l \in Ladder : \A k \in 0..l : SpreadFactors[k] <= SpreadFactors[l]
<1>. DEFINE S == Nat \ {0}
            R(h) == h = [l \in Ladder |-> IF l = 0 THEN 1 ELSE LevelFactor * h[l - 1]]
            F == [k \in Nat |-> [x \in S |-> LevelFactor * x]]
<1>1. F \in [Nat -> [S -> S]]
  <2>1. \A x \in S : LevelFactor * x \in S
    BY PriceNumbers
  <2>. QED BY <2>1
<1>2. PICK h \in [0..PriceTop -> S] :
         h[0] = 1 /\ \A k \in 1..PriceTop : h[k] = F[k][h[k - 1]]
  <2>1. 1 \in S
    OBVIOUS
  <2>. HIDE DEF F, S
  <2>2. \E g : Follows(g, PriceTop, S, 1, F)
    BY <1>1, <2>1, PriceNumbers, StepByStep
  <2>. QED BY <2>2 DEF Follows
<1>3. \A k \in 1..PriceTop : h[k] = LevelFactor * h[k - 1]
  <2>1. \A k \in 1..PriceTop : k - 1 \in 0..PriceTop /\ k \in Nat
    BY PriceNumbers
  <2>. QED BY <1>2, <2>1
<1>4. R(h)
  <2>1. \A l \in 0..PriceTop : l = 0 \/ l \in 1..PriceTop
    BY PriceNumbers
  <2>2. h = [l \in 0..PriceTop |-> h[l]]
    BY <1>2
  <2>3. \A l \in 0..PriceTop : h[l] = IF l = 0 THEN 1 ELSE LevelFactor * h[l - 1]
    BY <1>2, <1>3, <2>1
  <2>. QED BY <2>2, <2>3 DEF Ladder
<1>5. R(SpreadFactors)
  <2>1. SpreadFactors = CHOOSE g : R(g)
    BY DEF SpreadFactors
  <2>. HIDE DEF R
  <2>. QED BY <1>4, <2>1
<1>6. \A l \in Ladder : SpreadFactors[l] = IF l = 0 THEN 1 ELSE LevelFactor * SpreadFactors[l - 1]
  BY <1>5
<1>7. ASSUME NEW n \in Nat, n \in Ladder, SpreadFactors[n] \notin S
              \/ \E k \in 0..n : ~(SpreadFactors[k] <= SpreadFactors[n])
      PROVE  FALSE
  <2>. DEFINE T == {l \in Ladder : SpreadFactors[l] \notin S
                                   \/ \E k \in 0..l : ~(SpreadFactors[k] <= SpreadFactors[l])}
  <2>1. T \subseteq Nat /\ T # {}
    BY <1>7, PriceNumbers DEF Ladder
  <2>2. PICK m \in T : \A l \in T : m <= l
    <3>. HIDE DEF T
    <3>. QED BY <2>1, LeastOf
  <2>3. m \in 0..PriceTop /\ m \in Nat
    BY PriceNumbers DEF Ladder
  <2>4. CASE m = 0
    <3>1. SpreadFactors[m] = 1
      BY <1>6, <2>4 DEF Ladder
    <3>2. \A k \in 0..m : k = m
      BY <2>4
    <3>. QED BY <3>1, <3>2
  <2>5. CASE m # 0
    <3>. DEFINE j == m - 1
    <3>1. j \in Ladder /\ j < m /\ j \notin T /\ j \in Nat
      <4>1. j \in Nat /\ j < m /\ j \in Ladder
        BY <2>3, <2>5, PriceNumbers DEF Ladder
      <4>2. j \notin T
        <5>. HIDE DEF T
        <5>1. ASSUME j \in T PROVE FALSE
          <6>1. m <= j
            BY <2>2, <5>1
          <6>. QED BY <2>3, <4>1, <6>1
        <5>. QED BY <5>1
      <4>. QED BY <4>1, <4>2
    <3>2. SpreadFactors[j] \in S /\ \A k \in 0..j : SpreadFactors[k] <= SpreadFactors[j]
      BY <3>1
    <3>3. SpreadFactors[m] = LevelFactor * SpreadFactors[j]
      <4>1. m \in Ladder
        BY <2>3 DEF Ladder
      <4>. QED BY <1>6, <2>5, <4>1
    <3>. DEFINE x == SpreadFactors[j]  y == SpreadFactors[m]
    <3>4. y \in S /\ x <= y
      <4>. HIDE DEF T
      <4>1. x \in S /\ y = LevelFactor * x
        BY <3>2, <3>3
      <4>. HIDE DEF x, y
      <4>. DEFINE c == LevelFactor - 1
      <4>2. c \in Nat /\ LevelFactor = c + 1
        BY PriceNumbers
      <4>. HIDE DEF c
      <4>3. y = c * x + x /\ c * x \in Nat
        BY <4>1, <4>2
      <4>. QED BY <4>1, <4>3
    <3>5. \A k \in 0..m : k \in 0..j \/ k = m
      BY <2>3, <2>5
    <3>6. \A k \in 0..m : SpreadFactors[k] <= y
      <4>. TAKE k \in 0..m
      <4>1. CASE k = m
        BY <3>4, <4>1
      <4>2. CASE k \in 0..j
        <5>1. SpreadFactors[k] <= x /\ k \in Ladder
          <6>1. k \in Ladder
            <7>. HIDE DEF j
            <7>. QED BY <3>1, <4>2, PriceNumbers DEF Ladder
          <6>. QED BY <3>2, <4>2, <6>1
        <5>2. SpreadFactors[k] \in S
          <6>1. k \notin T
            BY <2>2, <3>1, <4>2, <5>1
          <6>. QED BY <5>1, <6>1
        <5>. HIDE DEF x, y, T
        <5>. DEFINE u == SpreadFactors[k]
        <5>3. u \in S /\ u <= x /\ x <= y /\ x \in S /\ y \in S
          BY <3>2, <3>4, <5>1, <5>2 DEF x
        <5>. HIDE DEF u
        <5>4. u <= y
          BY <5>3
        <5>. QED BY <5>4 DEF u
      <4>. QED BY <3>5, <4>1, <4>2
    <3>. QED BY <3>4, <3>6
  <2>. QED BY <2>4, <2>5
<1>8. \A n \in Ladder : n \in Nat
  BY PriceNumbers DEF Ladder
<1>. QED BY <1>7, <1>8

\* Products keep order.
LEMMA ProductKeepsOrder ==
    ASSUME NEW x \in Int, NEW y \in Int, NEW p \in Nat, x <= y
    PROVE  x * p <= y * p /\ x * p \in Int /\ y * p \in Int
<1>. DEFINE c == y - x
<1>1. c \in Nat /\ y = x + c
  OBVIOUS
<1>. HIDE DEF c
<1>2. y * p = x * p + c * p /\ c * p \in Nat /\ x * p \in Int
  BY <1>1
<1>. QED BY <1>2

\* What is rounded outwards is nowhere at the middle.
LEMMA NeverPast ==
    ASSUME NEW t \in Int, NEW d \in Nat \ {0}, NEW instead
    PROVE  /\ GridFrom(t, d) \in Nat \ {0} /\ d <= 100 * GridFrom(t, d)
           /\ NotPast(GridFrom(t, d), instead) = GridFrom(t, d)
<1>1. GridFrom(t, d) \in Int /\ d <= 100 * GridFrom(t, d)
  BY GridKeepsOrder
<1>. DEFINE g == GridFrom(t, d)
<1>2. g \in Int /\ d <= 100 * g
  BY <1>1
<1>. HIDE DEF g
<1>3. g \in Nat \ {0} /\ NotPast(g, instead) = g
  BY <1>2 DEF NotPast
<1>. QED BY <1>1, <1>3 DEF g

\* Quotes: a ladder of sides, all off the middle, no deeper level the better price.
Quoted(q) ==
    /\ DOMAIN q = Ladder
    /\ \A l \in Ladder : \A s \in DOMAIN q[l] :
        /\ s \in BothSides /\ q[l][s] \in Nat \ {0}
        /\ \A k \in 0..l : s \in DOMAIN q[k] => q[k][s] <= q[l][s]

\* Prices of a ladder that are rounded outwards from depths in order.
Rounded(w, t, e) ==
    /\ DOMAIN w = Ladder /\ \A s \in BothSides : t[s] \in Int
    /\ \A l \in Ladder : \A s \in DOMAIN w[l] :
        /\ s \in BothSides /\ e[l][s] \in Nat \ {0}
        /\ w[l][s] = GridFrom(t[s], e[l][s])
        /\ \A k \in 0..l : s \in DOMAIN w[k] => e[k][s] <= e[l][s]

\* They are quotes.
LEMMA RoundedAreQuotes ==
    ASSUME NEW w, NEW t, NEW e, Rounded(w, t, e)
    PROVE  Quoted(w)
<1>. USE DEF Rounded
<1>1. ASSUME NEW l \in Ladder, NEW s \in DOMAIN w[l]
      PROVE  /\ s \in BothSides /\ w[l][s] \in Nat \ {0}
             /\ \A k \in 0..l : s \in DOMAIN w[k] => w[k][s] <= w[l][s]
  <2>1. s \in BothSides /\ t[s] \in Int /\ e[l][s] \in Nat \ {0}
        /\ w[l][s] = GridFrom(t[s], e[l][s])
    OBVIOUS
  <2>2. w[l][s] \in Nat \ {0}
    <3>. DEFINE u == t[s]  d == e[l][s]
    <3>1. u \in Int /\ d \in Nat \ {0} /\ w[l][s] = GridFrom(u, d)
      BY <2>1
    <3>. HIDE DEF u, d
    <3>2. GridFrom(u, d) \in Nat \ {0}
      BY <3>1, NeverPast
    <3>. QED BY <3>1, <3>2
  <2>3. ASSUME NEW k \in 0..l, s \in DOMAIN w[k] PROVE w[k][s] <= w[l][s]
    <3>1. k \in Ladder
      BY PriceNumbers DEF Ladder
    <3>2. e[k][s] \in Nat \ {0} /\ w[k][s] = GridFrom(t[s], e[k][s])
      BY <2>3, <3>1
    <3>3. e[k][s] <= e[l][s]
      BY <2>3
    <3>4. e[k][s] \in Int /\ e[l][s] \in Int
      BY <2>1, <3>2
    <3>. DEFINE u == t[s]  a == e[k][s]  b == e[l][s]
    <3>5. u \in Int /\ a \in Int /\ b \in Int /\ a <= b
      BY <2>1, <3>3, <3>4
    <3>6. w[k][s] = GridFrom(u, a) /\ w[l][s] = GridFrom(u, b)
      BY <2>1, <3>2
    <3>. HIDE DEF u, a, b
    <3>. QED BY <3>5, <3>6, GridKeepsOrder
  <2>. QED BY <2>1, <2>2, <2>3
<1>. QED BY <1>1 DEF Quoted

\* Where the grid starts on a side.
LEMMA GridOfMiddle ==
    ASSUME NEW off \in 0..(Step - 1)
    PROVE  off \in Int /\ (Step - off) % Step \in Int
<1>1. Step \in Nat \ {0}
  BY PriceNumbers
<1>2. off \in Int /\ Step - off \in Int
  BY <1>1
<1>. QED BY <1>1, <1>2

\* Fewer quotes are quotes.
LEMMA FewerQuotes ==
    ASSUME NEW q, NEW w, Quoted(q), DOMAIN w = Ladder,
           \A l \in Ladder : \A s \in DOMAIN w[l] : s \in DOMAIN q[l] /\ w[l][s] = q[l][s]
    PROVE  Quoted(w)
<1>1. ASSUME NEW l \in Ladder, NEW s \in DOMAIN w[l]
      PROVE  /\ s \in BothSides /\ w[l][s] \in Nat \ {0}
             /\ \A k \in 0..l : s \in DOMAIN w[k] => w[k][s] <= w[l][s]
  <2>1. /\ s \in DOMAIN q[l] /\ w[l][s] = q[l][s] /\ s \in BothSides
        /\ q[l][s] \in Nat \ {0}
        /\ \A k \in 0..l : s \in DOMAIN q[k] => q[k][s] <= q[l][s]
    BY DEF Quoted
  <2>2. \A k \in 0..l : k \in Ladder
    BY PriceNumbers DEF Ladder
  <2>. QED BY <2>1, <2>2
<1>. QED BY <1>1 DEF Quoted

\* The depths the fallbacks quote at.
LEMMA LeastDepth ==
    ASSUME NEW depth \in Depths
    PROVE  100 * AtLeast(depth, Step) \in Nat \ {0} /\ AtLeast(depth, Step) \in Nat \ {0}
BY PriceNumbers DEF AtLeast

\* What the fallback for an exit quotes.
ExitPrices(w, t, leaves, depth) ==
    /\ DOMAIN w = Ladder /\ \A s \in BothSides : t[s] \in Int
    /\ \A l \in Ladder :
        /\ DOMAIN w[l] = IF l = 0 THEN leaves ELSE {}
        /\ \A s \in DOMAIN w[l] :
            w[l][s] = NotPast(GridFrom(t[s], 100 * AtLeast(depth, Step)), Step)

\* They are quotes.
LEMMA OneExitIsQuote ==
    ASSUME NEW w, NEW t, NEW leaves \in SUBSET BothSides, NEW depth \in Depths,
           ExitPrices(w, t, leaves, depth)
    PROVE  Quoted(w)
<1>. USE DEF ExitPrices
<1>. DEFINE d == 100 * AtLeast(depth, Step)
            e == [l \in Ladder |-> [s \in BothSides |-> d]]
<1>1. d \in Nat \ {0}
  BY LeastDepth
<1>2. ASSUME NEW l \in Ladder, NEW s \in DOMAIN w[l]
      PROVE  /\ s \in BothSides /\ e[l][s] \in Nat \ {0}
             /\ w[l][s] = GridFrom(t[s], e[l][s])
             /\ \A k \in 0..l : s \in DOMAIN w[k] => e[k][s] <= e[l][s]
  <2>1. s \in BothSides /\ w[l][s] = NotPast(GridFrom(t[s], d), Step)
    OBVIOUS
  <2>. HIDE DEF d
  <2>2. w[l][s] = GridFrom(t[s], d)
    BY <1>1, <2>1, NeverPast
  <2>3. \A k \in 0..l : k \in Ladder
    BY PriceNumbers DEF Ladder
  <2>4. \A k \in Ladder : e[k][s] = d
    BY <2>1
  <2>5. e[l][s] = d
    BY <2>4
  <2>6. \A k \in 0..l : e[k][s] = d
    BY <2>3, <2>4
  <2>. HIDE DEF e
  <2>7. d <= d
    BY <1>1
  <2>. QED BY <1>1, <2>1, <2>2, <2>5, <2>6, <2>7
<1>. HIDE DEF e, d
<1>3. DOMAIN w = Ladder /\ \A s \in BothSides : t[s] \in Int
  OBVIOUS
<1>4. Rounded(w, t, e)
  BY <1>2, <1>3 DEF Rounded
<1>. QED BY <1>4, RoundedAreQuotes

\* Where a factor by level takes a depth.
LEMMA FactorsKeepOrder ==
    ASSUME NEW d \in Nat \ {0}, NEW l \in Ladder
    PROVE  /\ d * SpreadFactors[l] \in Nat \ {0} /\ d <= d * SpreadFactors[l]
           /\ \A k \in 0..l : k \in Ladder /\ d * SpreadFactors[k] <= d * SpreadFactors[l]
<1>. DEFINE x == SpreadFactors[l]
<1>1. x \in Nat \ {0}
  BY FactorsGrow
<1>2. d * x \in Nat \ {0} /\ d <= d * x
  <2>. HIDE DEF x
  <2>. DEFINE c == x - 1
  <2>1. c \in Nat /\ x = c + 1
    BY <1>1
  <2>. HIDE DEF c
  <2>2. d * x = d * c + d /\ d * c \in Nat
    BY <2>1
  <2>. QED BY <2>2
<1>3. ASSUME NEW k \in 0..l PROVE k \in Ladder /\ d * SpreadFactors[k] <= d * x
  <2>. DEFINE y == SpreadFactors[k]
  <2>1. k \in Ladder
    BY PriceNumbers DEF Ladder
  <2>2. y \in Nat /\ y <= x
    BY <2>1, FactorsGrow
  <2>. HIDE DEF x, y
  <2>3. y * d <= x * d /\ x \in Nat
    BY <1>1, <2>2, ProductKeepsOrder
  <2>4. y * d = d * y /\ x * d = d * x
    BY <2>2, <2>3
  <2>5. d * y <= d * x
    BY <2>3, <2>4
  <2>. QED BY <2>1, <2>5 DEF y
<1>. QED BY <1>2, <1>3

\* What the fallback for no position quotes.
FlatQuotes(w, t, depth) ==
    /\ DOMAIN w = Ladder /\ \A s \in BothSides : t[s] \in Int
    /\ \A l \in Ladder :
        /\ DOMAIN w[l] = BothSides
        /\ \A s \in DOMAIN w[l] : w[l][s] =
            NotPast(GridFrom(t[s], 100 * AtLeast(depth, Step) * SpreadFactors[l]), Step)

\* They are quotes.
LEMMA FlatAreQuotes ==
    ASSUME NEW w, NEW t, NEW depth \in Depths, FlatQuotes(w, t, depth)
    PROVE  Quoted(w)
<1>. USE DEF FlatQuotes
<1>. DEFINE d == 100 * AtLeast(depth, Step)
            e == [l \in Ladder |-> [s \in BothSides |-> d * SpreadFactors[l]]]
<1>1. d \in Nat \ {0}
  BY LeastDepth
<1>2. ASSUME NEW l \in Ladder, NEW s \in DOMAIN w[l]
      PROVE  /\ s \in BothSides /\ e[l][s] \in Nat \ {0}
             /\ w[l][s] = GridFrom(t[s], e[l][s])
             /\ \A k \in 0..l : s \in DOMAIN w[k] => e[k][s] <= e[l][s]
  <2>1. s \in BothSides /\ w[l][s] = NotPast(GridFrom(t[s], d * SpreadFactors[l]), Step)
    OBVIOUS
  <2>. HIDE DEF d
  <2>2. /\ d * SpreadFactors[l] \in Nat \ {0}
        /\ \A k \in 0..l : k \in Ladder /\ d * SpreadFactors[k] <= d * SpreadFactors[l]
    BY <1>1, FactorsKeepOrder
  <2>3. w[l][s] = GridFrom(t[s], d * SpreadFactors[l])
    BY <2>1, <2>2, NeverPast
  <2>4. \A k \in Ladder : e[k][s] = d * SpreadFactors[k]
    BY <2>1
  <2>. HIDE DEF e
  <2>. QED BY <2>1, <2>2, <2>3, <2>4
<1>. HIDE DEF e, d
<1>3. DOMAIN w = Ladder /\ \A s \in BothSides : t[s] \in Int
  OBVIOUS
<1>4. Rounded(w, t, e)
  BY <1>2, <1>3 DEF Rounded
<1>. QED BY <1>4, RoundedAreQuotes

\* What the model quotes.
ModelQuotes(w, t, sides, depth) ==
    /\ DOMAIN w = Ladder /\ \A s \in BothSides : t[s] \in Int
    /\ \A l \in Ladder :
        /\ DOMAIN w[l] = sides
        /\ \A s \in DOMAIN w[l] : w[l][s] =
            IF l = 0 THEN GridFrom(t[s], 100 * depth)
            ELSE GridFrom(t[s], 100 * GridFrom(t[s], 100 * depth) * SpreadFactors[l])

\* They are quotes.
LEMMA ModelAreQuotes ==
    ASSUME NEW w, NEW t, NEW sides \in SUBSET BothSides, NEW depth \in Depths,
           ModelQuotes(w, t, sides, depth)
    PROVE  Quoted(w)
<1>. USE DEF ModelQuotes
<1>. DEFINE d == 100 * depth
            lift(s) == 100 * GridFrom(t[s], d)
            e == [l \in Ladder |-> [s \in BothSides |->
                    IF l = 0 THEN d ELSE lift(s) * SpreadFactors[l]]]
<1>1. d \in Nat \ {0}
  BY PriceNumbers
<1>2. ASSUME NEW l \in Ladder, NEW s \in DOMAIN w[l]
      PROVE  /\ s \in BothSides /\ e[l][s] \in Nat \ {0}
             /\ w[l][s] = GridFrom(t[s], e[l][s])
             /\ \A k \in 0..l : s \in DOMAIN w[k] => e[k][s] <= e[l][s]
  <2>. DEFINE f == lift(s)
  <2>1. s \in BothSides /\ t[s] \in Int
        /\ w[l][s] = IF l = 0 THEN GridFrom(t[s], d)
                     ELSE GridFrom(t[s], f * SpreadFactors[l])
    OBVIOUS
  <2>2. \A k \in Ladder : e[k][s] = IF k = 0 THEN d ELSE f * SpreadFactors[k]
    BY <2>1
  <2>. HIDE DEF e
  <2>3. f \in Nat \ {0} /\ d <= f
    <3>. DEFINE g == GridFrom(t[s], d)
    <3>. HIDE DEF d
    <3>1. g \in Nat \ {0} /\ d <= 100 * g
      BY <1>1, <2>1, NeverPast
    <3>. HIDE DEF g
    <3>2. 100 * g \in Nat \ {0}
      BY <3>1
    <3>. QED BY <3>1, <3>2 DEF g
  <2>. HIDE DEF d, f
  <2>4. /\ f * SpreadFactors[l] \in Nat \ {0} /\ f <= f * SpreadFactors[l]
        /\ \A k \in 0..l : k \in Ladder /\ f * SpreadFactors[k] <= f * SpreadFactors[l]
    BY <2>3, FactorsKeepOrder
  <2>5. e[l][s] \in Nat \ {0} /\ w[l][s] = GridFrom(t[s], e[l][s])
    BY <1>1, <2>1, <2>2, <2>4
  <2>6. ASSUME NEW k \in 0..l PROVE e[k][s] <= e[l][s]
    <3>. DEFINE x == f * SpreadFactors[l]  y == f * SpreadFactors[k]
    <3>1. l \in Nat /\ k \in Nat /\ k <= l
      BY PriceNumbers DEF Ladder
    <3>2. e[l][s] = (IF l = 0 THEN d ELSE x) /\ e[k][s] = (IF k = 0 THEN d ELSE y)
      BY <2>2, <2>4
    <3>3. x \in Nat /\ f <= x /\ y <= x
      BY <2>4
    <3>4. y \in Int
      <4>1. k \in Ladder
        BY <2>4
      <4>. QED BY <2>3, <4>1, FactorsKeepOrder
    <3>. HIDE DEF x, y
    <3>5. k = 0 \/ l # 0
      BY <3>1
    <3>6. CASE k = 0
      BY <1>1, <2>3, <3>2, <3>3, <3>6
    <3>7. CASE k # 0
      BY <3>2, <3>3, <3>5, <3>7
    <3>. QED BY <3>6, <3>7
  <2>. QED BY <2>1, <2>5, <2>6
<1>. HIDE DEF e, d
<1>3. DOMAIN w = Ladder /\ \A s \in BothSides : t[s] \in Int
  OBVIOUS
<1>4. Rounded(w, t, e)
  BY <1>2, <1>3 DEF Rounded
<1>. QED BY <1>4, RoundedAreQuotes

\* Quotes that were scaled by a factor of their side, from a least distance on.
Scaled(w, t, q, f, c) ==
    /\ DOMAIN w = Ladder /\ Quoted(q) /\ \A s \in BothSides : t[s] \in Int
    /\ \A l \in Ladder : \A s \in DOMAIN w[l] :
        /\ s \in DOMAIN q[l] /\ f[s] \in Nat \ {0}
        /\ w[l][s] = GridFrom(t[s], AtLeast(q[l][s], c) * f[s])

\* They are quotes.
LEMMA ScaledAreQuotes ==
    ASSUME NEW w, NEW t, NEW q, NEW f, NEW c \in Nat, Scaled(w, t, q, f, c)
    PROVE  Quoted(w)
<1>. DEFINE e == [l \in Ladder |-> [s \in BothSides |-> AtLeast(q[l][s], c) * f[s]]]
<1>1. DOMAIN w = Ladder /\ \A s \in BothSides : t[s] \in Int
  BY DEF Scaled
<1>2. ASSUME NEW l \in Ladder, NEW s \in DOMAIN w[l]
      PROVE  /\ s \in BothSides /\ e[l][s] \in Nat \ {0}
             /\ w[l][s] = GridFrom(t[s], e[l][s])
             /\ \A k \in 0..l : s \in DOMAIN w[k] => e[k][s] <= e[l][s]
  <2>. DEFINE x == q[l][s]  p == f[s]  u == AtLeast(x, c)
  <2>1. s \in DOMAIN q[l] /\ p \in Nat \ {0} /\ w[l][s] = GridFrom(t[s], u * p)
    BY DEF Scaled
  <2>2. s \in BothSides /\ x \in Nat \ {0}
        /\ \A k \in 0..l : s \in DOMAIN q[k] => q[k][s] <= x
    BY <2>1 DEF Scaled, Quoted
  <2>3. e[l][s] = u * p
    BY <2>2
  <2>4. u * p \in Nat \ {0} /\ u \in Nat \ {0}
    <3>. HIDE DEF x, p
    <3>1. u \in Nat \ {0}
      BY <2>2 DEF AtLeast
    <3>. HIDE DEF u
    <3>. QED BY <2>1, <3>1
  <2>5. ASSUME NEW k \in 0..l, s \in DOMAIN w[k] PROVE e[k][s] <= e[l][s]
    <3>. DEFINE y == q[k][s]  v == AtLeast(y, c)
    <3>1. k \in Ladder
      BY PriceNumbers DEF Ladder
    <3>2. s \in DOMAIN q[k]
      BY <2>5, <3>1 DEF Scaled
    <3>3. y \in Nat \ {0} /\ y <= x
      BY <2>2, <3>1, <3>2 DEF Scaled, Quoted
    <3>4. e[k][s] = v * p
      BY <2>2, <3>1
    <3>. HIDE DEF e, x, y
    <3>5. v \in Nat /\ u \in Nat /\ v <= u
      BY <2>2, <3>3 DEF AtLeast
    <3>. HIDE DEF u, v, p
    <3>6. v * p <= u * p
      BY <2>1, <3>5, ProductKeepsOrder
    <3>. QED BY <2>3, <3>4, <3>6
  <2>. HIDE DEF e
  <2>. QED BY <2>1, <2>2, <2>3, <2>4, <2>5
<1>. HIDE DEF e
<1>3. Rounded(w, t, e)
  BY <1>1, <1>2 DEF Rounded
<1>. QED BY <1>3, RoundedAreQuotes

\* Prices that are each side's from one of two quotes.
FromBoth(w, leaves, a, b) ==
    /\ DOMAIN w = Ladder
    /\ \A l \in Ladder : \A s \in DOMAIN w[l] :
        IF s \in leaves THEN s \in DOMAIN a[l] /\ w[l][s] = a[l][s]
        ELSE s \in DOMAIN b[l] /\ w[l][s] = b[l][s]

\* They are quotes.
LEMMA SidesOfBoth ==
    ASSUME NEW w, NEW leaves, NEW a, NEW b, Quoted(a), Quoted(b), FromBoth(w, leaves, a, b)
    PROVE  Quoted(w)
<1>1. ASSUME NEW l \in Ladder, NEW s \in DOMAIN w[l]
      PROVE  /\ s \in BothSides /\ w[l][s] \in Nat \ {0}
             /\ \A k \in 0..l : s \in DOMAIN w[k] => w[k][s] <= w[l][s]
  <2>1. \A k \in 0..l : k \in Ladder
    BY PriceNumbers DEF Ladder
  <2>2. CASE s \in leaves
    <3>1. \A k \in Ladder : s \in DOMAIN w[k] => s \in DOMAIN a[k] /\ w[k][s] = a[k][s]
      BY <2>2 DEF FromBoth
    <3>. QED BY <2>1, <3>1 DEF Quoted
  <2>3. CASE s \notin leaves
    <3>1. \A k \in Ladder : s \in DOMAIN w[k] => s \in DOMAIN b[k] /\ w[k][s] = b[k][s]
      BY <2>3 DEF FromBoth
    <3>. QED BY <2>1, <3>1 DEF Quoted
  <2>. QED BY <2>2, <2>3
<1>. QED BY <1>1 DEF Quoted, FromBoth

\* An exit that is not scaled up stays within the grid of what it was given.
LEMMA NoFarther ==
    ASSUME NEW t \in Int, NEW x \in Nat, NEW p \in Nat, NEW d \in Nat,
           p <= GridFrom(t, 100 * AtLeast(x, Step)), d <= 100 * AtLeast(p, Step)
    PROVE  GridFrom(t, d) <= GridFrom(t, 100 * AtLeast(x, Step))
<1>. DEFINE c == 100 * AtLeast(x, Step)  b == GridFrom(t, c)
<1>1. c \in Nat /\ 100 * Step <= c
  BY PriceNumbers DEF AtLeast
<1>2. p <= b
  OBVIOUS
<1>. HIDE DEF c
<1>3. b \in Int /\ c <= 100 * b /\ GridFrom(t, 100 * b) = b
  BY <1>1, GridKeepsOrder
<1>. HIDE DEF b
<1>4. AtLeast(p, Step) \in Nat /\ AtLeast(p, Step) <= b
  BY <1>1, <1>2, <1>3, PriceNumbers DEF AtLeast
<1>5. d <= 100 * b /\ 100 * b \in Int
  BY <1>3, <1>4
<1>6. GridFrom(t, d) <= b
  BY <1>3, <1>5, GridKeepsOrder
<1>. QED BY <1>6 DEF b, c

-----------------------------------------------------------------------------
(* QuotePrices: the functions of the loop. *)

\* Where the grid starts on either side of the middle.
Middle == [s \in BothSides |-> ToGrid(s)]

\* The position leaves on one side, or there is none.
OnTheGrid == offset \in 0..(Step - 1) /\ carries \in -1..1

\* Where the grid starts, and the sides a position leaves on.
LEMMA MiddleIs ==
    ASSUME OnTheGrid
    PROVE  /\ \A s \in BothSides : Middle[s] \in Int
           /\ \A s \in BothSides : \A d : Outwards(s, d) = GridFrom(Middle[s], d)
           /\ Leaving \in SUBSET BothSides /\ (carries = 0 => Leaving = {})
<1>1. \A s \in BothSides : ToGrid(s) \in Int
  BY GridOfMiddle DEF OnTheGrid, ToGrid
<1>2. \A s \in BothSides : Middle[s] = ToGrid(s)
  BY DEF Middle
<1>3. Leaving \in SUBSET BothSides /\ (carries = 0 => Leaving = {})
  BY DEF Leaving, BothSides, OnTheGrid
<1>. QED BY <1>1, <1>2, <1>3 DEF Outwards, GridFrom

\* The exits of the quotes g are in the quotes p and, but for the grid, no
\* farther away; what p has beside the exits g has, no farther away.
Kept(g, p) ==
    \A l \in Ladder : \A s \in BothSides :
        IF s \in Leaving
        THEN s \in DOMAIN g[l] =>
                /\ s \in DOMAIN p[l]
                /\ p[l][s] <= GridFrom(Middle[s], 100 * AtLeast(g[l][s], Step))
        ELSE s \in DOMAIN p[l] => s \in DOMAIN g[l] /\ p[l][s] >= g[l][s]

\* Quotes that are widened are quotes.
LEMMA WidenedAreQuotes ==
    ASSUME OnTheGrid, NEW q, Quoted(q), NEW pct \in Widenings
    PROVE  Quoted(Widened(q, pct))
<1>. DEFINE w == Widened(q, pct)  f == [s \in BothSides |-> pct]
<1>1. pct \in Nat \ {0}
  BY PriceNumbers
<1>2. CASE pct <= 100
  BY <1>2 DEF Widened
<1>3. CASE ~(pct <= 100)
  <2>1. DOMAIN w = Ladder /\ \A l \in Ladder : DOMAIN w[l] = DOMAIN q[l]
    BY <1>3 DEF Widened
  <2>2. ASSUME NEW l \in Ladder, NEW s \in DOMAIN w[l]
        PROVE  /\ s \in DOMAIN q[l] /\ f[s] \in Nat \ {0}
               /\ w[l][s] = GridFrom(Middle[s], AtLeast(q[l][s], 0) * f[s])
    <3>1. s \in DOMAIN q[l] /\ s \in BothSides
      BY <2>1, <2>2 DEF Quoted
    <3>2. w[l][s] = Outwards(s, AtLeast(q[l][s], 0) * pct)
      BY <1>3, <3>1 DEF Widened
    <3>3. f[s] = pct
      BY <3>1
    <3>. HIDE DEF w, f
    <3>. QED BY <1>1, <3>1, <3>2, <3>3, MiddleIs
  <2>. HIDE DEF w, f
  <2>3. Scaled(w, Middle, q, f, 0)
    BY <2>1, <2>2, MiddleIs DEF Scaled
  <2>. QED BY <2>3, ScaledAreQuotes DEF w
<1>. QED BY <1>2, <1>3

\* The fallback's exits are quotes and hold nothing but exits.
LEMMA OneExitKeeps ==
    ASSUME OnTheGrid, NEW depth \in Depths
    PROVE  /\ Quoted(OneExit(depth))
           /\ \A l \in Ladder : DOMAIN OneExit(depth)[l] \subseteq Leaving
<1>. DEFINE w == OneExit(depth)
<1>1. DOMAIN w = Ladder /\ \A l \in Ladder : DOMAIN w[l] = IF l = 0 THEN Leaving ELSE {}
  BY DEF OneExit
<1>2. ASSUME NEW l \in Ladder, NEW s \in DOMAIN w[l]
      PROVE  w[l][s] = NotPast(GridFrom(Middle[s], 100 * AtLeast(depth, Step)), Step)
  <2>1. s \in BothSides
    BY <1>1, MiddleIs
  <2>2. w[l][s] = NotPast(Outwards(s, 100 * AtLeast(depth, Step)), Step)
    BY <1>1, <1>2 DEF OneExit
  <2>. HIDE DEF w
  <2>. QED BY <2>1, <2>2, MiddleIs
<1>. HIDE DEF w
<1>3. Quoted(w)
  <2>1. ExitPrices(w, Middle, Leaving, depth)
    BY <1>1, <1>2, MiddleIs DEF ExitPrices
  <2>. QED BY <2>1, MiddleIs, OneExitIsQuote
<1>4. \A l \in Ladder : DOMAIN w[l] \subseteq Leaving
  BY <1>1
<1>. QED BY <1>3, <1>4 DEF w

\* The guards keep the exits, and put one there if they leave nothing.
LEMMA SidesLeftKeep ==
    ASSUME OnTheGrid, NEW q, Quoted(q), NEW out \in SUBSET (BothSides \ Leaving),
           NEW depth \in Depths
    PROVE  Quoted(SidesLeft(q, out, depth)) /\ Kept(q, SidesLeft(q, out, depth))
<1>. DEFINE rest == [l \in Ladder |-> [s \in DOMAIN q[l] \ out |-> q[l][s]]]
            one == OneExit(depth)
            w == SidesLeft(q, out, depth)
<1>1. DOMAIN rest = Ladder
      /\ \A l \in Ladder : DOMAIN rest[l] = DOMAIN q[l] \ out
                           /\ \A s \in DOMAIN rest[l] : rest[l][s] = q[l][s]
  OBVIOUS
<1>2. w = rest \/ (w = one /\ rest = NoPrices)
  BY DEF SidesLeft
<1>3. \A l \in Ladder : DOMAIN NoPrices[l] = {}
  BY DEF NoPrices
<1>. HIDE DEF rest, w
<1>4. CASE w = rest
  <2>1. Quoted(w)
    BY <1>1, <1>4, FewerQuotes
  <2>2. ASSUME NEW l \in Ladder, NEW s \in BothSides
        PROVE  IF s \in Leaving
               THEN s \in DOMAIN q[l] =>
                    /\ s \in DOMAIN w[l]
                    /\ w[l][s] <= GridFrom(Middle[s], 100 * AtLeast(q[l][s], Step))
               ELSE s \in DOMAIN w[l] => s \in DOMAIN q[l] /\ w[l][s] >= q[l][s]
    <3>. DEFINE x == q[l][s]
    <3>1. s \in DOMAIN q[l] => x \in Nat \ {0}
      BY DEF Quoted
    <3>2. CASE s \in Leaving
      <4>1. SUFFICES ASSUME s \in DOMAIN q[l]
                     PROVE  s \in DOMAIN w[l]
                            /\ w[l][s] <= GridFrom(Middle[s], 100 * AtLeast(q[l][s], Step))
        BY <3>2
      <4>2. s \in DOMAIN w[l] /\ w[l][s] = x
        BY <1>1, <1>4, <3>2, <4>1
      <4>. DEFINE u == AtLeast(x, Step)  t == Middle[s]  b == GridFrom(t, 100 * u)
      <4>3. x \in Nat /\ t \in Int
        BY <3>1, <4>1, MiddleIs
      <4>. HIDE DEF x, t
      <4>4. u \in Nat /\ x <= u
        BY <4>3, PriceNumbers DEF AtLeast
      <4>. HIDE DEF u
      <4>5. b \in Int /\ 100 * u <= 100 * b
        <5>1. 100 * u \in Int
          BY <4>4
        <5>. QED BY <4>3, <5>1, GridKeepsOrder
      <4>. HIDE DEF b
      <4>6. x <= b
        BY <4>3, <4>4, <4>5
      <4>. QED BY <4>2, <4>6 DEF b, t, u, x
    <3>3. CASE s \notin Leaving
      <4>1. s \in DOMAIN w[l] => s \in DOMAIN q[l] /\ w[l][s] = x
        BY <1>1, <1>4
      <4>2. x \in Nat \ {0} => x >= x
        OBVIOUS
      <4>. HIDE DEF x
      <4>3. s \in DOMAIN w[l] => s \in DOMAIN q[l] /\ w[l][s] >= x
        BY <3>1, <4>1, <4>2
      <4>. QED BY <3>3, <4>3 DEF x
    <3>. QED BY <3>2, <3>3
  <2>. QED BY <2>1, <2>2 DEF Kept, w
<1>5. CASE w = one /\ rest = NoPrices
  <2>1. Quoted(w) /\ \A l \in Ladder : DOMAIN w[l] \subseteq Leaving
    BY <1>5, OneExitKeeps
  <2>2. \A l \in Ladder : \A s \in Leaving : s \notin DOMAIN q[l]
    BY <1>1, <1>3, <1>5
  <2>3. Kept(q, w)
    BY <2>1, <2>2 DEF Kept
  <2>. QED BY <2>1, <2>3 DEF w
<1>. QED BY <1>2, <1>4, <1>5

\* Exits that are rounded from what is no farther than before, and other quotes that
\* do not come closer.
Tightened(p, w) ==
    \A l \in Ladder : \A s \in BothSides :
        IF s \in Leaving
        THEN s \in DOMAIN p[l] =>
                /\ s \in DOMAIN w[l]
                /\ \/ w[l][s] = p[l][s]
                   \/ \E d \in Nat : d <= 100 * AtLeast(p[l][s], Step)
                                     /\ w[l][s] = GridFrom(Middle[s], d)
        ELSE s \in DOMAIN w[l] => s \in DOMAIN p[l] /\ w[l][s] >= p[l][s]

\* What is tightened again is still kept.
LEMMA StaysKept ==
    ASSUME OnTheGrid, NEW g, NEW p, NEW w, Quoted(g), Quoted(p), Quoted(w), Kept(g, p),
           Tightened(p, w)
    PROVE  Kept(g, w)
<1>1. ASSUME NEW l \in Ladder, NEW s \in BothSides, s \in Leaving, s \in DOMAIN g[l]
      PROVE  /\ s \in DOMAIN w[l]
             /\ w[l][s] <= GridFrom(Middle[s], 100 * AtLeast(g[l][s], Step))
  <2>. DEFINE x == g[l][s]  y == p[l][s]  t == Middle[s]
              b == GridFrom(t, 100 * AtLeast(x, Step))
  <2>1. s \in DOMAIN p[l] /\ y <= b
    BY <1>1 DEF Kept
  <2>2. s \in DOMAIN w[l] /\ (w[l][s] = y \/ \E d \in Nat : d <= 100 * AtLeast(y, Step)
                                                           /\ w[l][s] = GridFrom(t, d))
    BY <1>1, <2>1 DEF Tightened
  <2>3. x \in Nat /\ y \in Nat /\ t \in Int
    BY <1>1, <2>1, MiddleIs DEF Quoted
  <2>. HIDE DEF x, y, t
  <2>4. CASE w[l][s] = y
    BY <2>1, <2>2, <2>4 DEF x, t
  <2>5. CASE \E d \in Nat : d <= 100 * AtLeast(y, Step) /\ w[l][s] = GridFrom(t, d)
    <3>1. PICK d \in Nat : d <= 100 * AtLeast(y, Step) /\ w[l][s] = GridFrom(t, d)
      BY <2>5
    <3>2. GridFrom(t, d) <= b
      BY <2>1, <2>3, <3>1, NoFarther
    <3>. QED BY <2>2, <3>1, <3>2 DEF x, t
  <2>. QED BY <2>2, <2>4, <2>5
<1>2. ASSUME NEW l \in Ladder, NEW s \in BothSides, s \notin Leaving, s \in DOMAIN w[l]
      PROVE  s \in DOMAIN g[l] /\ w[l][s] >= g[l][s]
  <2>1. s \in DOMAIN p[l] /\ w[l][s] >= p[l][s]
    BY <1>2 DEF Tightened
  <2>2. s \in DOMAIN g[l] /\ p[l][s] >= g[l][s]
    BY <1>2, <2>1 DEF Kept
  <2>. DEFINE x == g[l][s]  y == p[l][s]  z == w[l][s]
  <2>3. x \in Nat /\ y \in Nat /\ z \in Nat /\ z >= y /\ y >= x
    BY <1>2, <2>1, <2>2 DEF Quoted
  <2>. HIDE DEF x, y, z
  <2>4. z >= x
    BY <2>3
  <2>. QED BY <2>2, <2>4 DEF x, z
<1>. QED BY <1>1, <1>2 DEF Kept

\* A distance scaled by so many percent.
LEMMA ScaledBy ==
    ASSUME NEW u \in Nat, NEW pct \in Nat
    PROVE  /\ u * pct \in Nat /\ (pct <= 100 => u * pct <= 100 * u)
           /\ (pct >= 100 => u * pct >= 100 * u)
<1>1. u * pct = pct * u /\ u * pct \in Nat
  OBVIOUS
<1>2. ASSUME pct <= 100 PROVE pct * u <= 100 * u
  BY <1>2, ProductKeepsOrder
<1>3. ASSUME pct >= 100 PROVE pct * u >= 100 * u
  <2>1. 100 * u <= pct * u /\ pct * u \in Int
    BY <1>3, ProductKeepsOrder
  <2>. QED BY <2>1
<1>. QED BY <1>1, <1>2, <1>3

\* The exit bias tightens exits and widens the rest.
LEMMA BiasKeeps ==
    ASSUME OnTheGrid, NEW q, Quoted(q), NEW tighter \in Tightenings, NEW wider \in Widenings
    PROVE  Quoted(Biased(q, tighter, wider)) /\ (carries # 0 => Tightened(q, Biased(q, tighter, wider)))
<1>. DEFINE w == Biased(q, tighter, wider)
            acts == ~(carries = 0 \/ (tighter = 100 /\ wider = 100))
            f == [s \in BothSides |-> IF s \in Leaving THEN AtLeast(tighter, 5) ELSE wider]
<1>1. CASE ~acts
  <2>1. w = q
    BY <1>1 DEF Biased
  <2>. HIDE DEF w
  <2>2. \A l \in Ladder : \A s \in DOMAIN q[l] : q[l][s] >= q[l][s]
    BY DEF Quoted
  <2>3. Tightened(q, q)
    BY <2>2 DEF Tightened
  <2>. QED BY <2>1, <2>3 DEF w
<1>2. CASE acts
  <2>1. DOMAIN w = Ladder /\ \A l \in Ladder : DOMAIN w[l] = DOMAIN q[l]
    BY <1>2 DEF Biased
  <2>2. ASSUME NEW s \in BothSides
        PROVE  /\ f[s] \in Nat \ {0} /\ (s \in Leaving => f[s] <= 100)
               /\ (s \notin Leaving => f[s] >= 100)
    <3>1. tighter \in Nat /\ tighter <= 100 /\ wider \in Nat /\ wider >= 100
      BY PriceNumbers
    <3>2. AtLeast(tighter, 5) \in Nat \ {0} /\ AtLeast(tighter, 5) <= 100
      BY <3>1 DEF AtLeast
    <3>. DEFINE a == AtLeast(tighter, 5)
    <3>3. f[s] = IF s \in Leaving THEN a ELSE wider
      OBVIOUS
    <3>. HIDE DEF a
    <3>. QED BY <3>1, <3>2, <3>3 DEF a
  <2>3. ASSUME NEW l \in Ladder, NEW s \in DOMAIN w[l]
        PROVE  /\ s \in DOMAIN q[l] /\ s \in BothSides /\ q[l][s] \in Nat \ {0}
               /\ w[l][s] = GridFrom(Middle[s], AtLeast(q[l][s], Step) * f[s])
    <3>. DEFINE x == q[l][s]  u == AtLeast(x, Step)  p == f[s]
    <3>1. s \in DOMAIN q[l] /\ s \in BothSides /\ x \in Nat \ {0}
      BY <2>1, <2>3 DEF Quoted
    <3>2. w[l][s] = NotPast(Outwards(s, u * p), Outwards(s, 100 * Step))
      BY <1>2, <3>1 DEF Biased
    <3>3. p \in Nat \ {0} /\ Middle[s] \in Int
      BY <2>2, <3>1, MiddleIs
    <3>4. Outwards(s, u * p) = GridFrom(Middle[s], u * p)
      BY <3>1, MiddleIs
    <3>. HIDE DEF w, f, p, x
    <3>5. u \in Nat \ {0}
      BY <3>1, PriceNumbers DEF AtLeast
    <3>. HIDE DEF u
    <3>6. u * p \in Nat \ {0}
      BY <3>3, <3>5
    <3>7. w[l][s] = GridFrom(Middle[s], u * p)
      <4>. DEFINE d == u * p
      <4>1. d \in Nat \ {0} /\ w[l][s] = NotPast(GridFrom(Middle[s], d), Outwards(s, 100 * Step))
        BY <3>2, <3>4, <3>6
      <4>. HIDE DEF d
      <4>. QED BY <3>3, <4>1, NeverPast DEF d
    <3>. QED BY <3>1, <3>7 DEF u, p, x
  <2>. HIDE DEF w, f
  <2>4. Quoted(w)
    <3>1. \A s \in BothSides : f[s] \in Nat \ {0}
      BY <2>2
    <3>2. Scaled(w, Middle, q, f, Step)
      BY <2>1, <2>3, <3>1, MiddleIs DEF Scaled
    <3>. QED BY <3>2, ScaledAreQuotes, PriceNumbers
  <2>5. Tightened(q, w)
    <3>1. ASSUME NEW l \in Ladder, NEW s \in BothSides, s \in DOMAIN w[l]
          PROVE  IF s \in Leaving
                 THEN \E d \in Nat : d <= 100 * AtLeast(q[l][s], Step)
                                     /\ w[l][s] = GridFrom(Middle[s], d)
                 ELSE w[l][s] >= q[l][s]
      <4>. DEFINE x == q[l][s]  u == AtLeast(x, Step)  p == f[s]  d == u * p
      <4>1. x \in Nat \ {0} /\ w[l][s] = GridFrom(Middle[s], d) /\ Middle[s] \in Int
        BY <2>3, <3>1, MiddleIs
      <4>2. /\ p \in Nat /\ (s \in Leaving => p <= 100) /\ (s \notin Leaving => p >= 100)
        BY <2>2, <3>1
      <4>. HIDE DEF x, p
      <4>3. u \in Nat /\ u >= x
        BY <4>1, PriceNumbers DEF AtLeast
      <4>. HIDE DEF u
      <4>4. d \in Nat /\ (p <= 100 => d <= 100 * u) /\ (p >= 100 => d >= 100 * u)
        BY <4>2, <4>3, ScaledBy
      <4>. HIDE DEF d
      <4>5. CASE s \in Leaving
        <5>1. d <= 100 * u
          BY <4>2, <4>4, <4>5
        <5>. QED BY <4>1, <4>4, <4>5, <5>1 DEF u, x
      <4>6. CASE s \notin Leaving
        <5>1. 100 * x <= d
          BY <4>1, <4>2, <4>3, <4>4, <4>6
        <5>. DEFINE t == Middle[s]  g == GridFrom(t, d)
        <5>2. g \in Int /\ d <= 100 * g
          <6>1. t \in Int
            BY <4>1
          <6>2. d \in Int
            BY <4>4
          <6>. HIDE DEF t
          <6>. QED BY ONLY <6>1, <6>2, GridKeepsOrder
        <5>3. w[l][s] = g
          BY <4>1
        <5>. HIDE DEF g
        <5>4. g >= x
          BY <4>1, <4>4, <5>1, <5>2
        <5>. QED BY <4>6, <5>3, <5>4 DEF x
      <4>. QED BY <4>5, <4>6
    <3>. QED BY <2>1, <3>1 DEF Tightened
  <2>. QED BY <2>4, <2>5 DEF w
<1>. QED BY <1>1, <1>2

\* The exit-only mode keeps nothing but exits, and puts one there if there is none.
LEMMA ExitsOnlyKeep ==
    ASSUME OnTheGrid, NEW q, Quoted(q), NEW tighter \in Tightenings \cup {0},
           NEW depth \in Depths
    PROVE  Quoted(ExitsOnly(q, tighter, depth)) /\ Tightened(q, ExitsOnly(q, tighter, depth))
<1>. DEFINE rest == [l \in Ladder |-> [s \in DOMAIN q[l] \cap Leaving |->
                        IF tighter = 0 THEN q[l][s]
                        ELSE NotPast(Outwards(s, AtLeast(q[l][s], Step) * tighter), Step)]]
            one == OneExit(depth)
            w == ExitsOnly(q, tighter, depth)
<1>1. DOMAIN rest = Ladder
      /\ \A l \in Ladder : DOMAIN rest[l] = DOMAIN q[l] \cap Leaving
  OBVIOUS
<1>2. \A l \in Ladder : \A s \in DOMAIN rest[l] : rest[l][s] =
        IF tighter = 0 THEN q[l][s]
        ELSE NotPast(Outwards(s, AtLeast(q[l][s], Step) * tighter), Step)
  OBVIOUS
<1>3. w = rest \/ (w = one /\ rest = NoPrices)
  BY DEF ExitsOnly
<1>4. \A l \in Ladder : DOMAIN NoPrices[l] = {}
  BY DEF NoPrices
<1>. HIDE DEF rest, w
<1>5. CASE w = rest
  <2>1. CASE tighter = 0
    <3>1. \A l \in Ladder : \A s \in DOMAIN w[l] : s \in DOMAIN q[l] /\ w[l][s] = q[l][s]
      BY <1>1, <1>2, <1>5, <2>1
    <3>2. Quoted(w)
      BY <1>1, <1>5, <3>1, FewerQuotes
    <3>3. Tightened(q, w)
      BY <1>1, <1>5, <3>1 DEF Tightened
    <3>. QED BY <3>2, <3>3 DEF w
  <2>2. CASE tighter # 0
    <3>. DEFINE f == [s \in BothSides |-> tighter]
    <3>1. tighter \in Nat \ {0} /\ tighter <= 100
      BY <2>2, PriceNumbers
    <3>2. ASSUME NEW l \in Ladder, NEW s \in DOMAIN w[l]
          PROVE  /\ s \in DOMAIN q[l] /\ s \in Leaving /\ f[s] = tighter
                 /\ AtLeast(q[l][s], Step) \in Nat
                 /\ w[l][s] = GridFrom(Middle[s], AtLeast(q[l][s], Step) * tighter)
      <4>. DEFINE x == q[l][s]  u == AtLeast(x, Step)  d == u * tighter
      <4>1. s \in DOMAIN q[l] /\ s \in Leaving /\ s \in BothSides /\ x \in Nat \ {0}
        BY <1>1, <1>5, <3>2 DEF Quoted
      <4>2. w[l][s] = NotPast(Outwards(s, d), Step)
        BY <1>2, <1>5, <2>2
      <4>3. u \in Nat \ {0}
        <5>. HIDE DEF x
        <5>. QED BY <4>1, PriceNumbers DEF AtLeast
      <4>4. d \in Nat \ {0}
        <5>. HIDE DEF u
        <5>. QED BY <3>1, <4>3
      <4>5. Outwards(s, d) = GridFrom(Middle[s], d) /\ Middle[s] \in Int /\ f[s] = tighter
        BY <4>1, MiddleIs
      <4>6. w[l][s] = GridFrom(Middle[s], d)
        <5>. HIDE DEF d
        <5>. QED BY <4>2, <4>4, <4>5, NeverPast
      <4>7. u \in Nat
        BY <4>3
      <4>. QED BY <4>1, <4>5, <4>6, <4>7
    <3>3. Scaled(w, Middle, q, f, Step)
      <4>1. DOMAIN w = Ladder /\ \A s \in BothSides : Middle[s] \in Int
        BY <1>1, <1>5, MiddleIs
      <4>. HIDE DEF f
      <4>2. ASSUME NEW l \in Ladder, NEW s \in DOMAIN w[l]
            PROVE  /\ s \in DOMAIN q[l] /\ f[s] \in Nat \ {0}
                   /\ w[l][s] = GridFrom(Middle[s], AtLeast(q[l][s], Step) * f[s])
        BY <3>1, <3>2
      <4>. QED BY <4>1, <4>2 DEF Scaled
    <3>4. Quoted(w)
      <4>. HIDE DEF f
      <4>. QED BY <3>3, ScaledAreQuotes, PriceNumbers
    <3>5. \A l \in Ladder : \A s \in DOMAIN w[l] : \E d \in Nat :
            d <= 100 * AtLeast(q[l][s], Step) /\ w[l][s] = GridFrom(Middle[s], d)
      <4>. TAKE l \in Ladder
      <4>. TAKE s \in DOMAIN w[l]
      <4>. DEFINE u == AtLeast(q[l][s], Step)  d == u * tighter
      <4>1. u \in Nat /\ w[l][s] = GridFrom(Middle[s], d)
        BY <3>2
      <4>. HIDE DEF u
      <4>2. d \in Nat /\ d <= 100 * u
        BY <3>1, <4>1, ScaledBy
      <4>. HIDE DEF d
      <4>. QED BY <4>1, <4>2 DEF u
    <3>6. Tightened(q, w)
      <4>1. \A l \in Ladder : DOMAIN w[l] = DOMAIN q[l] \cap Leaving
        BY <1>1, <1>5
      <4>. QED BY <3>5, <4>1 DEF Tightened
    <3>. QED BY <3>4, <3>6 DEF w
  <2>. QED BY <2>1, <2>2
<1>6. CASE w = one /\ rest = NoPrices
  <2>1. Quoted(w) /\ \A l \in Ladder : DOMAIN w[l] \subseteq Leaving
    BY <1>6, OneExitKeeps
  <2>2. \A l \in Ladder : \A s \in Leaving : s \notin DOMAIN q[l]
    BY <1>1, <1>4, <1>6
  <2>3. Tightened(q, w)
    BY <2>1, <2>2 DEF Tightened
  <2>. QED BY <2>1, <2>3 DEF w
<1>. QED BY <1>3, <1>5, <1>6

\* The profit capture brings exits closer and leaves the rest.
LEMMA CaptureKeeps ==
    ASSUME OnTheGrid, NEW q, Quoted(q), NEW depth \in Depths
    PROVE  Quoted(Captured(q, depth)) /\ Tightened(q, Captured(q, depth))
<1>. DEFINE w == Captured(q, depth)
            c == AtLeast(depth, Step)
            a == [l \in Ladder |-> [s \in DOMAIN q[l] \cap Leaving |-> w[l][s]]]
            e == [l \in Ladder |-> [s \in BothSides |->
                    100 * AtMost(AtLeast(q[l][s], Step), c * SpreadFactors[l])]]
<1>1. DOMAIN w = Ladder /\ \A l \in Ladder : DOMAIN w[l] = DOMAIN q[l]
  BY DEF Captured
<1>2. ASSUME NEW l \in Ladder, NEW s \in DOMAIN w[l], s \notin Leaving
      PROVE  w[l][s] = q[l][s]
  BY <1>1, <1>2 DEF Captured
<1>3. c \in Nat \ {0}
  BY LeastDepth
<1>4. ASSUME NEW l \in Ladder, NEW s \in DOMAIN w[l], s \in Leaving
      PROVE  /\ s \in BothSides /\ e[l][s] \in Nat \ {0}
             /\ e[l][s] = 100 * AtMost(AtLeast(q[l][s], Step), c * SpreadFactors[l])
             /\ e[l][s] <= 100 * AtLeast(q[l][s], Step)
             /\ w[l][s] = GridFrom(Middle[s], e[l][s])
  <2>. DEFINE x == q[l][s]  u == AtLeast(x, Step)  m == c * SpreadFactors[l]
              d == 100 * AtMost(u, m)
  <2>1. s \in BothSides /\ x \in Nat \ {0}
    BY <1>1, <1>4 DEF Quoted
  <2>2. e[l][s] = d
    BY <2>1
  <2>3. w[l][s] = NotPast(Outwards(s, d), Outwards(s, 100 * Step))
    BY <1>1, <1>4 DEF Captured
  <2>4. Outwards(s, d) = GridFrom(Middle[s], d) /\ Middle[s] \in Int
    BY <2>1, MiddleIs
  <2>. HIDE DEF w, e, x
  <2>5. u \in Nat \ {0}
    BY <2>1, PriceNumbers DEF AtLeast
  <2>6. m \in Nat \ {0}
    <3>. HIDE DEF c
    <3>. QED BY <1>3, FactorsKeepOrder
  <2>. HIDE DEF u, m
  <2>7. d \in Nat \ {0} /\ d <= 100 * u
    BY <2>5, <2>6 DEF AtMost
  <2>8. w[l][s] = GridFrom(Middle[s], d)
    <3>. HIDE DEF d
    <3>. QED BY <2>3, <2>4, <2>7, NeverPast
  <2>. QED BY <2>1, <2>2, <2>7, <2>8 DEF u, m, x
<1>5. Quoted(a)
  <2>1. DOMAIN a = Ladder
        /\ \A l \in Ladder : /\ DOMAIN a[l] = DOMAIN q[l] \cap Leaving
                             /\ \A s \in DOMAIN a[l] : a[l][s] = w[l][s]
    OBVIOUS
  <2>. HIDE DEF a, e, w
  <2>2. ASSUME NEW l \in Ladder, NEW s \in DOMAIN a[l]
        PROVE  /\ s \in BothSides /\ e[l][s] \in Nat \ {0}
               /\ a[l][s] = GridFrom(Middle[s], e[l][s])
               /\ \A k \in 0..l : s \in DOMAIN a[k] => e[k][s] <= e[l][s]
    <3>1. s \in DOMAIN w[l] /\ s \in Leaving /\ a[l][s] = w[l][s]
      BY <1>1, <2>1, <2>2
    <3>2. s \in BothSides /\ e[l][s] \in Nat \ {0} /\ a[l][s] = GridFrom(Middle[s], e[l][s])
      BY <1>4, <3>1
    <3>3. ASSUME NEW k \in 0..l, s \in DOMAIN a[k] PROVE e[k][s] <= e[l][s]
      <4>. DEFINE x == q[l][s]  y == q[k][s]  m == c * SpreadFactors[l]
                  n == c * SpreadFactors[k]  u == AtLeast(x, Step)  v == AtLeast(y, Step)
      <4>1. k \in Ladder
        BY PriceNumbers DEF Ladder
      <4>2. s \in DOMAIN w[k]
        BY <1>1, <2>1, <3>3, <4>1
      <4>3. e[l][s] = 100 * AtMost(u, m) /\ e[k][s] = 100 * AtMost(v, n)
        BY <1>4, <3>1, <4>1, <4>2
      <4>4. x \in Nat /\ y \in Nat /\ y <= x
        BY <1>1, <3>1, <4>1, <4>2 DEF Quoted
      <4>5. m \in Nat /\ n \in Nat /\ n <= m
        <5>. HIDE DEF c
        <5>. QED BY <1>3, <4>1, FactorsKeepOrder
      <4>. HIDE DEF x, y, m, n
      <4>6. u \in Nat /\ v \in Nat /\ v <= u
        BY <4>4, PriceNumbers DEF AtLeast
      <4>. HIDE DEF u, v
      <4>7. 100 * AtMost(v, n) <= 100 * AtMost(u, m)
        BY <4>5, <4>6 DEF AtMost
      <4>. QED BY <4>3, <4>7
    <3>. QED BY <3>2, <3>3
  <2>3. Rounded(a, Middle, e)
    BY <2>1, <2>2, MiddleIs DEF Rounded
  <2>. QED BY <2>3, RoundedAreQuotes
<1>6. Quoted(w)
  <2>1. \A l \in Ladder : \A s \in DOMAIN w[l] :
            IF s \in Leaving THEN s \in DOMAIN a[l] /\ w[l][s] = a[l][s]
            ELSE s \in DOMAIN q[l] /\ w[l][s] = q[l][s]
    <3>1. \A l \in Ladder : /\ DOMAIN a[l] = DOMAIN q[l] \cap Leaving
                            /\ \A s \in DOMAIN a[l] : a[l][s] = w[l][s]
      OBVIOUS
    <3>. HIDE DEF a, w
    <3>. QED BY <1>1, <1>2, <3>1
  <2>. HIDE DEF a, w
  <2>2. FromBoth(w, Leaving, a, q)
    BY <1>1, <2>1 DEF FromBoth
  <2>. QED BY <1>5, <2>2, SidesOfBoth
<1>7. Tightened(q, w)
  <2>. HIDE DEF w, e
  <2>1. ASSUME NEW l \in Ladder, NEW s \in BothSides, s \in Leaving, s \in DOMAIN q[l]
        PROVE  s \in DOMAIN w[l] /\ \E d \in Nat : d <= 100 * AtLeast(q[l][s], Step)
                                               /\ w[l][s] = GridFrom(Middle[s], d)
    BY <1>1, <1>4, <2>1
  <2>2. ASSUME NEW l \in Ladder, NEW s \in BothSides, s \notin Leaving, s \in DOMAIN w[l]
        PROVE  s \in DOMAIN q[l] /\ w[l][s] >= q[l][s]
    <3>1. s \in DOMAIN q[l] /\ w[l][s] = q[l][s] /\ q[l][s] \in Nat
      BY <1>1, <1>2, <2>2 DEF Quoted
    <3>. QED BY <3>1
  <2>. QED BY <2>1, <2>2 DEF Tightened
<1>. QED BY <1>6, <1>7 DEF w

-----------------------------------------------------------------------------
(* QuotePrices: the quotes of a tick. *)

\* The quotes before the guards and the ones now are quotes.
PriceTypes == OnTheGrid /\ Quoted(given) /\ Quoted(placed)

\* Until the guards act nothing has moved; from then on the exits are kept.
PriceInv ==
    /\ PriceTypes
    /\ IF stage \in {"idle", "quality", "toxic", "guards"} THEN given = placed
       ELSE carries # 0 => Kept(given, placed)

\* No quotes are quotes.
LEMMA NoPricesAreQuotes == Quoted(NoPrices)
<1>1. DOMAIN NoPrices = Ladder /\ \A l \in Ladder : DOMAIN NoPrices[l] = {}
  BY DEF NoPrices
<1>. QED BY <1>1 DEF Quoted

\* Quotes that have not moved keep their exits.
LEMMA UnmovedIsKept ==
    ASSUME OnTheGrid, NEW q, Quoted(q)
    PROVE  Kept(q, q)
<1>1. ASSUME NEW l \in Ladder, NEW s \in BothSides, s \in DOMAIN q[l]
      PROVE  /\ q[l][s] >= q[l][s]
             /\ q[l][s] <= GridFrom(Middle[s], 100 * AtLeast(q[l][s], Step))
  <2>. DEFINE x == q[l][s]  u == 100 * AtLeast(x, Step)  t == Middle[s]
  <2>1. x \in Nat /\ t \in Int
    BY <1>1, MiddleIs DEF Quoted
  <2>. HIDE DEF x, t
  <2>2. u \in Nat /\ 100 * x <= u
    BY <2>1, PriceNumbers DEF AtLeast
  <2>. HIDE DEF u
  <2>3. GridFrom(t, u) \in Int /\ u <= 100 * GridFrom(t, u)
    BY <2>1, <2>2, GridKeepsOrder
  <2>4. x >= x /\ x <= GridFrom(t, u)
    BY <2>1, <2>2, <2>3
  <2>. QED BY <2>4 DEF x, t, u
<1>. QED BY <1>1 DEF Kept

\* The order of the loop.
LEMMA StageOrder ==
    ASSUME NEW to, Goes(to)
    PROVE  stage' = to /\ (to = "bias" => stage = "guards")
<1>1. stage' = to
  BY DEF Goes
<1>2. Len(Stages) = 8
  BY DEF Stages
<1>3. PICK i \in 1..7 : stage = Stages[i] /\ to = Stages[i + 1]
  BY <1>2 DEF Goes
<1>4. i \in {1, 2, 3, 4, 5, 6, 7}
  BY <1>3
<1>5. ASSUME to = "bias" PROVE i = 4
  BY <1>3, <1>4, <1>5 DEF Stages
<1>6. Stages[4] = "guards"
  BY DEF Stages
<1>. QED BY <1>1, <1>3, <1>5, <1>6

\* What a tick starts from is quoted.
LEMMA OffersQuote == PriceInv /\ Offers => PriceInv'
<1>. SUFFICES ASSUME NEW off \in 0..(Step - 1), NEW sign \in -1..1,
                     NEW sides \in SUBSET BothSides, NEW depth \in Depths,
                     Offered(off, sign, sides, depth)
              PROVE  PriceInv'
  BY DEF Offers
<1>1. offset' = off /\ carries' = sign /\ given' = placed' /\ stage' = "quality"
      /\ placed' = IF sides # {} THEN ModelPrices(sides, depth)'
                   ELSE IF sign # 0 THEN OneExit(depth)' ELSE FlatPrices(depth)'
  BY StageOrder DEF Offered
<1>2. OnTheGrid'
  BY <1>1 DEF OnTheGrid
<1>. DEFINE t == [s \in BothSides |-> ToGrid(s)']
<1>3. \A s \in BothSides : t[s] \in Int /\ t[s] = ToGrid(s)'
  <2>1. \A s \in BothSides : ToGrid(s)' \in Int
    BY <1>1, GridOfMiddle DEF ToGrid
  <2>. QED BY <2>1
<1>4. \A s \in BothSides : \A d : Outwards(s, d)' = GridFrom(t[s], d)
  BY <1>3 DEF Outwards, GridFrom
<1>. HIDE DEF t
<1>5. Quoted(placed')
  <2>1. CASE sides # {}
    <3>. DEFINE w == placed'
    <3>1. w = ModelPrices(sides, depth)'
      BY <1>1, <2>1
    <3>2. DOMAIN w = Ladder /\ \A l \in Ladder : DOMAIN w[l] = sides
      BY <3>1 DEF ModelPrices
    <3>3. ASSUME NEW l \in Ladder, NEW s \in DOMAIN w[l]
          PROVE  w[l][s] = IF l = 0 THEN GridFrom(t[s], 100 * depth)
                     ELSE GridFrom(t[s], 100 * GridFrom(t[s], 100 * depth) * SpreadFactors[l])
      <4>1. s \in BothSides /\ s \in sides
        BY <3>2
      <4>2. w[l][s] = IF l = 0 THEN Outwards(s, 100 * depth)'
                      ELSE Outwards(s, 100 * Outwards(s, 100 * depth) * SpreadFactors[l])'
        BY <3>1, <4>1 DEF ModelPrices
      <4>3. Outwards(s, 100 * depth)' = GridFrom(t[s], 100 * depth)
        BY <1>4, <4>1
      <4>4. Outwards(s, 100 * Outwards(s, 100 * depth) * SpreadFactors[l])'
            = GridFrom(t[s], 100 * GridFrom(t[s], 100 * depth) * SpreadFactors[l])
        BY <1>3, <4>1 DEF Outwards, GridFrom
      <4>. HIDE DEF w
      <4>. QED BY <4>2, <4>3, <4>4
    <3>. HIDE DEF w
    <3>4. ModelQuotes(w, t, sides, depth)
      BY <1>3, <3>2, <3>3 DEF ModelQuotes
    <3>5. Quoted(w)
      BY <3>4, ModelAreQuotes
    <3>. QED BY <3>5 DEF w
  <2>2. CASE sides = {} /\ sign # 0
    <3>. DEFINE w == placed'  leaves == Leaving'
    <3>1. w = OneExit(depth)'
      BY <1>1, <2>2
    <3>2. DOMAIN w = Ladder /\ \A l \in Ladder : DOMAIN w[l] = IF l = 0 THEN leaves ELSE {}
      BY <3>1 DEF OneExit
    <3>3. leaves \in SUBSET BothSides
      BY DEF Leaving, BothSides
    <3>4. ASSUME NEW l \in Ladder, NEW s \in DOMAIN w[l]
          PROVE  w[l][s] = NotPast(GridFrom(t[s], 100 * AtLeast(depth, Step)), Step)
      <4>1. s \in BothSides
        BY <3>2, <3>3
      <4>2. w[l][s] = NotPast(Outwards(s, 100 * AtLeast(depth, Step)), Step)'
        BY <3>1, <3>2 DEF OneExit
      <4>3. Outwards(s, 100 * AtLeast(depth, Step))'
            = GridFrom(t[s], 100 * AtLeast(depth, Step))
        BY <1>4, <4>1
      <4>. HIDE DEF w
      <4>. QED BY <4>2, <4>3 DEF NotPast
    <3>. HIDE DEF w, leaves
    <3>5. ExitPrices(w, t, leaves, depth)
      BY <1>3, <3>2, <3>4 DEF ExitPrices
    <3>6. Quoted(w)
      BY <3>3, <3>5, OneExitIsQuote
    <3>. QED BY <3>6 DEF w
  <2>3. CASE sides = {} /\ sign = 0
    <3>. DEFINE w == placed'
    <3>1. w = FlatPrices(depth)'
      BY <1>1, <2>3
    <3>2. DOMAIN w = Ladder /\ \A l \in Ladder : DOMAIN w[l] = BothSides
      BY <3>1 DEF FlatPrices
    <3>3. ASSUME NEW l \in Ladder, NEW s \in DOMAIN w[l]
          PROVE  w[l][s] =
                   NotPast(GridFrom(t[s], 100 * AtLeast(depth, Step) * SpreadFactors[l]), Step)
      <4>1. s \in BothSides
        BY <3>2
      <4>2. w[l][s] = NotPast(Outwards(s, 100 * AtLeast(depth, Step) * SpreadFactors[l]), Step)'
        BY <3>1, <4>1 DEF FlatPrices
      <4>3. Outwards(s, 100 * AtLeast(depth, Step) * SpreadFactors[l])'
            = GridFrom(t[s], 100 * AtLeast(depth, Step) * SpreadFactors[l])
        BY <1>4, <4>1
      <4>. HIDE DEF w
      <4>. QED BY <4>2, <4>3 DEF NotPast
    <3>. HIDE DEF w
    <3>4. FlatQuotes(w, t, depth)
      BY <1>3, <3>2, <3>3 DEF FlatQuotes
    <3>5. Quoted(w)
      BY <3>4, FlatAreQuotes
    <3>. QED BY <3>5 DEF w
  <2>. QED BY <2>1, <2>2, <2>3
<1>6. PriceTypes'
  BY <1>1, <1>2, <1>5 DEF PriceTypes
<1>. QED BY <1>1, <1>6 DEF PriceInv

\* The multipliers are before the guards.
LEMMA MultipliersKeep ==
    ASSUME PriceInv, NEW pct \in Widenings, Multiplied(pct)
    PROVE  PriceInv'
<1>1. placed' = Widened(placed, pct) /\ given' = placed' /\ offset' = offset
      /\ carries' = carries /\ stage' \in {"toxic", "guards"}
  BY StageOrder DEF Multiplied
<1>2. Quoted(placed')
  BY <1>1, WidenedAreQuotes DEF PriceInv, PriceTypes
<1>3. PriceTypes'
  BY <1>1, <1>2 DEF PriceInv, PriceTypes, OnTheGrid
<1>. QED BY <1>1, <1>3 DEF PriceInv

\* Quotes that are kept and put in their place are so afterwards.
LEMMA MoveKeeps ==
    ASSUME PriceInv, NEW to, NEW q, PricesMove(to, q), Quoted(q),
           to \notin {"idle", "quality", "toxic", "guards"},
           carries # 0 => Kept(given, q)
    PROVE  PriceInv'
<1>1. placed' = q /\ given' = given /\ offset' = offset /\ carries' = carries /\ stage' = to
  BY StageOrder DEF PricesMove
<1>2. PriceTypes'
  BY <1>1 DEF PriceInv, PriceTypes, OnTheGrid
<1>3. Middle' = Middle /\ Leaving' = Leaving
  BY <1>1 DEF Middle, ToGrid, Leaving
<1>4. carries' # 0 => Kept(given, placed)'
  BY <1>1, <1>3 DEF Kept
<1>. QED BY <1>1, <1>2, <1>4 DEF PriceInv

\* A step after the guards that only tightens.
LEMMA TighteningKeeps ==
    ASSUME PriceInv, NEW to, NEW q, PricesMove(to, q), Quoted(q),
           to \in {"exit", "capture", "done"}, carries # 0 => Tightened(placed, q)
    PROVE  PriceInv'
<1>1. OnTheGrid /\ Quoted(given) /\ Quoted(placed)
  BY DEF PriceInv, PriceTypes
<1>2. carries # 0 => Kept(given, placed)
  BY <1>1, UnmovedIsKept DEF PriceInv
<1>3. carries # 0 => Kept(given, q)
  BY <1>1, <1>2, StaysKept
<1>. QED BY <1>3, MoveKeeps

\* What stays is not moved away.
LEMMA UnmovedIsTight ==
    ASSUME NEW q, Quoted(q)
    PROVE  Tightened(q, q)
<1>1. \A l \in Ladder : \A s \in DOMAIN q[l] : q[l][s] >= q[l][s]
  BY DEF Quoted
<1>. QED BY <1>1 DEF Tightened

\* The guards act on what has not moved yet.
LEMMA GuardsKeep == PriceInv /\ GuardsAct => PriceInv'
<1>. SUFFICES ASSUME PriceInv, NEW out \in SUBSET (BothSides \ Leaving), NEW depth \in Depths,
                     PricesMove("bias", SidesLeft(placed, out, depth))
              PROVE  PriceInv'
  BY DEF GuardsAct
<1>1. OnTheGrid /\ Quoted(placed)
  BY DEF PriceInv, PriceTypes
<1>2. stage = "guards"
  BY StageOrder DEF PricesMove
<1>3. given = placed
  BY <1>2 DEF PriceInv
<1>. DEFINE q == SidesLeft(placed, out, depth)
<1>4. Quoted(q) /\ Kept(placed, q)
  BY <1>1, SidesLeftKeep
<1>5. PricesMove("bias", q)
  OBVIOUS
<1>. HIDE DEF q
<1>. QED BY <1>3, <1>4, <1>5, MoveKeeps

\* Every step keeps the invariant.
LEMMA PriceKeeps == PriceInv /\ [PriceNext]_priceVars => PriceInv'
<1>. SUFFICES ASSUME PriceInv, [PriceNext]_priceVars PROVE PriceInv'
  OBVIOUS
<1>1. OnTheGrid /\ Quoted(placed)
  BY DEF PriceInv, PriceTypes
<1>2. CASE Offers
  BY <1>2, OffersQuote
<1>3. CASE \E pct \in Widenings : Multiplied(pct)
  BY <1>3, MultipliersKeep
<1>4. CASE GuardsAct
  BY <1>4, GuardsKeep
<1>5. CASE BiasActs
  <2>1. PICK tighter \in Tightenings, wider \in Widenings :
             PricesMove("exit", Biased(placed, tighter, wider))
    BY <1>5 DEF BiasActs
  <2>. DEFINE q == Biased(placed, tighter, wider)
  <2>2. Quoted(q) /\ (carries # 0 => Tightened(placed, q))
    BY <1>1, BiasKeeps
  <2>3. PricesMove("exit", q)
    BY <2>1
  <2>. HIDE DEF q
  <2>. QED BY <2>2, <2>3, TighteningKeeps
<1>6. CASE ExitActs
  <2>1. CASE PricesMove("capture", placed)
    BY <1>1, <2>1, UnmovedIsTight, TighteningKeeps
  <2>2. ASSUME NEW tighter \in Tightenings \cup {0}, NEW depth \in Depths,
               PricesMove("capture", ExitsOnly(placed, tighter, depth))
        PROVE  PriceInv'
    <3>. DEFINE q == ExitsOnly(placed, tighter, depth)
    <3>1. Quoted(q) /\ Tightened(placed, q)
      BY <1>1, ExitsOnlyKeep
    <3>2. PricesMove("capture", q)
      BY <2>2
    <3>. HIDE DEF q
    <3>. QED BY <3>1, <3>2, TighteningKeeps
  <2>. QED BY <1>6, <2>1, <2>2 DEF ExitActs
<1>7. CASE CaptureActs
  <2>1. CASE PricesMove("done", placed)
    BY <1>1, <2>1, UnmovedIsTight, TighteningKeeps
  <2>2. ASSUME NEW depth \in Depths, PricesMove("done", Captured(placed, depth))
        PROVE  PriceInv'
    <3>. DEFINE q == Captured(placed, depth)
    <3>1. Quoted(q) /\ Tightened(placed, q)
      BY <1>1, CaptureKeeps
    <3>2. PricesMove("done", q)
      BY <2>2
    <3>. HIDE DEF q
    <3>. QED BY <3>1, <3>2, TighteningKeeps
  <2>. QED BY <1>7, <2>1, <2>2 DEF CaptureActs
<1>8. CASE TickOver
  <2>1. offset' \in 0..(Step - 1) /\ carries' \in -1..1
    BY <1>8, PriceNumbers DEF TickOver
  <2>. QED BY <1>8, <2>1, NoPricesAreQuotes DEF TickOver, PriceInv, PriceTypes, OnTheGrid
<1>9. CASE UNCHANGED priceVars
  <2>1. Middle' = Middle /\ Leaving' = Leaving
    BY <1>9 DEF priceVars, Middle, ToGrid, Leaving
  <2>. QED BY <1>9, <2>1 DEF priceVars, PriceInv, PriceTypes, OnTheGrid, Kept
<1>. QED BY <1>2, <1>3, <1>4, <1>5, <1>6, <1>7, <1>8, <1>9 DEF PriceNext

\* The invariant holds throughout.
LEMMA PriceIsInv == PriceSpec => []PriceInv
<1>1. PriceInit => PriceInv
  <2>1. 0 \in 0..(Step - 1) /\ 0 \in -1..1
    BY PriceNumbers
  <2>. QED BY <2>1, NoPricesAreQuotes DEF PriceInit, PriceInv, PriceTypes, OnTheGrid
<1>. QED BY <1>1, PriceKeeps, PTL DEF PriceSpec

\* Through the functions of the loop that move a tick's quotes, and through all their
\* roundings, every quote stays on its side of the middle, levels stay in order, the
\* exits of a position are neither lost to the guards nor moved farther away by more
\* than the grid, and what adds to it does not come closer: for every tick of the
\* grid, every ladder and all factors.
THEOREM QuotesStayInOrder == PriceSpec => []QuotesKeepOrder
<1>1. PriceInv => QuotesKeepOrder
  <2>. SUFFICES ASSUME PriceInv PROVE QuotesKeepOrder
    OBVIOUS
  <2>1. OnTheGrid /\ Quoted(given) /\ Quoted(placed)
    BY DEF PriceInv, PriceTypes
  <2>2. carries # 0 => Kept(given, placed)
    BY <2>1, UnmovedIsKept DEF PriceInv
  <2>3. ASSUME NEW l \in Ladder, NEW s \in DOMAIN placed[l]
        PROVE  /\ placed[l][s] > 0
               /\ \A k \in 0..l : s \in DOMAIN placed[k] => placed[k][s] <= placed[l][s]
    BY <2>1 DEF Quoted
  <2>4. ASSUME NEW l \in Ladder, NEW s \in DOMAIN placed[l],
               s \in DOMAIN given[l], carries # 0
        PROVE  IF s \in Leaving
               THEN placed[l][s] <= Outwards(s, 100 * AtLeast(given[l][s], Step))
               ELSE placed[l][s] >= given[l][s]
    <3>1. s \in BothSides
      BY <2>1, <2>4 DEF Quoted
    <3>2. Outwards(s, 100 * AtLeast(given[l][s], Step))
          = GridFrom(Middle[s], 100 * AtLeast(given[l][s], Step))
      BY <2>1, <3>1, MiddleIs
    <3>. QED BY <2>2, <2>4, <3>1, <3>2 DEF Kept
  <2>. QED BY <2>3, <2>4 DEF QuotesKeepOrder
<1>. QED BY <1>1, PriceIsInv, PTL

-----------------------------------------------------------------------------
(* The trade log of a dry run. *)

\* Rows of a file, a buffer or a job: none of them twice.
RowsOf(s) == {s[i] : i \in 1..Len(s)}
OneRowEach(s) ==
    s \in Seq(Nat) /\ \A i, j \in 1..Len(s) : s[i] = s[j] => i = j

\* The rows with the worker.
AtWork == IF jobs = {} THEN <<>> ELSE (CHOOSE j \in jobs : TRUE).rows

\* There is one job at most, and rows are with it only while it appends them.
JobIs(job) ==
    /\ {"at", "wallet", "rows"} \subseteq DOMAIN job
    /\ job.at # "append" => job.rows = <<>>

JobsAre ==
    /\ \A job \in jobs : JobIs(job)
    /\ \A j, k \in jobs : j = k

RowsApart ==
    /\ OneRowEach(csv) /\ OneRowEach(AtWork) /\ OneRowEach(buffer)
    /\ RowsOf(csv) \cap RowsOf(AtWork) = {}
    /\ RowsOf(csv) \cap RowsOf(buffer) = {}
    /\ RowsOf(AtWork) \cap RowsOf(buffer) = {}

RowsInv ==
    /\ made \in Nat /\ first \in Nat \ {0}
    /\ JobsAre /\ RowsApart
    /\ RowsOf(csv) \cup RowsOf(AtWork) \cup RowsOf(buffer) \subseteq 1..made
    /\ mode = "up" => first..made \subseteq RowsOf(csv) \cup RowsOf(AtWork) \cup RowsOf(buffer)
    /\ mode = "down" => jobs = {} /\ buffer = <<>>

\* No rows.
LEMMA NoRows == OneRowEach(<<>>) /\ RowsOf(<<>>) = {}
<1>1. <<>> \in Seq(Nat) /\ Len(<<>>) = 0
  BY EmptySeq
<1>. QED BY <1>1 DEF OneRowEach, RowsOf

\* Rows put behind others that are not among them.
LEMMA RowsJoined ==
    ASSUME NEW a, NEW b, OneRowEach(a), OneRowEach(b)
    PROVE  /\ a \o b \in Seq(Nat) /\ RowsOf(a \o b) = RowsOf(a) \cup RowsOf(b)
           /\ RowsOf(a) \cap RowsOf(b) = {} => OneRowEach(a \o b)
<1>. DEFINE c == a \o b
            m == Len(a)
            n == Len(b)
<1>1. a \in Seq(Nat) /\ b \in Seq(Nat) /\ m \in Nat /\ n \in Nat
  BY LenProperties DEF OneRowEach
<1>2. /\ c \in Seq(Nat) /\ Len(c) = m + n
      /\ \A i \in 1..(m + n) : c[i] = IF i <= m THEN a[i] ELSE b[i - m]
  BY <1>1, ConcatProperties
<1>3. \A i \in 1..m : i \in 1..(m + n) /\ c[i] = a[i]
  BY <1>1, <1>2
<1>4. \A i \in 1..n : i + m \in 1..(m + n) /\ c[i + m] = b[i]
  <2>. TAKE i \in 1..n
  <2>1. i + m \in 1..(m + n) /\ ~(i + m <= m) /\ (i + m) - m = i
    BY <1>1
  <2>. QED BY <1>2, <2>1
<1>5. \A i \in 1..(m + n) : \/ i \in 1..m /\ c[i] = a[i]
                            \/ i - m \in 1..n /\ c[i] = b[i - m]
  BY <1>1, <1>2
<1>6. RowsOf(c) = RowsOf(a) \cup RowsOf(b)
  <2>. HIDE DEF c
  <2>1. RowsOf(c) \subseteq RowsOf(a) \cup RowsOf(b)
    BY <1>2, <1>5 DEF RowsOf
  <2>2. RowsOf(a) \subseteq RowsOf(c)
    BY <1>2, <1>3 DEF RowsOf
  <2>3. RowsOf(b) \subseteq RowsOf(c)
    BY <1>2, <1>4 DEF RowsOf
  <2>. QED BY <2>1, <2>2, <2>3
<1>7. ASSUME RowsOf(a) \cap RowsOf(b) = {} PROVE OneRowEach(c)
  <2>1. \A i \in 1..m, j \in 1..n : a[i] # b[j]
    BY <1>7 DEF RowsOf
  <2>2. \A i, j \in 1..m : a[i] = a[j] => i = j
    BY DEF OneRowEach
  <2>3. \A i, j \in 1..n : b[i] = b[j] => i = j
    BY DEF OneRowEach
  <2>. HIDE DEF c, m, n
  <2>4. ASSUME NEW i \in 1..(m + n), NEW j \in 1..(m + n), c[i] = c[j]
        PROVE  i = j
    <3>1. CASE i \in 1..m /\ j \in 1..m
      BY <1>3, <2>2, <2>4, <3>1
    <3>2. CASE i \in 1..m /\ j \notin 1..m
      BY <1>3, <1>5, <2>1, <2>4, <3>2
    <3>3. CASE i \notin 1..m /\ j \in 1..m
      BY <1>3, <1>5, <2>1, <2>4, <3>3
    <3>4. CASE i \notin 1..m /\ j \notin 1..m
      <4>1. i - m \in 1..n /\ j - m \in 1..n /\ b[i - m] = b[j - m]
        BY <1>5, <2>4, <3>4
      <4>2. i - m = j - m
        BY <2>3, <4>1
      <4>. QED BY <1>1, <4>2
    <3>. QED BY <3>1, <3>2, <3>3, <3>4
  <2>. QED BY <1>2, <2>4 DEF OneRowEach
<1>. QED BY <1>2, <1>6, <1>7

\* The rows with a job that is the only one.
LEMMA WorkOfJob ==
    ASSUME JobsAre, NEW job \in jobs
    PROVE  jobs = {job} /\ JobIs(job) /\ AtWork = job.rows
<1>1. jobs = {job} /\ JobIs(job)
  BY DEF JobsAre
<1>2. (CHOOSE j \in jobs : TRUE) = job
  BY <1>1
<1>. QED BY <1>1, <1>2 DEF AtWork

\* The fills of a look at the book are rows of their own.
LEMMA NewRows ==
    ASSUME NEW n \in Nat, NEW k \in Nat, NEW s, s = [i \in 1..k |-> n + i]
    PROVE  OneRowEach(s) /\ RowsOf(s) = (n + 1)..(n + k)
<1>1. s \in [1..k -> Nat] /\ \A i \in 1..k : s[i] = n + i
  OBVIOUS
<1>2. s \in Seq(Nat) /\ Len(s) = k
  BY <1>1, SeqOfLength
<1>3. RowsOf(s) \subseteq (n + 1)..(n + k)
  BY <1>1, <1>2 DEF RowsOf
<1>4. ASSUME NEW x \in (n + 1)..(n + k) PROVE x \in RowsOf(s)
  <2>1. x - n \in 1..k /\ s[x - n] = x
    BY <1>1
  <2>. QED BY <1>2, <2>1 DEF RowsOf
<1>5. \A i, j \in 1..Len(s) : s[i] = s[j] => i = j
  BY <1>1, <1>2
<1>. QED BY <1>2, <1>3, <1>4, <1>5 DEF OneRowEach

-----------------------------------------------------------------------------

\* There are no rows at the start.
LEMMA RowsStart == DryInit => RowsInv
<1>. SUFFICES ASSUME DryInit PROVE RowsInv
  OBVIOUS
<1>1. made = 0 /\ first = 1 /\ csv = <<>> /\ buffer = <<>> /\ AtWork = <<>> /\ jobs = {}
  BY DEF DryInit, AtWork
<1>2. RowsApart
  BY <1>1, NoRows DEF RowsApart
<1>. QED BY <1>1, <1>2, NoRows DEF RowsInv, JobsAre

\* Steps of orders leave the log alone.
LEMMA OrderRows ==
    ASSUME RowsInv, UNCHANGED <<made, buffer, csv, jobs, mode, first>>
    PROVE  RowsInv'
BY DEF RowsInv, RowsApart, JobsAre, AtWork

\* Fills go into the buffer.
LEMMA FillRows ==
    ASSUME RowsInv, NEW found, NEW top, CheckFills(found, top)
    PROVE  RowsInv'
<1>1. UNCHANGED <<csv, jobs, mode, first>>
  BY DEF CheckFills
<1>2. PICK k \in Nat : made' = made + k /\ buffer' = buffer \o [i \in 1..k |-> made + i]
  <2>. DEFINE o == [s \in DOMAIN live |-> Landed(live[s], top)]
              n == [s \in DrySides |->
                       IF s \in DOMAIN live THEN Takes(o[s], found, top) ELSE 0]
              hit == {s \in DrySides : n[s] > 0}
  <2>1. made' = made + Cardinality(hit)
    BY DEF CheckFills
  <2>2. buffer' = buffer \o [i \in 1..Cardinality(hit) |-> made + i]
    BY DEF CheckFills
  <2>3. IsFiniteSet(DrySides)
    <3>1. IsFiniteSet({"buy"})
      BY FS_Singleton
    <3>2. DrySides = {"buy"} \cup {"sell"}
      BY DEF DrySides
    <3>. QED BY <3>1, <3>2, FS_AddElement
  <2>4. hit \subseteq DrySides
    OBVIOUS
  <2>. HIDE DEF hit
  <2>5. Cardinality(hit) \in Nat
    BY <2>3, <2>4, FS_Subset, FS_CardinalityType
  <2>. QED BY <2>1, <2>2, <2>5
<1>. DEFINE new == [i \in 1..k |-> made + i]
<1>3. made \in Nat
  BY DEF RowsInv
<1>4. OneRowEach(new) /\ RowsOf(new) = (made + 1)..(made + k)
  BY <1>3, NewRows
<1>. HIDE DEF new
<1>5. buffer' = buffer \o new
  BY <1>2 DEF new
<1>6. /\ RowsApart
      /\ RowsOf(csv) \cup RowsOf(AtWork) \cup RowsOf(buffer) \subseteq 1..made
  BY DEF RowsInv
<1>7. ((made + 1)..(made + k)) \cap (1..made) = {}
  BY <1>3
<1>8. RowsOf(buffer) \cap RowsOf(new) = {}
  BY <1>4, <1>6, <1>7
<1>9. RowsOf(buffer') = RowsOf(buffer) \cup RowsOf(new) /\ OneRowEach(buffer')
  BY <1>4, <1>5, <1>6, <1>8, RowsJoined DEF RowsApart
<1>10. AtWork' = AtWork /\ csv' = csv
  BY <1>1 DEF AtWork
<1>11. RowsApart'
  BY <1>4, <1>6, <1>7, <1>9, <1>10 DEF RowsApart
<1>12. 1..made' = (1..made) \cup ((made + 1)..(made + k)) /\ made' \in Nat
  BY <1>2, <1>3
<1>13. RowsOf(csv') \cup RowsOf(AtWork') \cup RowsOf(buffer') \subseteq 1..made'
  BY <1>4, <1>6, <1>9, <1>10, <1>12
<1>14. mode' = "up" => first'..made' \subseteq
                          RowsOf(csv') \cup RowsOf(AtWork') \cup RowsOf(buffer')
  <2>. SUFFICES ASSUME mode = "up"
                PROVE  first..made' \subseteq RowsOf(csv) \cup RowsOf(AtWork) \cup RowsOf(buffer')
    BY <1>1, <1>10
  <2>1. first..made \subseteq RowsOf(csv) \cup RowsOf(AtWork) \cup RowsOf(buffer)
    BY DEF RowsInv
  <2>2. first..made' \subseteq (first..made) \cup ((made + 1)..(made + k))
    BY <1>2, <1>3 DEF RowsInv
  <2>. QED BY <1>4, <1>9, <2>1, <2>2
<1>15. mode' # "down" /\ JobsAre' /\ first' \in Nat \ {0}
  BY <1>1 DEF CheckFills, RowsInv, JobsAre
<1>. QED BY <1>11, <1>12, <1>13, <1>14, <1>15 DEF RowsInv

\* The rows change places; none is lost as long as the program runs.
LEMMA RowsMove ==
    ASSUME RowsInv, UNCHANGED <<made, first>>, JobsAre', RowsApart',
           RowsOf(csv') \cup RowsOf(AtWork') \cup RowsOf(buffer')
               \subseteq RowsOf(csv) \cup RowsOf(AtWork) \cup RowsOf(buffer),
           mode' = "up" => /\ mode = "up"
                           /\ RowsOf(csv) \cup RowsOf(AtWork) \cup RowsOf(buffer) \subseteq
                              RowsOf(csv') \cup RowsOf(AtWork') \cup RowsOf(buffer'),
           mode' = "down" => jobs' = {} /\ buffer' = <<>>
    PROVE  RowsInv'
<1>. DEFINE Held == RowsOf(csv) \cup RowsOf(AtWork) \cup RowsOf(buffer)
            HeldNext == RowsOf(csv') \cup RowsOf(AtWork') \cup RowsOf(buffer')
<1>1. HeldNext \subseteq Held /\ (mode' = "up" => mode = "up" /\ Held \subseteq HeldNext)
  OBVIOUS
<1>2. Held \subseteq 1..made /\ (mode = "up" => first..made \subseteq Held)
  BY DEF RowsInv
<1>. HIDE DEF Held, HeldNext
<1>3. HeldNext \subseteq 1..made' /\ (mode' = "up" => first'..made' \subseteq HeldNext)
  BY <1>1, <1>2
<1>4. made' \in Nat /\ first' \in Nat \ {0}
  BY DEF RowsInv
<1>. QED BY <1>3, <1>4 DEF RowsInv, HeldNext

\* A summary hands over a job that has no rows yet.
LEMMA SummaryRows == ASSUME RowsInv, Summary PROVE RowsInv'
<1>. DEFINE job == [at |-> "write", wallet |-> wallet, rows |-> <<>>]
<1>1. jobs = {} /\ jobs' = {job} /\ UNCHANGED <<buffer, csv, mode, first, made>>
  BY DEF Summary, DiskRest, walletVars
<1>2. JobIs(job) /\ job.rows = <<>>
  BY DEF JobIs
<1>. HIDE DEF job
<1>3. JobsAre'
  BY <1>1, <1>2 DEF JobsAre
<1>4. AtWork = <<>>
  BY <1>1 DEF AtWork
<1>5. AtWork' = <<>>
  <2>1. (CHOOSE j \in jobs' : TRUE) = job /\ jobs' # {}
    BY <1>1
  <2>. QED BY <1>2, <2>1 DEF AtWork
<1>6. RowsApart'
  BY <1>1, <1>4, <1>5 DEF RowsInv, RowsApart
<1>7. mode' # "down"
  BY <1>1 DEF Summary
<1>. QED BY <1>1, <1>3, <1>4, <1>5, <1>6, <1>7, RowsMove

\* The job goes on to the next of its steps.
LEMMA JobRows ==
    ASSUME RowsInv, NEW job \in jobs, Write(job) \/ Grab(job) \/ AppendRows(job)
    PROVE  RowsInv'
<1>1. UNCHANGED <<mode, first, made>> /\ mode # "down"
  BY DEF Write, Grab, AppendRows, DiskRest, walletVars
<1>2. jobs = {job} /\ JobIs(job) /\ AtWork = job.rows /\ RowsApart
  BY WorkOfJob DEF RowsInv
<1>3. ASSUME NEW j, jobs' = {j}, JobIs(j) PROVE JobsAre' /\ AtWork' = j.rows
  <2>1. JobsAre'
    BY <1>3 DEF JobsAre
  <2>2. (CHOOSE i \in jobs' : TRUE) = j /\ jobs' # {}
    BY <1>3
  <2>. QED BY <2>1, <2>2 DEF AtWork
<1>4. ASSUME jobs' = {} PROVE JobsAre' /\ AtWork' = <<>>
  BY <1>4 DEF JobsAre, AtWork
<1>5. CASE Write(job)
  <2>. DEFINE j == [job EXCEPT !.at = "flush"]
  <2>1. jobs' = {j} /\ UNCHANGED <<buffer, csv>> /\ job.rows = <<>>
    BY <1>2, <1>5 DEF Write, JobIs
  <2>2. JobIs(j) /\ j.rows = job.rows
    BY <1>2, <2>1 DEF JobIs
  <2>. HIDE DEF j
  <2>3. JobsAre' /\ AtWork' = AtWork
    BY <1>2, <1>3, <2>1, <2>2
  <2>4. RowsApart'
    BY <1>2, <2>1, <2>3 DEF RowsApart
  <2>. QED BY <1>1, <2>1, <2>3, <2>4, RowsMove
<1>6. CASE Grab(job)
  <2>1. job.rows = <<>> /\ buffer' = <<>> /\ csv' = csv
    BY <1>2, <1>6 DEF Grab, JobIs
  <2>2. JobsAre' /\ AtWork' = buffer
    <3>1. CASE buffer = <<>>
      BY <1>4, <1>6, <3>1 DEF Grab
    <3>2. CASE buffer # <<>>
      <4>. DEFINE j == [job EXCEPT !.at = "append", !.rows = buffer]
      <4>1. jobs' = {j}
        BY <1>6, <3>2 DEF Grab
      <4>2. JobIs(j) /\ j.rows = buffer
        BY <1>2 DEF JobIs
      <4>. HIDE DEF j
      <4>. QED BY <1>3, <4>1, <4>2
    <3>. QED BY <3>1, <3>2
  <2>3. RowsApart'
    BY <1>2, <2>1, <2>2, NoRows DEF RowsApart
  <2>4. RowsOf(AtWork) = {} /\ RowsOf(buffer') = {}
    BY <1>2, <2>1, NoRows
  <2>5. RowsOf(csv') \cup RowsOf(AtWork') \cup RowsOf(buffer')
          = RowsOf(csv) \cup RowsOf(AtWork) \cup RowsOf(buffer)
    BY <2>1, <2>2, <2>4
  <2>. QED BY <1>1, <2>2, <2>3, <2>5, RowsMove
<1>7. CASE AppendRows(job)
  <2>1. jobs' = {} /\ JobsAre' /\ AtWork' = <<>> /\ RowsOf(AtWork') = {}
    BY <1>4, <1>7, NoRows DEF AppendRows
  <2>2. CASE csv' = csv \o job.rows /\ buffer' = buffer
    <3>1. OneRowEach(csv') /\ RowsOf(csv') = RowsOf(csv) \cup RowsOf(AtWork)
      BY <1>2, <2>2, RowsJoined DEF RowsApart
    <3>2. RowsApart'
      BY <1>2, <2>1, <2>2, <3>1, NoRows DEF RowsApart
    <3>3. RowsOf(csv') \cup RowsOf(AtWork') \cup RowsOf(buffer')
            = RowsOf(csv) \cup RowsOf(AtWork) \cup RowsOf(buffer)
      BY <2>1, <2>2, <3>1
    <3>. QED BY <1>1, <2>1, <3>2, <3>3, RowsMove
  <2>3. CASE buffer' = job.rows \o buffer /\ csv' = csv
    <3>1. OneRowEach(buffer') /\ RowsOf(buffer') = RowsOf(AtWork) \cup RowsOf(buffer)
      BY <1>2, <2>3, RowsJoined DEF RowsApart
    <3>2. RowsApart'
      BY <1>2, <2>1, <2>3, <3>1, NoRows DEF RowsApart
    <3>3. RowsOf(csv') \cup RowsOf(AtWork') \cup RowsOf(buffer')
            = RowsOf(csv) \cup RowsOf(AtWork) \cup RowsOf(buffer)
      BY <2>1, <2>3, <3>1
    <3>. QED BY <1>1, <2>1, <3>2, <3>3, RowsMove
  <2>. QED BY <1>7, <2>2, <2>3 DEF AppendRows, PutBack
<1>. QED BY <1>5, <1>6, <1>7

\* On the way out the buffer is written once more; what the worker holds may come later.
LEMMA LeaveRows == ASSUME RowsInv, Leave PROVE RowsInv'
<1>1. /\ mode' = "leaving" /\ csv' = csv \o buffer /\ buffer' = <<>>
      /\ UNCHANGED <<jobs, first, made>>
  BY DEF Leave, DiskRest, walletVars
<1>2. RowsApart /\ JobsAre' /\ AtWork' = AtWork
  BY <1>1 DEF RowsInv, JobsAre, AtWork
<1>3. OneRowEach(csv') /\ RowsOf(csv') = RowsOf(csv) \cup RowsOf(buffer)
  BY <1>1, <1>2, RowsJoined DEF RowsApart
<1>4. RowsApart'
  BY <1>1, <1>2, <1>3, NoRows DEF RowsApart
<1>5. RowsOf(csv') \cup RowsOf(AtWork') \cup RowsOf(buffer')
        = RowsOf(csv) \cup RowsOf(AtWork) \cup RowsOf(buffer)
  BY <1>1, <1>2, <1>3, NoRows
<1>. QED BY <1>1, <1>2, <1>4, <1>5, RowsMove

\* What was not in the file is gone when the process is.
LEMMA DownRows == ASSUME RowsInv, Down PROVE RowsInv'
<1>1. /\ mode' = "down" /\ buffer' = <<>> /\ jobs' = {}
      /\ UNCHANGED <<csv, first, made>>
  BY DEF Down, walletVars
<1>2. AtWork' = <<>> /\ JobsAre' /\ RowsApart
  BY <1>1 DEF AtWork, JobsAre, RowsInv
<1>3. RowsApart'
  BY <1>1, <1>2, NoRows DEF RowsApart
<1>4. RowsOf(csv') \cup RowsOf(AtWork') \cup RowsOf(buffer') \subseteq RowsOf(csv)
  BY <1>1, <1>2, NoRows
<1>. QED BY <1>1, <1>2, <1>3, <1>4, RowsMove

\* A new session has no fills yet.
LEMMA RestartRows == ASSUME RowsInv, Restart PROVE RowsInv'
<1>1. /\ mode = "down" /\ mode' = "up" /\ first' = made + 1
      /\ UNCHANGED <<made, buffer, jobs>> /\ (csv' = csv \/ csv' = <<>>)
  BY DEF Restart
<1>2. AtWork' = AtWork /\ JobsAre' /\ RowsApart /\ made \in Nat
  BY <1>1 DEF AtWork, JobsAre, RowsInv
<1>3. OneRowEach(csv') /\ RowsOf(csv') \subseteq RowsOf(csv)
  BY <1>1, <1>2, NoRows DEF RowsApart
<1>4. RowsApart'
  BY <1>1, <1>2, <1>3 DEF RowsApart
<1>5. RowsOf(csv') \cup RowsOf(AtWork') \cup RowsOf(buffer') \subseteq 1..made
  BY <1>1, <1>2, <1>3 DEF RowsInv
<1>6. first'..made' = {} /\ first' \in Nat \ {0} /\ made' \in Nat
  BY <1>1, <1>2
<1>. QED BY <1>1, <1>2, <1>4, <1>5, <1>6 DEF RowsInv

\* Every step of a dry run keeps the rows apart, and what was filled in the session.
LEMMA RowsKeep == RowsInv /\ [DryNext]_dryVars => RowsInv'
<1>. SUFFICES ASSUME RowsInv, [DryNext]_dryVars PROVE RowsInv'
  OBVIOUS
<1>1. ASSUME OrderRest PROVE RowsInv'
  BY <1>1, OrderRows DEF OrderRest, walletVars, diskVars
<1>2. ASSUME NEW s, NEW p, NEW n, NEW t, Create(s, p, n, t) \/ Modify(s, p, n, t)
      PROVE  RowsInv'
  BY <1>1, <1>2 DEF Create, Modify
<1>3. ASSUME NEW s, Cancel(s) \/ Latency(s) PROVE RowsInv'
  BY <1>1, <1>3 DEF Cancel, Latency
<1>4. CASE Left \/ DryCrash
  BY <1>4, DownRows DEF Left, DryCrash
<1>5. CASE UNCHANGED dryVars
  BY <1>5, OrderRows DEF dryVars, walletVars, diskVars
<1>. QED BY <1>2, <1>3, <1>4, <1>5, FillRows, SummaryRows, JobRows, LeaveRows, RestartRows
     DEF DryNext

\* What the file, the worker and the buffer hold together.
LEMMA RowsAreHeld == RowsInv => RowsHeld
<1>. SUFFICES ASSUME RowsInv PROVE RowsHeld
  OBVIOUS
<1>. DEFINE some == csv \o AtWork
            held == some \o buffer
<1>1. RowsApart
  BY DEF RowsInv
<1>2. OneRowEach(some) /\ RowsOf(some) = RowsOf(csv) \cup RowsOf(AtWork)
  BY <1>1, RowsJoined DEF RowsApart
<1>. HIDE DEF some
<1>3. RowsOf(some) \cap RowsOf(buffer) = {}
  BY <1>1, <1>2 DEF RowsApart
<1>4. OneRowEach(held) /\ RowsOf(held) = RowsOf(some) \cup RowsOf(buffer)
  BY <1>1, <1>2, <1>3, RowsJoined DEF RowsApart
<1>5. DOMAIN held = 1..Len(held)
  BY <1>4, LenProperties DEF OneRowEach
<1>. HIDE DEF held
<1>6. \A i, j \in DOMAIN held : held[i] = held[j] => i = j
  BY <1>4, <1>5 DEF OneRowEach
<1>7. mode = "up" => first..made \subseteq {held[i] : i \in DOMAIN held}
  BY <1>2, <1>4, <1>5 DEF RowsInv, RowsOf
<1>. DEFINE Fine(h) == /\ \A i, j \in DOMAIN h : h[i] = h[j] => i = j
                       /\ mode = "up" => (first..made) \subseteq {h[i] : i \in DOMAIN h}
<1>8. Fine(held)
  BY <1>6, <1>7
<1>9. held = csv \o (IF jobs = {} THEN <<>> ELSE (CHOOSE j \in jobs : TRUE).rows) \o buffer
  BY DEF held, some, AtWork
<1>. HIDE DEF Fine
<1>10. Fine(csv \o (IF jobs = {} THEN <<>> ELSE (CHOOSE j \in jobs : TRUE).rows) \o buffer)
  BY <1>8, <1>9
<1>. QED BY <1>10 DEF RowsHeld, Fine

-----------------------------------------------------------------------------
(* The research files. *)

\* The rows of no file.
LEMMA RowsInNone == RowsIn({}) = 0
<1>. DEFINE it == [s \in {{}} |-> 0]
<1>1. it = [s \in SUBSET {} |->
              IF s = {} THEN 0
              ELSE LET x == CHOOSE x \in s : TRUE IN x.rows + it[s \ {x}]]
  OBVIOUS
<1>2. \E g : g = [s \in SUBSET {} |->
              IF s = {} THEN 0
              ELSE LET x == CHOOSE x \in s : TRUE IN x.rows + g[s \ {x}]]
  BY <1>1
<1>. QED BY <1>2 DEF RowsIn, MapThenSumSet, MapThenFoldSet

\* The rows of one file.
LEMMA RowsInOne == ASSUME NEW f, f.rows \in Nat PROVE RowsIn({f}) = f.rows
<1>. DEFINE it == [s \in SUBSET {f} |-> IF s = {} THEN 0 ELSE f.rows]
            Runs(g) == g = [s \in SUBSET {f} |->
              IF s = {} THEN 0
              ELSE LET x == CHOOSE x \in s : TRUE IN x.rows + g[s \ {x}]]
<1>0. SUBSET {f} = {{}, {f}}
  OBVIOUS
<1>1. (CHOOSE x \in {f} : TRUE) = f /\ {f} \ {f} = {}
  OBVIOUS
<1>2. Runs(it)
  <2>1. it[{}] = 0
    OBVIOUS
  <2>2. \A s \in SUBSET {f} : s # {} => 
           it[s] = LET x == CHOOSE x \in s : TRUE IN x.rows + it[s \ {x}]
    <3>. SUFFICES it[{f}] = LET x == CHOOSE x \in {f} : TRUE IN x.rows + it[{f} \ {x}]
      BY <1>0
    <3>1. it[{f}] = f.rows
      OBVIOUS
    <3>. HIDE DEF it
    <3>2. LET x == CHOOSE x \in {f} : TRUE IN x.rows + it[{f} \ {x}] = f.rows + it[{}]
      BY <1>1
    <3>. QED BY <2>1, <3>1, <3>2
  <2>3. \A s \in SUBSET {f} : it[s] = IF s = {} THEN 0
              ELSE LET x == CHOOSE x \in s : TRUE IN x.rows + it[s \ {x}]
    BY <2>1, <2>2
  <2>4. it = [s \in SUBSET {f} |-> it[s]]
    OBVIOUS
  <2>. HIDE DEF it
  <2>. QED BY <2>3, <2>4
<1>3. \A g : Runs(g) => g[{f}] = f.rows
  <2>. TAKE g
  <2>. HAVE Runs(g)
  <2>1. g[{}] = 0
    OBVIOUS
  <2>2. g[{f}] = LET x == CHOOSE x \in {f} : TRUE IN x.rows + g[{f} \ {x}]
    OBVIOUS
  <2>3. g[{f}] = f.rows + g[{f} \ {f}]
    BY <1>1, <2>2
  <2>. QED BY <1>1, <2>1, <2>3
<1>. DEFINE the == CHOOSE g : Runs(g)
<1>4. Runs(the)
  <2>. HIDE DEF Runs, it
  <2>. QED BY <1>2
<1>5. RowsIn({f}) = the[{f}]
  BY DEF RowsIn, MapThenSumSet, MapThenFoldSet
<1>. QED
  <2>. HIDE DEF the, Runs
  <2>. QED BY <1>3, <1>4, <1>5

\* What is kept of a day compressed: one file at most.
Files == {{}} \cup {{f} : f \in [rows : Nat, on : Int]}

\* A state of the files during a clean-up: a day whose rows are all there has them raw
\* or compressed, and from today on nothing was touched.
FilesFine(s) ==
    /\ s.raw \in [DaySet -> Nat] /\ s.gz \in [DaySet -> Files]
    /\ \A d \in DaySet \ (expired \cup torn \cup s.gone) :
          /\ s.raw[d] + RowsIn(s.gz[d]) = appended[d]
          /\ s.gz[d] # {} => s.raw[d] = 0
    /\ \A d \in DaySet : d >= today => s.raw[d] = appended[d] /\ s.gz[d] = {}

AsIs == [raw |-> raw, gz |-> gz, gone |-> {}]

ResearchInv ==
    /\ today \in DaySet /\ appended \in [DaySet -> Nat]
    /\ \A d \in DaySet : d > today => appended[d] = 0
    /\ FilesFine(AsIs)

\* The rows of what may be there.
LEMMA RowsOfFiles ==
    /\ RowsIn({}) = 0
    /\ \A n \in Nat, t \in Int : GzFile(n, t) \in Files /\ RowsIn(GzFile(n, t)) = n
<1>1. ASSUME NEW n \in Nat, NEW t \in Int
      PROVE  GzFile(n, t) \in Files /\ RowsIn(GzFile(n, t)) = n
  <2>. DEFINE f == [rows |-> n, on |-> t]
  <2>1. f \in [rows : Nat, on : Int] /\ f.rows = n
    OBVIOUS
  <2>. HIDE DEF f
  <2>2. RowsIn({f}) = n /\ {f} \in Files
    BY <2>1, RowsInOne DEF Files
  <2>. QED BY <2>2 DEF GzFile, f
<1>. QED BY <1>1, RowsInNone

\* The numbers of the research files.
LEMMA ResearchNumbers == Days \in Nat /\ RawKeep \in Nat /\ DaySet \subseteq Nat
BY ResearchAssumption DEF DaySet

\* Compressing moves the rows of a day, and leaves today's where they are.
LEMMA CompressedIsFine == ResearchInv => FilesFine(Compressed)
<1>. SUFFICES ASSUME ResearchInv PROVE FilesFine(Compressed)
  OBVIOUS
<1>. DEFINE s == Compressed
<1>1. /\ \A d \in DaySet : s.raw[d] = IF d \in Past THEN 0 ELSE raw[d]
      /\ \A d \in DaySet : s.gz[d] = IF d \in Past /\ gz[d] = {}
                                     THEN GzFile(raw[d], today) ELSE gz[d]
      /\ s.raw = [d \in DaySet |-> s.raw[d]] /\ s.gz = [d \in DaySet |-> s.gz[d]]
      /\ s.gone = {}
  BY DEF Compressed
<1>2. /\ raw \in [DaySet -> Nat] /\ gz \in [DaySet -> Files] /\ today \in Nat
      /\ \A d \in DaySet \ (expired \cup torn) :
            raw[d] + RowsIn(gz[d]) = appended[d] /\ (gz[d] # {} => raw[d] = 0)
      /\ \A d \in DaySet : d >= today => raw[d] = appended[d] /\ gz[d] = {}
      /\ \A d \in DaySet : d > today => appended[d] = 0
      /\ appended \in [DaySet -> Nat]
  BY ResearchNumbers DEF ResearchInv, FilesFine, AsIs
<1>3. \A d \in Past : d \in DaySet /\ raw[d] > 0 /\ d # today
  BY DEF Past
<1>. HIDE DEF s
<1>4. \A d \in DaySet : s.raw[d] \in Nat /\ s.gz[d] \in Files
  BY <1>1, <1>2, RowsOfFiles
<1>5. ASSUME NEW d \in DaySet \ (expired \cup torn)
      PROVE  s.raw[d] + RowsIn(s.gz[d]) = appended[d] /\ (s.gz[d] # {} => s.raw[d] = 0)
  <2>1. CASE d \in Past
    <3>1. gz[d] = {} /\ raw[d] \in Nat /\ appended[d] = raw[d]
      <4>1. d \in DaySet /\ raw[d] \in Nat /\ raw[d] > 0
        BY <1>2, <1>3, <2>1
      <4>2. raw[d] + RowsIn(gz[d]) = appended[d] /\ (gz[d] # {} => raw[d] = 0)
        BY <1>2
      <4>3. gz[d] = {}
        BY <4>1, <4>2
      <4>4. RowsIn(gz[d]) = 0
        BY <4>3, RowsOfFiles
      <4>. QED BY <4>1, <4>2, <4>3, <4>4
    <3>2. s.raw[d] = 0 /\ s.gz[d] = GzFile(raw[d], today) /\ RowsIn(s.gz[d]) = raw[d]
      BY <1>1, <1>2, <2>1, <3>1, RowsOfFiles
    <3>. QED BY <3>1, <3>2
  <2>2. CASE d \notin Past
    BY <1>1, <1>2, <2>2
  <2>. QED BY <2>1, <2>2
<1>6. ASSUME NEW d \in DaySet, d >= today PROVE s.raw[d] = appended[d] /\ s.gz[d] = {}
  <2>1. d \notin Past
    BY <1>2, <1>3, <1>6, ResearchNumbers
  <2>. QED BY <1>1, <1>2, <1>6, <2>1
<1>7. s.raw \in [DaySet -> Nat] /\ s.gz \in [DaySet -> Files]
  BY <1>1, <1>4
<1>. QED BY <1>1, <1>5, <1>6, <1>7 DEF FilesFine, s

\* Files are deleted, of days before today, and their days are noted.
Deletes(s, rawGone, gzGone, t) ==
    /\ \A d \in rawGone : d < today
    /\ \A d \in gzGone : s.gz[d] # {}
    /\ t.raw = [d \in DaySet |-> IF d \in rawGone THEN 0 ELSE s.raw[d]]
    /\ t.gz = [d \in DaySet |-> IF d \in gzGone THEN {} ELSE s.gz[d]]
    /\ t.gone = s.gone \cup rawGone \cup gzGone

\* Deleting files of days before today takes no row that is not noted.
LEMMA DeletedIsFine ==
    ASSUME NEW s, FilesFine(s), today \in Nat, NEW rawGone, NEW gzGone, NEW t,
           Deletes(s, rawGone, gzGone, t)
    PROVE  FilesFine(t)
<1>. USE DEF Deletes
<1>1. /\ \A d \in DaySet : t.raw[d] = IF d \in rawGone THEN 0 ELSE s.raw[d]
      /\ \A d \in DaySet : t.gz[d] = IF d \in gzGone THEN {} ELSE s.gz[d]
      /\ t.raw = [d \in DaySet |-> t.raw[d]] /\ t.gz = [d \in DaySet |-> t.gz[d]]
  OBVIOUS
<1>2. t.raw \in [DaySet -> Nat] /\ t.gz \in [DaySet -> Files]
  <2>1. \A d \in DaySet : t.raw[d] \in Nat /\ t.gz[d] \in Files
    BY <1>1 DEF FilesFine, Files
  <2>. QED BY <1>1, <2>1
<1>3. ASSUME NEW d \in DaySet \ (expired \cup torn \cup t.gone)
      PROVE  t.raw[d] + RowsIn(t.gz[d]) = appended[d] /\ (t.gz[d] # {} => t.raw[d] = 0)
  <2>1. d \notin rawGone /\ d \notin gzGone /\ d \notin s.gone
    OBVIOUS
  <2>. QED BY <1>1, <2>1 DEF FilesFine
<1>4. ASSUME NEW d \in DaySet, d >= today PROVE t.raw[d] = appended[d] /\ t.gz[d] = {}
  <2>1. d \notin rawGone
    BY <1>4, ResearchNumbers
  <2>. QED BY <1>1, <1>4, <2>1 DEF FilesFine
<1>. QED BY <1>2, <1>3, <1>4 DEF FilesFine

\* A clean-up loses no row it does not note.
LEMMA CleanedIsFine == ResearchInv => FilesFine(Cleaned)
<1>. SUFFICES ASSUME ResearchInv PROVE FilesFine(Cleaned)
  OBVIOUS
<1>0. today \in Nat
  BY ResearchNumbers DEF ResearchInv
<1>1. FilesFine(Compressed)
  BY CompressedIsFine
<1>2. FilesFine(Aged(Compressed))
  <2>. DEFINE s == Compressed
              oldRaw == {d \in DaySet : s.raw[d] > 0 /\ d < today - RawKeep}
              oldGz == {d \in DaySet : \E f \in s.gz[d] : f.on < today - GzKeep}
  <2>1. /\ Aged(s).raw = [d \in DaySet |-> IF d \in oldRaw THEN 0 ELSE s.raw[d]]
        /\ Aged(s).gz = [d \in DaySet |-> IF d \in oldGz THEN {} ELSE s.gz[d]]
        /\ Aged(s).gone = s.gone \cup oldRaw \cup oldGz
    BY DEF Aged
  <2>2. oldRaw \in SUBSET DaySet /\ oldGz \in SUBSET DaySet
    OBVIOUS
  <2>3. \A d \in oldRaw : d < today
    BY <1>0, ResearchNumbers
  <2>4. \A d \in oldGz : s.gz[d] # {}
    OBVIOUS
  <2>5. FilesFine(s)
    BY <1>1
  <2>. HIDE DEF s, oldRaw, oldGz
  <2>6. FilesFine(Aged(s))
    <3>1. Deletes(s, oldRaw, oldGz, Aged(s))
      BY <2>1, <2>3, <2>4 DEF Deletes
    <3>. QED BY <1>0, <2>5, <3>1, DeletedIsFine
  <2>. QED BY <2>6 DEF s
<1>3. FilesFine(Fitted(Aged(Compressed)))
  <2>. DEFINE s == Aged(Compressed)
              oldest == {d \in DaySet : s.gz[d] # {} /\
                  Cardinality({e \in DaySet : Before(s, e, d)}) < SizeOf(s) - MaxBytes}
              t == Fitted(s)
  <2>1. s = [raw |-> s.raw, gz |-> s.gz, gone |-> s.gone]
    BY DEF Aged
  <2>2. oldest \in SUBSET DaySet /\ \A d \in oldest : s.gz[d] # {}
    OBVIOUS
  <2>3. t = [s EXCEPT !.gz = [d \in DaySet |-> IF d \in oldest THEN {} ELSE s.gz[d]],
                      !.gone = s.gone \cup oldest]
    BY DEF Fitted
  <2>4. FilesFine(s)
    BY <1>2
  <2>. HIDE DEF s, oldest, t
  <2>5. /\ t.gz = [d \in DaySet |-> IF d \in oldest THEN {} ELSE s.gz[d]]
        /\ t.gone = s.gone \cup {} \cup oldest
        /\ t.raw = s.raw
    BY <2>1, <2>3
  <2>6. t.raw = [d \in DaySet |-> IF d \in {} THEN 0 ELSE s.raw[d]]
    BY <2>4, <2>5 DEF FilesFine
  <2>7. {} \in SUBSET DaySet /\ \A d \in {} : d < today
    OBVIOUS
  <2>8. FilesFine(t)
    <3>1. Deletes(s, {}, oldest, t)
      BY <2>2, <2>5, <2>6, <2>7 DEF Deletes
    <3>. QED BY <1>0, <2>4, <3>1, DeletedIsFine
  <2>. QED BY <2>8 DEF s, t
<1>. QED BY <1>3 DEF Cleaned

-----------------------------------------------------------------------------

\* There is nothing at the start.
LEMMA ResearchStarts == ResearchInit => ResearchInv
<1>. SUFFICES ASSUME ResearchInit PROVE ResearchInv
  OBVIOUS
<1>1. today = 0 /\ 0 \in DaySet
  BY ResearchNumbers DEF ResearchInit, DaySet
<1>2. AsIs.raw = raw /\ AsIs.gz = gz /\ AsIs.gone = {}
  BY DEF AsIs
<1>3. \A d \in DaySet : raw[d] = 0 /\ gz[d] = {} /\ appended[d] = 0
  BY DEF ResearchInit
<1>4. raw \in [DaySet -> Nat] /\ gz \in [DaySet -> Files] /\ appended \in [DaySet -> Nat]
  BY DEF ResearchInit, Files
<1>5. FilesFine(AsIs)
  <2>1. AsIs.raw \in [DaySet -> Nat] /\ AsIs.gz \in [DaySet -> Files]
    BY <1>2, <1>4
  <2>2. \A d \in DaySet : AsIs.raw[d] = 0 /\ AsIs.gz[d] = {} /\ RowsIn(AsIs.gz[d]) = 0
    BY <1>2, <1>3, RowsOfFiles
  <2>3. \A d \in DaySet : AsIs.raw[d] + RowsIn(AsIs.gz[d]) = appended[d]
    <3>1. 0 + 0 = 0
      OBVIOUS
    <3>. QED BY <1>3, <2>2, <3>1
  <2>. QED BY <1>3, <2>1, <2>2, <2>3 DEF FilesFine
<1>. QED BY <1>1, <1>3, <1>4, <1>5 DEF ResearchInv

\* The parts of the invariant.
LEMMA ResearchParts ==
    ASSUME ResearchInv
    PROVE  /\ today \in DaySet /\ today \in Nat /\ appended \in [DaySet -> Nat]
           /\ raw \in [DaySet -> Nat] /\ gz \in [DaySet -> Files]
           /\ \A d \in DaySet \ (expired \cup torn) :
                 raw[d] + RowsIn(gz[d]) = appended[d] /\ (gz[d] # {} => raw[d] = 0)
           /\ \A d \in DaySet : d >= today => raw[d] = appended[d] /\ gz[d] = {}
           /\ \A d \in DaySet : d > today => appended[d] = 0
BY ResearchNumbers DEF ResearchInv, FilesFine, AsIs

\* Every step of the files keeps it.
LEMMA ResearchKeeps == ResearchInv /\ [ResearchNext]_researchVars => ResearchInv'
<1>. SUFFICES ASSUME ResearchInv, [ResearchNext]_researchVars PROVE ResearchInv'
  OBVIOUS
<1>1. AsIs'.raw = raw' /\ AsIs'.gz = gz' /\ AsIs'.gone = {}
  BY DEF AsIs
<1>2. CASE AppendRow
  <2>1. /\ raw' = [raw EXCEPT ![today] = raw[today] + 1]
        /\ appended' = [appended EXCEPT ![today] = appended[today] + 1]
        /\ UNCHANGED <<today, gz, compress, expired, torn>>
    BY <1>2 DEF AppendRow
  <2>2. /\ raw' \in [DaySet -> Nat] /\ appended' \in [DaySet -> Nat]
        /\ raw'[today] = raw[today] + 1 /\ appended'[today] = appended[today] + 1
        /\ \A d \in DaySet : d # today => raw'[d] = raw[d] /\ appended'[d] = appended[d]
    BY <2>1, ResearchParts
  <2>3. gz[today] = {} /\ raw[today] = appended[today] /\ raw[today] \in Nat
    BY ResearchParts
  <2>4. ASSUME NEW d \in DaySet \ (expired \cup torn)
        PROVE  raw'[d] + RowsIn(gz[d]) = appended'[d] /\ (gz[d] # {} => raw'[d] = 0)
    <3>1. CASE d = today
      <4>1. RowsIn(gz[d]) = 0 /\ gz[d] = {}
        BY <2>3, <3>1, RowsOfFiles
      <4>2. raw'[d] = raw[d] + 1 /\ appended'[d] = raw[d] + 1 /\ raw[d] \in Nat
        BY <2>2, <2>3, <3>1
      <4>. QED BY <4>1, <4>2
    <3>2. CASE d # today
      BY <2>2, <3>2, ResearchParts
    <3>. QED BY <3>1, <3>2
  <2>5. ASSUME NEW d \in DaySet, d >= today PROVE raw'[d] = appended'[d] /\ gz[d] = {}
    <3>1. CASE d = today
      BY <2>2, <2>3, <3>1
    <3>2. CASE d # today
      BY <2>2, <2>5, <3>2, ResearchParts
    <3>. QED BY <3>1, <3>2
  <2>6. FilesFine(AsIs)'
    BY <1>1, <2>1, <2>2, <2>4, <2>5, ResearchParts DEF FilesFine
  <2>7. \A d \in DaySet : d > today => appended'[d] = 0
    <3>1. \A d \in DaySet : d > today => d # today
      BY ResearchParts
    <3>. QED BY <2>2, <3>1, ResearchParts
  <2>. QED BY <2>1, <2>2, <2>6, <2>7, ResearchParts DEF ResearchInv
<1>3. CASE Cleanup
  <2>. DEFINE s == Cleaned
  <2>1. /\ raw' = s.raw /\ gz' = s.gz /\ expired' = expired \cup s.gone
        /\ UNCHANGED <<today, appended, torn>>
    BY <1>3 DEF Cleanup
  <2>2. FilesFine(s)
    BY CleanedIsFine
  <2>. HIDE DEF s
  <2>3. FilesFine(AsIs)'
    BY <1>1, <2>1, <2>2 DEF FilesFine
  <2>. QED BY <2>1, <2>3 DEF ResearchInv
<1>4. ASSUME NEW d \in DaySet, CutShort(d) PROVE ResearchInv'
  <2>1. PICK n \in 0..(raw[d] - 1) : gz' = [gz EXCEPT ![d] = GzFile(n, today)]
    BY <1>4 DEF CutShort
  <2>2. /\ d \in DaySet /\ raw[d] > 0 /\ d # today /\ torn' = torn \cup {d}
        /\ UNCHANGED <<today, raw, compress, appended, expired>>
    BY <1>4 DEF CutShort, Past
  <2>3. d < today
    BY <2>2, ResearchParts, ResearchNumbers
  <2>4. raw[d] \in Nat /\ n \in Nat
    BY ResearchParts
  <2>5. GzFile(n, today) \in Files
    BY <2>4, ResearchParts, RowsOfFiles
  <2>6. gz' \in [DaySet -> Files] /\ \A e \in DaySet : e # d => gz'[e] = gz[e]
    BY <2>1, <2>5, ResearchParts
  <2>7. \A e \in DaySet : e >= today => e # d
    BY <2>3, ResearchParts, ResearchNumbers
  <2>8. FilesFine(AsIs)'
    BY <1>1, <2>2, <2>6, <2>7, ResearchParts DEF FilesFine
  <2>. QED BY <2>2, <2>8 DEF ResearchInv
<1>5. CASE Midnight
  <2>1. today' = today + 1 /\ today < Days /\ UNCHANGED <<raw, gz, appended, expired, torn>>
    BY <1>5 DEF Midnight
  <2>2. today' \in DaySet
    BY <2>1, ResearchParts, ResearchNumbers DEF DaySet
  <2>3. \A d \in DaySet : (d >= today' => d >= today) /\ (d > today' => d > today)
    BY <2>1, ResearchParts, ResearchNumbers
  <2>4. FilesFine(AsIs)'
    BY <1>1, <2>1, <2>3, ResearchParts DEF FilesFine
  <2>. QED BY <2>1, <2>2, <2>3, <2>4, ResearchParts DEF ResearchInv
<1>6. CASE UNCHANGED researchVars
  BY <1>6 DEF researchVars, ResearchInv, FilesFine, AsIs
<1>. QED BY <1>2, <1>3, <1>4, <1>5, <1>6 DEF ResearchNext

\* What the invariant says of the files.
LEMMA RowsAreKept == ResearchInv => RowsKept
<1>. SUFFICES ASSUME ResearchInv PROVE RowsKept
  OBVIOUS
<1>1. today >= today
  BY ResearchParts
<1>. QED BY <1>1, ResearchParts DEF RowsKept

-----------------------------------------------------------------------------
(* BookSide: the arrays are the map. *)

Bands(n) == (0..n) \X (0..n)
Mid(r) == (r[1] + r[2]) \div 2

\* A step of the search for cell t.
Narrowed(n, t, at) ==
    [r \in Bands(n) |->
        IF r[1] >= r[2] THEN r[1]
        ELSE at[IF Mid(r) < t THEN <<Mid(r) + 1, r[2]>> ELSE <<r[1], Mid(r)>>]]
Searches(n, t, at) == at = Narrowed(n, t, at)

\* The middle of a band is in it, below its end.
LEMMA MidIsIn ==
    ASSUME NEW n \in Nat, NEW r \in Bands(n), r[1] < r[2]
    PROVE  /\ Mid(r) \in 0..(n - 1) /\ r[1] <= Mid(r) /\ Mid(r) < r[2]
           /\ <<Mid(r) + 1, r[2]>> \in Bands(n) /\ <<r[1], Mid(r)>> \in Bands(n)
<1>1. r[1] \in 0..n /\ r[2] \in 0..n
  BY DEF Bands
<1>2. Mid(r) \in Int /\ r[1] <= Mid(r) /\ Mid(r) < r[2]
  BY <1>1 DEF Mid
<1>. QED BY <1>1, <1>2 DEF Bands

\* The search is there, and it ends at t.
LEMMA SearchEnds ==
    ASSUME NEW n \in Nat, NEW t \in 0..n
    PROVE  /\ \E at : Searches(n, t, at)
           /\ \A at : Searches(n, t, at) => at[<<0, n>>] = t
<1>1. \E at : Searches(n, t, at)
  <2>. DEFINE g == [r \in Bands(n) |-> IF r[1] >= r[2] \/ t < r[1] THEN r[1]
                                       ELSE IF t > r[2] THEN r[2] ELSE t]
  <2>1. ASSUME NEW r \in Bands(n)
        PROVE  g[r] = IF r[1] >= r[2] THEN r[1]
                      ELSE g[IF Mid(r) < t THEN <<Mid(r) + 1, r[2]>> ELSE <<r[1], Mid(r)>>]
    <3>1. r[1] \in 0..n /\ r[2] \in 0..n
      BY DEF Bands
    <3>2. CASE r[1] >= r[2]
      BY <3>2
    <3>3. CASE r[1] < r[2] /\ Mid(r) < t
      <4>1. <<Mid(r) + 1, r[2]>> \in Bands(n) /\ Mid(r) \in Int /\ r[1] <= Mid(r) /\ Mid(r) < r[2]
        <5>1. r[1] < r[2]
          BY <3>3
        <5>2. Mid(r) \in 0..(n - 1) /\ r[1] <= Mid(r) /\ Mid(r) < r[2]
              /\ <<Mid(r) + 1, r[2]>> \in Bands(n) /\ <<r[1], Mid(r)>> \in Bands(n)
          <6>. HIDE DEF g
          <6>. QED BY <5>1, MidIsIn
        <5>. QED BY <5>2
      <4>2. g[<<Mid(r) + 1, r[2]>>] = IF Mid(r) + 1 >= r[2] \/ t < Mid(r) + 1 THEN Mid(r) + 1
                                      ELSE IF t > r[2] THEN r[2] ELSE t
        BY <4>1
      <4>. QED BY <3>1, <3>3, <4>1, <4>2
    <3>4. CASE r[1] < r[2] /\ ~(Mid(r) < t)
      <4>1. <<r[1], Mid(r)>> \in Bands(n) /\ Mid(r) \in Int /\ r[1] <= Mid(r) /\ Mid(r) < r[2]
        <5>1. r[1] < r[2]
          BY <3>4
        <5>2. Mid(r) \in 0..(n - 1) /\ r[1] <= Mid(r) /\ Mid(r) < r[2]
              /\ <<Mid(r) + 1, r[2]>> \in Bands(n) /\ <<r[1], Mid(r)>> \in Bands(n)
          <6>. HIDE DEF g
          <6>. QED BY <5>1, MidIsIn
        <5>. QED BY <5>2
      <4>2. g[<<r[1], Mid(r)>>] = IF r[1] >= Mid(r) \/ t < r[1] THEN r[1]
                                  ELSE IF t > Mid(r) THEN Mid(r) ELSE t
        BY <4>1
      <4>. QED BY <3>1, <3>4, <4>1, <4>2
    <3>. QED BY <3>1, <3>2, <3>3, <3>4
  <2>2. g = [r \in Bands(n) |-> g[r]]
    OBVIOUS
  <2>. HIDE DEF g
  <2>3. g = Narrowed(n, t, g)
    BY <2>1, <2>2 DEF Narrowed
  <2>. QED BY <2>3 DEF Searches
<1>2. ASSUME NEW at, Searches(n, t, at) PROVE at[<<0, n>>] = t
  <2>. DEFINE bad == {w \in 0..n : \E r \in Bands(n) : /\ r[2] - r[1] = w /\ r[1] <= t /\ t <= r[2]
                                                      /\ at[r] # t}
  <2>1. bad = {}
    <3>. SUFFICES ASSUME bad # {} PROVE FALSE
      OBVIOUS
    <3>1. PICK w \in bad : \A k \in bad : w <= k
      <4>1. bad \subseteq Nat
        OBVIOUS
      <4>. HIDE DEF bad
      <4>. QED BY <4>1, LeastOf
    <3>2. PICK r \in Bands(n) : r[2] - r[1] = w /\ r[1] <= t /\ t <= r[2] /\ at[r] # t
      BY <3>1
    <3>3. r[1] \in 0..n /\ r[2] \in 0..n
      BY DEF Bands
    <3>4. at[r] = IF r[1] >= r[2] THEN r[1]
                  ELSE at[IF Mid(r) < t THEN <<Mid(r) + 1, r[2]>> ELSE <<r[1], Mid(r)>>]
      <4>. HIDE DEF bad
      <4>1. at = Narrowed(n, t, at)
        BY <1>2 DEF Searches
      <4>2. Narrowed(n, t, at)[r]
            = IF r[1] >= r[2] THEN r[1]
              ELSE at[IF Mid(r) < t THEN <<Mid(r) + 1, r[2]>> ELSE <<r[1], Mid(r)>>]
        BY DEF Narrowed
      <4>. QED BY <4>1, <4>2
    <3>5. r[1] < r[2]
      BY <3>2, <3>3, <3>4
    <3>6. /\ Mid(r) \in Int /\ r[1] <= Mid(r) /\ Mid(r) < r[2]
          /\ <<Mid(r) + 1, r[2]>> \in Bands(n) /\ <<r[1], Mid(r)>> \in Bands(n)
      BY <3>5, MidIsIn
    <3>7. ASSUME NEW q \in Bands(n), q[1] <= t, t <= q[2], q[2] - q[1] < w PROVE at[q] = t
      <4>1. q[2] - q[1] \in 0..n
        BY <3>7 DEF Bands
      <4>2. q[2] - q[1] \notin bad
        <5>1. w \in Int
          OBVIOUS
        <5>. HIDE DEF bad
        <5>. QED BY <3>1, <3>7, <4>1, <5>1
      <4>. QED BY <3>7, <4>1, <4>2
    <3>8. CASE Mid(r) < t
      <4>1. at[<<Mid(r) + 1, r[2]>>] = t
        <5>. DEFINE q == <<Mid(r) + 1, r[2]>>
        <5>1. q[1] = Mid(r) + 1 /\ q[2] = r[2] /\ q \in Bands(n)
          BY <3>6
        <5>. HIDE DEF q, bad
        <5>2. q[1] <= t /\ t <= q[2] /\ q[2] - q[1] < w
          BY <3>2, <3>3, <3>6, <3>8, <5>1
        <5>3. at[q] = t
          BY <3>7, <5>1, <5>2
        <5>. QED BY <5>3 DEF q
      <4>. QED BY <3>2, <3>3, <3>4, <3>5, <3>8, <4>1
    <3>9. CASE ~(Mid(r) < t)
      <4>1. at[<<r[1], Mid(r)>>] = t
        <5>. DEFINE q == <<r[1], Mid(r)>>
        <5>1. q[1] = r[1] /\ q[2] = Mid(r) /\ q \in Bands(n)
          BY <3>6
        <5>. HIDE DEF q, bad
        <5>2. q[1] <= t /\ t <= q[2] /\ q[2] - q[1] < w
          BY <3>2, <3>3, <3>6, <3>9, <5>1
        <5>3. at[q] = t
          BY <3>7, <5>1, <5>2
        <5>. QED BY <5>3 DEF q
      <4>. QED BY <3>2, <3>3, <3>4, <3>5, <3>9, <4>1
    <3>. QED BY <3>8, <3>9
  <2>2. <<0, n>> \in Bands(n) /\ n - 0 \in 0..n /\ 0 <= t /\ t <= n
    BY DEF Bands
  <2>3. n - 0 \notin bad
    BY <2>1
  <2>. QED BY <2>2, <2>3
<1>. QED BY <1>1, <1>2

\* Cells in order: the first n hold levels with a size, by rising price.
InCells(c, n) ==
    /\ n \in Nat /\ Capacity(c) \in Nat \ {0} /\ n <= Capacity(c)
    /\ c \in [0..(Capacity(c) - 1) -> [price : Nat, size : Nat]]
Sorted(c, n) ==
    /\ InCells(c, n)
    /\ \A i \in 0..(n - 1) : c[i].size > 0
    /\ \A i, j \in 0..(n - 1) : i < j => c[i].price < c[j].price

\* The first cell whose price is at least this one, and n if there is none.
FirstFrom(c, n, price, i) ==
    /\ i \in 0..n
    /\ \A j \in 0..(n - 1) : c[j].price < price <=> j < i

\* What is in a cell.
LEMMA CellIs ==
    ASSUME NEW c, NEW n, InCells(c, n)
    PROVE  \A j \in 0..(n - 1) : /\ j \in DOMAIN c /\ c[j] \in [price : Nat, size : Nat]
                                 /\ c[j].price \in Nat /\ c[j].size \in Nat
                                 /\ c[j] = Level(c[j].price, c[j].size)
<1>1. \A j \in 0..(n - 1) : j \in 0..(Capacity(c) - 1)
  BY DEF InCells
<1>2. \A j \in 0..(n - 1) : j \in DOMAIN c /\ c[j] \in [price : Nat, size : Nat]
  BY <1>1 DEF InCells
<1>. HIDE DEF InCells
<1>. QED BY <1>2 DEF Level

\* There is such a cell.
LEMMA FirstIsThere ==
    ASSUME NEW c, NEW n, Sorted(c, n), NEW price \in Int
    PROVE  \E i : FirstFrom(c, n, price, i)
<1>0. /\ n \in Nat /\ \A j \in 0..(n - 1) : c[j].price \in Nat
      /\ \A i, j \in 0..(n - 1) : i < j => c[i].price < c[j].price
  BY CellIs DEF Sorted, InCells
<1>. DEFINE T == {i \in 0..n : \A j \in 0..(n - 1) : j >= i => c[j].price >= price}
<1>1. T \subseteq Nat /\ n \in T
  BY <1>0
<1>2. PICK i \in T : \A k \in T : i <= k
  <2>. HIDE DEF T
  <2>. QED BY <1>1, LeastOf
<1>3. ASSUME NEW j \in 0..(n - 1), j < i PROVE c[j].price < price
  <2>. SUFFICES ASSUME c[j].price >= price PROVE FALSE
    BY <1>0
  <2>1. \A k \in 0..(n - 1) : k >= j => c[k].price >= price
    <3>. SUFFICES ASSUME NEW k \in 0..(n - 1), k > j PROVE c[k].price >= price
      BY <1>0
    <3>. QED BY <1>0
  <2>2. j \in T
    BY <1>0, <2>1
  <2>3. j \in Int /\ i \in Int
    OBVIOUS
  <2>. HIDE DEF T
  <2>. QED BY <1>2, <1>3, <2>2, <2>3
<1>4. \A j \in 0..(n - 1) : c[j].price < price <=> j < i
  <2>1. \A j \in 0..(n - 1) : ~(j < i) => c[j].price >= price
    BY <1>0
  <2>. HIDE DEF T
  <2>2. \A j \in 0..(n - 1) : c[j].price >= price => ~(c[j].price < price)
    BY <1>0
  <2>. QED BY <1>3, <2>1, <2>2
<1>. QED BY <1>4 DEF FirstFrom

\* The searches find it: left the first cell from a price, right the first past it.
LEMMA BisectIs ==
    ASSUME NEW c, NEW n, Sorted(c, n), NEW price \in Int
    PROVE  /\ FirstFrom(c, n, price, BisectLeft(c, n, price))
           /\ FirstFrom(c, n, price + 1, BisectRight(c, n, price))
<1>0. n \in Nat /\ \A j \in 0..(n - 1) : c[j].price \in Nat
  BY CellIs DEF Sorted, InCells
<1>1. FirstFrom(c, n, price, BisectLeft(c, n, price))
  <2>1. PICK t : FirstFrom(c, n, price, t)
    BY FirstIsThere
  <2>2. t \in 0..n /\ \A j \in 0..(n - 1) : c[j].price < price <=> j < t
    BY <2>1 DEF FirstFrom
  <2>. DEFINE Runs(at) == at = [r \in (0..n) \X (0..n) |->
                LET mid == (r[1] + r[2]) \div 2
                IN  IF r[1] >= r[2] THEN r[1]
                    ELSE at[IF c[mid].price < price THEN <<mid + 1, r[2]>> ELSE <<r[1], mid>>]]
              the == CHOOSE at : Runs(at)
  <2>3. ASSUME NEW at PROVE Runs(at) <=> Searches(n, t, at)
    <3>1. \A r \in Bands(n) : r[1] < r[2] => (c[Mid(r)].price < price <=> Mid(r) < t)
      BY <1>0, <2>2, MidIsIn
    <3>2. \A r \in Bands(n) : r[1] \in Int /\ r[2] \in Int
      BY DEF Bands
    <3>3. [r \in Bands(n) |-> IF r[1] >= r[2] THEN r[1]
             ELSE at[IF c[Mid(r)].price < price THEN <<Mid(r) + 1, r[2]>> ELSE <<r[1], Mid(r)>>]]
          = Narrowed(n, t, at)
      BY <3>1, <3>2 DEF Narrowed
    <3>. QED BY <3>3 DEF Searches, Bands, Mid
  <2>4. BisectLeft(c, n, price) = the[<<0, n>>]
    BY DEF BisectLeft
  <2>. HIDE DEF Runs
  <2>5. Runs(the)
    BY <1>0, <2>2, <2>3, SearchEnds
  <2>6. the[<<0, n>>] = t
    <3>. HIDE DEF the
    <3>. QED BY <1>0, <2>2, <2>3, <2>5, SearchEnds
  <2>. QED BY <2>1, <2>4, <2>6
<1>2. FirstFrom(c, n, price + 1, BisectRight(c, n, price))
  <2>1. PICK t : FirstFrom(c, n, price + 1, t)
    <3>1. price + 1 \in Int
      OBVIOUS
    <3>. QED BY <3>1, FirstIsThere
  <2>2. t \in 0..n /\ \A j \in 0..(n - 1) : c[j].price <= price <=> j < t
    BY <1>0, <2>1 DEF FirstFrom
  <2>. DEFINE Runs(at) == at = [r \in (0..n) \X (0..n) |->
                LET mid == (r[1] + r[2]) \div 2
                IN  IF r[1] >= r[2] THEN r[1]
                    ELSE at[IF c[mid].price <= price THEN <<mid + 1, r[2]>> ELSE <<r[1], mid>>]]
              the == CHOOSE at : Runs(at)
  <2>3. ASSUME NEW at PROVE Runs(at) <=> Searches(n, t, at)
    <3>1. \A r \in Bands(n) : r[1] < r[2] => (c[Mid(r)].price <= price <=> Mid(r) < t)
      BY <1>0, <2>2, MidIsIn
    <3>2. \A r \in Bands(n) : r[1] \in Int /\ r[2] \in Int
      BY DEF Bands
    <3>3. [r \in Bands(n) |-> IF r[1] >= r[2] THEN r[1]
             ELSE at[IF c[Mid(r)].price <= price THEN <<Mid(r) + 1, r[2]>> ELSE <<r[1], Mid(r)>>]]
          = Narrowed(n, t, at)
      BY <3>1, <3>2 DEF Narrowed
    <3>. QED BY <3>3 DEF Searches, Bands, Mid
  <2>4. BisectRight(c, n, price) = the[<<0, n>>]
    BY DEF BisectRight
  <2>. HIDE DEF Runs
  <2>5. Runs(the)
    BY <1>0, <2>2, <2>3, SearchEnds
  <2>6. the[<<0, n>>] = t
    <3>. HIDE DEF the
    <3>. QED BY <1>0, <2>2, <2>3, <2>5, SearchEnds
  <2>. QED BY <2>1, <2>4, <2>6
<1>. QED BY <1>1, <1>2

\* As many cells as there are places.
LEMMA CapacityIs ==
    ASSUME NEW m \in Nat, NEW V, NEW c \in [0..(m - 1) -> V]
    PROVE  Capacity(c) = m
<1>1. 0 \in Int /\ m - 1 \in Int /\ DOMAIN c = 0..(m - 1)
  OBVIOUS
<1>2. Cardinality(0..(m - 1)) = IF 0 > m - 1 THEN 0 ELSE m - 1 - 0 + 1
  BY <1>1, FS_Interval
<1>. QED BY <1>1, <1>2 DEF Capacity

\* The levels held, and the arrays that hold levels in order.
LevelSet == [price : Nat, size : Nat]
Levels(c, n) == {c[i] : i \in 0..(n - 1)}
CellSets == UNION {[0..(m - 1) -> LevelSet] : m \in Nat \ {0}}
Sides == {s \in [c : CellSets, n : Nat] : Sorted(s.c, s.n)}

\* Arrays in order are one of those.
LEMMA SortedIsSide ==
    ASSUME NEW c, NEW n, Sorted(c, n)
    PROVE  [c |-> c, n |-> n] \in Sides
<1>1. c \in [0..(Capacity(c) - 1) -> LevelSet] /\ Capacity(c) \in Nat \ {0} /\ n \in Nat
  BY DEF Sorted, InCells, LevelSet
<1>2. c \in CellSets
  BY <1>1 DEF CellSets
<1>. QED BY <1>1, <1>2 DEF Sides

\* Room is made without moving a level.
LEMMA EnsuredIs ==
    ASSUME NEW c, NEW n, Sorted(c, n), NEW e, e = Ensured(c, n)
    PROVE  \E m \in Nat \ {0} : /\ e \in [0..(m - 1) -> LevelSet] /\ n < m
                               /\ \A j \in 0..(n - 1) : e[j] = c[j]
<1>. DEFINE m == Capacity(c)
<1>1. m \in Nat \ {0} /\ n \in Nat /\ n <= m /\ c \in [0..(m - 1) -> LevelSet]
  BY DEF Sorted, InCells, LevelSet
<1>. HIDE DEF m
<1>2. CASE n < m
  <2>1. e = c
    BY <1>2 DEF Ensured, m
  <2>. QED BY <1>1, <1>2, <2>1
<1>3. CASE ~(n < m)
  <2>1. e = [i \in 0..(2 * m - 1) |-> IF i \in 0..(m - 1) THEN c[i] ELSE NoLevel]
    BY <1>1, <1>3 DEF Ensured, m
  <2>2. 2 * m \in Nat \ {0} /\ n < 2 * m
    BY <1>1
  <2>3. NoLevel \in LevelSet
    BY DEF NoLevel, Level, LevelSet
  <2>4. \A i \in 0..(m - 1) : c[i] \in LevelSet
    BY <1>1
  <2>5. e \in [0..(2 * m - 1) -> LevelSet]
    BY <2>1, <2>3, <2>4
  <2>6. \A j \in 0..(n - 1) : j \in 0..(m - 1) /\ j \in 0..(2 * m - 1)
    BY <1>1
  <2>7. \A j \in 0..(n - 1) : e[j] = c[j]
    BY <2>1, <2>6
  <2>. QED BY <2>2, <2>5, <2>7
<1>. QED BY <1>2, <1>3

\* What Levels has after a level is told.
Told(set, l) == {x \in set : x.price # l.price} \cup {x \in {l} : l.size > 0}

\* An insert keeps the order, and the levels are those of the other prices and the new one.
LEMMA InsertIs ==
    ASSUME NEW c, NEW n, Sorted(c, n), NEW price \in Nat, NEW size \in Nat \ {0}
    PROVE  LET t == Insert([c |-> c, n |-> n], price, size)
           IN  /\ t \in Sides
               /\ Levels(t.c, t.n) = Told(Levels(c, n), Level(price, size))
<1>. DEFINE t == Insert([c |-> c, n |-> n], price, size)
            i == BisectLeft(c, n, price)
            wide == Ensured(c, n)
            l == Level(price, size)
<1>1. /\ n \in Nat /\ Capacity(c) \in Nat \ {0} /\ n <= Capacity(c)
      /\ c \in [0..(Capacity(c) - 1) -> LevelSet]
      /\ \A j \in 0..(n - 1) : c[j].size > 0
      /\ \A j, k \in 0..(n - 1) : j < k => c[j].price < c[k].price
  BY DEF Sorted, InCells, LevelSet
<1>2. \A j \in 0..(n - 1) : /\ j \in 0..(Capacity(c) - 1) /\ c[j].price \in Nat
                            /\ c[j] \in LevelSet
  <2>1. \A j \in 0..(n - 1) : j \in 0..(Capacity(c) - 1)
    BY <1>1
  <2>2. \A j \in 0..(n - 1) : c[j] \in LevelSet
    BY <1>1, <2>1
  <2>. QED BY <2>1, <2>2 DEF LevelSet
<1>3. l \in LevelSet /\ l.price = price /\ l.size = size /\ l.size > 0
  BY DEF Level, LevelSet
<1>4. i \in 0..n /\ \A j \in 0..(n - 1) : c[j].price < price <=> j < i
  BY BisectIs DEF FirstFrom
<1>. HIDE DEF i, l
<1>5. CASE Found(c, n, i, price)
  <2>1. i < n /\ c[i].price = price /\ i \in 0..(n - 1)
    BY <1>4, <1>5, <1>1 DEF Found
  <2>. DEFINE d == [c EXCEPT ![i] = l]
  <2>2. t = [c |-> d, n |-> n]
    BY <1>5 DEF Insert, i, l
  <2>3. d \in [0..(Capacity(c) - 1) -> LevelSet] /\ \A j \in 0..(n - 1) : d[j] = IF j = i THEN l ELSE c[j]
    BY <1>1, <1>2, <1>3
  <2>. HIDE DEF d
  <2>4. Capacity(d) = Capacity(c)
    BY <1>1, <2>3, CapacityIs
  <2>5. InCells(d, n)
    BY <1>1, <2>3, <2>4 DEF InCells, LevelSet
  <2>6. \A j \in 0..(n - 1) : d[j].size > 0 /\ d[j].price = c[j].price
    BY <1>1, <1>3, <2>1, <2>3
  <2>7. Sorted(d, n)
    BY <1>1, <2>5, <2>6 DEF Sorted
  <2>8. Levels(d, n) = Told(Levels(c, n), l)
    <3>1. \A j \in 0..(n - 1) : j # i => c[j].price # price
      BY <1>1, <1>2, <2>1
    <3>2. \A j \in 0..(n - 1) : d[j] \in Told(Levels(c, n), l)
      BY <1>3, <2>3, <3>1 DEF Told, Levels
    <3>3. \A x \in Told(Levels(c, n), l) : \E j \in 0..(n - 1) : x = d[j]
      BY <1>3, <2>1, <2>3 DEF Told, Levels
    <3>. QED BY <3>2, <3>3 DEF Levels
  <2>. QED
    <3>1. t \in Sides
      BY <2>2, <2>7, SortedIsSide
    <3>. HIDE DEF t
    <3>2. t.c = d /\ t.n = n
      BY <2>2
    <3>. QED BY <2>8, <3>1, <3>2 DEF l, t
<1>6. CASE ~Found(c, n, i, price)
  <2>1. PICK m \in Nat \ {0} : /\ wide \in [0..(m - 1) -> LevelSet] /\ n < m
                              /\ \A j \in 0..(n - 1) : wide[j] = c[j]
    BY EnsuredIs
  <2>. DEFINE d == [j \in DOMAIN wide |->
                        IF j = i THEN l ELSE IF j \in (i + 1)..n THEN wide[j - 1] ELSE wide[j]]
  <2>2. t = [c |-> d, n |-> n + 1]
    BY <1>6 DEF Insert, i, l
  <2>. HIDE DEF wide
  <2>3. DOMAIN wide = 0..(m - 1)
    BY <2>1
  <2>4. d \in [0..(m - 1) -> LevelSet]
    <3>1. \A j \in 0..(m - 1) : j \in (i + 1)..n => j - 1 \in 0..(m - 1)
      BY <1>1, <1>4
    <3>2. \A j \in 0..(m - 1) : wide[j] \in LevelSet
      BY <2>1
    <3>3. \A j \in 0..(m - 1) :
             (IF j = i THEN l ELSE IF j \in (i + 1)..n THEN wide[j - 1] ELSE wide[j]) \in LevelSet
      BY <1>3, <3>1, <3>2
    <3>. QED BY <2>3, <3>3
  <2>5. \A j \in 0..n : /\ j < i => d[j] = c[j] /\ j \in 0..(n - 1)
                        /\ j = i => d[j] = l
                        /\ j > i => d[j] = c[j - 1] /\ j - 1 \in 0..(n - 1) /\ ~(j - 1 < i)
    <3>1. \A j \in 0..n : j \in 0..(m - 1)
      BY <1>1, <2>1
    <3>2. \A j \in 0..n : /\ j < i => j \in 0..(n - 1) /\ j \notin (i + 1)..n /\ j # i
                          /\ j > i => j - 1 \in 0..(n - 1) /\ ~(j - 1 < i) /\ j \in (i + 1)..n /\ j # i
      BY <1>1, <1>4
    <3>3. \A j \in 0..n :
             d[j] = IF j = i THEN l ELSE IF j \in (i + 1)..n THEN wide[j - 1] ELSE wide[j]
      BY <2>3, <3>1
    <3>. HIDE DEF d
    <3>. QED BY <2>1, <3>2, <3>3
  <2>. HIDE DEF d
  <2>6. Capacity(d) = m
    BY <2>1, <2>4, CapacityIs
  <2>7. \A j \in 0..n : j < i \/ j = i \/ j > i
    BY <1>4
  <2>8. \A j \in 0..(n - 1) : ~(j < i) => c[j].price > price
    <3>1. i < n => c[i].price # price
      BY <1>6 DEF Found
    <3>2. \A j \in 0..(n - 1) : ~(j < i) => c[j].price >= price
      BY <1>2, <1>4
    <3>3. \A j \in 0..(n - 1) : j > i => i \in 0..(n - 1) /\ c[i].price < c[j].price
      BY <1>1, <1>4
    <3>. QED BY <1>1, <1>2, <1>4, <3>1, <3>2, <3>3
  <2>9. Sorted(d, n + 1)
    <3>1. InCells(d, n + 1)
      BY SMTT(30), <1>1, <2>1, <2>4, <2>6 DEF InCells, LevelSet
    <3>2. ASSUME NEW j \in 0..n PROVE d[j].size > 0
      BY <1>1, <1>3, <2>5, <2>7
    <3>3. ASSUME NEW j \in 0..n, NEW k \in 0..n, j < k PROVE d[j].price < d[k].price
      <4>1. CASE k < i
        BY <1>1, <1>4, <2>5, <3>3, <4>1
      <4>2. CASE k = i
        BY <1>3, <1>4, <2>5, <3>3, <4>2
      <4>3. CASE k > i /\ j < i
        <5>1. d[j].price < price /\ d[k].price > price /\ d[j] = c[j] /\ d[k] = c[k - 1]
              /\ j \in 0..(n - 1) /\ k - 1 \in 0..(n - 1)
          BY <1>4, <2>5, <2>8, <4>3
        <5>. QED BY <1>2, <5>1
      <4>4. CASE k > i /\ j = i
        BY <1>3, <2>5, <2>8, <4>4
      <4>5. CASE k > i /\ j > i
        <5>1. d[j] = c[j - 1] /\ d[k] = c[k - 1] /\ j - 1 \in 0..(n - 1) /\ k - 1 \in 0..(n - 1)
          BY <2>5, <4>5
        <5>2. j - 1 < k - 1
          BY <3>3
        <5>. QED BY <1>1, <5>1, <5>2
      <4>. QED BY <2>7, <4>1, <4>2, <4>3, <4>4, <4>5
    <3>4. (n + 1) - 1 = n
      BY <1>1
    <3>. QED BY <3>1, <3>2, <3>3, <3>4 DEF Sorted
  <2>10. Levels(d, n + 1) = Told(Levels(c, n), l)
    <3>1. \A j \in 0..(n - 1) : c[j].price # price
      BY <1>2, <1>4, <2>8
    <3>2. \A j \in 0..n : d[j] \in Told(Levels(c, n), l)
      BY <1>3, <2>5, <2>7, <3>1 DEF Told, Levels
    <3>3. \A x \in Told(Levels(c, n), l) : \E j \in 0..n : x = d[j]
      <4>. TAKE x \in Told(Levels(c, n), l)
      <4>1. CASE x = l
        BY <1>1, <1>4, <2>5, <4>1
      <4>2. CASE x \in Levels(c, n)
        <5>1. PICK k \in 0..(n - 1) : x = c[k]
          BY <4>2 DEF Levels
        <5>2. CASE k < i
          <6>1. k \in 0..n
            BY <1>1
          <6>. QED BY <2>5, <5>1, <5>2, <6>1
        <5>3. CASE ~(k < i)
          <6>1. k + 1 \in 0..n /\ k + 1 > i /\ (k + 1) - 1 = k
            BY <1>1, <1>4, <5>3
          <6>2. d[k + 1] = c[(k + 1) - 1]
            BY <2>5, <6>1
          <6>. QED BY <5>1, <6>1, <6>2
        <5>. QED BY <5>2, <5>3
      <4>. QED BY <4>1, <4>2 DEF Told
    <3>4. (n + 1) - 1 = n
      BY <1>1
    <3>. QED BY <3>2, <3>3, <3>4 DEF Levels
  <2>. QED
    <3>1. t \in Sides
      BY <2>2, <2>9, SortedIsSide
    <3>. HIDE DEF t
    <3>2. t.c = d /\ t.n = n + 1
      BY <2>2
    <3>. QED BY <2>10, <3>1, <3>2 DEF l, t
<1>. QED BY <1>5, <1>6

\* A removal keeps the order, and the levels are those of the other prices.
LEMMA TakeOutIs ==
    ASSUME NEW c, NEW n, Sorted(c, n), NEW price \in Nat
    PROVE  LET t == TakeOut([c |-> c, n |-> n], price)
           IN  /\ t \in Sides
               /\ Levels(t.c, t.n) = Told(Levels(c, n), Level(price, 0))
<1>. DEFINE t == TakeOut([c |-> c, n |-> n], price)
            i == BisectLeft(c, n, price)
            rest == Told(Levels(c, n), Level(price, 0))
            m == Capacity(c)
<1>1. /\ n \in Nat /\ m \in Nat \ {0} /\ n <= m /\ c \in [0..(m - 1) -> LevelSet]
      /\ \A j \in 0..(n - 1) : c[j].size > 0
      /\ \A j, k \in 0..(n - 1) : j < k => c[j].price < c[k].price
  BY DEF Sorted, InCells, LevelSet
<1>. HIDE DEF m
<1>2. \A j \in 0..(n - 1) : /\ j \in 0..(m - 1) /\ c[j].price \in Nat /\ c[j] \in LevelSet
  <2>1. \A j \in 0..(n - 1) : j \in 0..(m - 1)
    BY <1>1
  <2>2. \A j \in 0..(n - 1) : c[j] \in LevelSet
    BY <1>1, <2>1
  <2>. QED BY <2>1, <2>2 DEF LevelSet
<1>3. rest = {x \in Levels(c, n) : x.price # price}
  BY DEF Told, Level
<1>4. i \in 0..n /\ \A j \in 0..(n - 1) : c[j].price < price <=> j < i
  BY BisectIs DEF FirstFrom
<1>. HIDE DEF i, rest
<1>5. CASE ~Found(c, n, i, price)
  <2>1. t = [c |-> c, n |-> n]
    BY <1>5 DEF TakeOut, i
  <2>2. \A j \in 0..(n - 1) : c[j].price # price
    <3>. SUFFICES ASSUME NEW j \in 0..(n - 1), c[j].price = price PROVE FALSE
      OBVIOUS
    <3>1. ~(j < i)
      BY <1>2, <1>4
    <3>2. i < n /\ i \in 0..(n - 1) /\ (i = j \/ i < j)
      BY <1>1, <1>4, <3>1
    <3>3. ~(c[i].price < price) /\ c[i].price # price
      BY <1>4, <1>5, <3>2 DEF Found
    <3>. QED BY <1>1, <1>2, <3>2, <3>3
  <2>3. Levels(c, n) = rest
    BY <1>3, <2>2 DEF Levels
  <2>4. t \in Sides
    BY <2>1, SortedIsSide
  <2>. HIDE DEF t
  <2>5. t.c = c /\ t.n = n
    BY <2>1
  <2>. QED BY <2>3, <2>4, <2>5 DEF t, rest
<1>6. CASE Found(c, n, i, price)
  <2>1. i < n /\ c[i].price = price /\ i \in 0..(n - 1) /\ n - 1 \in Nat
    BY <1>1, <1>4, <1>6 DEF Found
  <2>. DEFINE d == [j \in DOMAIN c |-> IF j \in i..(n - 2) THEN c[j + 1] ELSE c[j]]
  <2>2. t = [c |-> d, n |-> n - 1]
    BY <1>6 DEF TakeOut, i
  <2>3. d \in [0..(m - 1) -> LevelSet]
    <3>1. DOMAIN c = 0..(m - 1)
      BY <1>1
    <3>2. \A j \in 0..(m - 1) : j \in i..(n - 2) => j + 1 \in 0..(m - 1)
      BY <1>1, <1>4
    <3>3. \A j \in 0..(m - 1) : (IF j \in i..(n - 2) THEN c[j + 1] ELSE c[j]) \in LevelSet
      BY <1>1, <3>2
    <3>. QED BY <3>1, <3>3
  <2>4. \A j \in 0..(n - 2) : /\ j < i => d[j] = c[j]
                              /\ ~(j < i) => d[j] = c[j + 1]
                              /\ j \in 0..(n - 1) /\ j + 1 \in 0..(n - 1)
    <3>1. \A j \in 0..(n - 2) : j \in 0..(m - 1) /\ j \in 0..(n - 1) /\ j + 1 \in 0..(n - 1)
      BY <1>1
    <3>2. \A j \in 0..(n - 2) : j < i <=> j \notin i..(n - 2)
      BY <1>4
    <3>3. \A j \in 0..(n - 2) : d[j] = IF j \in i..(n - 2) THEN c[j + 1] ELSE c[j]
      BY <1>1, <3>1
    <3>. HIDE DEF d
    <3>. QED BY <3>1, <3>2, <3>3
  <2>. HIDE DEF d
  <2>5. Capacity(d) = m
    BY <1>1, <2>3, CapacityIs
  <2>6. (n - 1) - 1 = n - 2
    BY <1>1
  <2>7. Sorted(d, n - 1)
    <3>1. InCells(d, n - 1)
      BY <1>1, <2>1, <2>3, <2>5 DEF InCells, LevelSet
    <3>2. \A j \in 0..(n - 2) : d[j].size > 0
      BY <1>1, <2>4
    <3>3. ASSUME NEW j \in 0..(n - 2), NEW k \in 0..(n - 2), j < k PROVE d[j].price < d[k].price
      <4>. DEFINE p == IF j < i THEN j ELSE j + 1
                  q == IF k < i THEN k ELSE k + 1
      <4>1. p \in 0..(n - 1) /\ q \in 0..(n - 1) /\ d[j] = c[p] /\ d[k] = c[q]
        BY <2>4
      <4>2. p < q
        BY <1>4, <3>3
      <4>. HIDE DEF p, q
      <4>. QED BY <1>1, <4>1, <4>2
    <3>. QED BY <2>6, <3>1, <3>2, <3>3 DEF Sorted
  <2>8. Levels(d, n - 1) = rest
    <3>1. \A j \in 0..(n - 1) : j # i => c[j].price # price
      BY <1>1, <1>2, <2>1
    <3>2. \A j \in 0..(n - 2) : d[j] \in rest
      <4>. TAKE j \in 0..(n - 2)
      <4>. DEFINE p == IF j < i THEN j ELSE j + 1
      <4>1. p \in 0..(n - 1) /\ d[j] = c[p] /\ p # i
        BY <1>4, <2>4
      <4>. HIDE DEF p
      <4>. QED BY <1>3, <3>1, <4>1 DEF Levels
    <3>3. \A x \in rest : \E j \in 0..(n - 2) : x = d[j]
      <4>. TAKE x \in rest
      <4>1. PICK k \in 0..(n - 1) : x = c[k]
        BY <1>3 DEF Levels
      <4>2. k # i
        BY <1>3, <2>1, <4>1
      <4>3. CASE k < i
        <5>1. k \in 0..(n - 2)
          BY <1>1, <1>4, <2>1, <4>3
        <5>. QED BY <2>4, <4>1, <4>3, <5>1
      <4>4. CASE ~(k < i)
        <5>1. k - 1 \in 0..(n - 2) /\ ~(k - 1 < i) /\ (k - 1) + 1 = k
          BY <1>1, <1>4, <4>2, <4>4
        <5>2. d[k - 1] = c[(k - 1) + 1]
          BY <2>4, <5>1
        <5>. QED BY <4>1, <5>1, <5>2
      <4>. QED BY <4>3, <4>4
    <3>. QED BY <2>6, <3>2, <3>3 DEF Levels
  <2>. QED
    <3>1. t \in Sides
      BY <2>2, <2>7, SortedIsSide
    <3>. HIDE DEF t
    <3>2. t.c = d /\ t.n = n - 1
      BY <2>2
    <3>. QED BY <2>8, <3>1, <3>2 DEF rest, t
<1>. QED BY <1>5, <1>6

\* What a delta makes of the arrays at a level, as either.
Put(s, l) == IF l.size = 0 THEN TakeOut(s, l.price) ELSE Insert(s, l.price, l.size)

\* It keeps the order, and the levels are those of the other prices and this one.
LEMMA PutIs ==
    ASSUME NEW s \in Sides, NEW l \in LevelSet
    PROVE  /\ Put(s, l) \in Sides
           /\ Levels(Put(s, l).c, Put(s, l).n) = Told(Levels(s.c, s.n), l)
<1>1. Sorted(s.c, s.n) /\ s = [c |-> s.c, n |-> s.n]
  BY DEF Sides
<1>2. l.price \in Nat /\ l.size \in Nat /\ l = Level(l.price, l.size)
  BY DEF LevelSet, Level
<1>3. CASE l.size = 0
  <2>1. Put(s, l) = TakeOut([c |-> s.c, n |-> s.n], l.price)
    BY <1>1, <1>3 DEF Put
  <2>2. l = Level(l.price, 0)
    BY <1>2, <1>3
  <2>. QED BY <1>1, <1>2, <2>1, <2>2, TakeOutIs
<1>4. CASE l.size # 0
  <2>1. Put(s, l) = Insert([c |-> s.c, n |-> s.n], l.price, l.size)
    BY <1>1, <1>4 DEF Put
  <2>2. l.size \in Nat \ {0}
    BY <1>2, <1>4
  <2>. QED BY <1>1, <1>2, <2>1, <2>2, InsertIs
<1>. QED BY <1>3, <1>4

\* The last size told of a price counts.
LastFor(msg, k, i) == i \in 1..k /\ \A j \in 1..k : j > i => msg[j].price # msg[i].price

\* The levels after the first k of a message: those of prices it does not name, and
\* what it says last of the others.
AfterFirst(set, msg, k) ==
    {x \in set : \A i \in 1..k : x.price # msg[i].price}
    \cup {x \in LevelSet : x.size > 0 /\ \E i \in 1..k : LastFor(msg, k, i) /\ x = msg[i]}

\* One more level of the message.
LEMMA AfterNext ==
    ASSUME NEW set, set \subseteq LevelSet, NEW m \in Nat, NEW msg \in [1..m -> LevelSet],
           NEW k \in 1..m
    PROVE  AfterFirst(set, msg, k) = Told(AfterFirst(set, msg, k - 1), msg[k])
<1>0. k - 1 \in Nat /\ \A i \in 1..k : (i \in 1..(k - 1) \/ i = k) /\ msg[i] \in LevelSet
  OBVIOUS
<1>1. \A i \in 1..(k - 1) : i \in 1..k /\ i < k
  OBVIOUS
<1>2. LastFor(msg, k, k) /\ k \in 1..k
  BY DEF LastFor
<1>3. \A i \in 1..(k - 1) : LastFor(msg, k, i) <=> LastFor(msg, k - 1, i) /\ msg[k].price # msg[i].price
  BY <1>0, <1>1 DEF LastFor
<1>4. ASSUME NEW x \in AfterFirst(set, msg, k) PROVE x \in Told(AfterFirst(set, msg, k - 1), msg[k])
  <2>1. CASE x \in set /\ \A i \in 1..k : x.price # msg[i].price
    BY <1>1, <1>2, <2>1 DEF AfterFirst, Told
  <2>2. CASE x \in LevelSet /\ x.size > 0 /\ \E i \in 1..k : LastFor(msg, k, i) /\ x = msg[i]
    <3>1. PICK i \in 1..k : LastFor(msg, k, i) /\ x = msg[i]
      BY <2>2
    <3>2. CASE i = k
      BY <2>2, <3>1, <3>2 DEF Told
    <3>3. CASE i \in 1..(k - 1)
      BY <1>3, <2>2, <3>1, <3>3 DEF Told, AfterFirst
    <3>. QED BY <1>0, <3>2, <3>3
  <2>. QED BY <1>4, <2>1, <2>2 DEF AfterFirst
<1>5. ASSUME NEW x \in Told(AfterFirst(set, msg, k - 1), msg[k]) PROVE x \in AfterFirst(set, msg, k)
  <2>1. CASE x = msg[k] /\ x.size > 0
    BY <1>0, <1>2, <2>1 DEF AfterFirst
  <2>2. CASE x \in AfterFirst(set, msg, k - 1) /\ x.price # msg[k].price
    <3>1. CASE x \in set /\ \A i \in 1..(k - 1) : x.price # msg[i].price
      BY <1>0, <2>2, <3>1 DEF AfterFirst
    <3>2. CASE x \in LevelSet /\ x.size > 0 /\ \E i \in 1..(k - 1) : LastFor(msg, k - 1, i) /\ x = msg[i]
      <4>1. PICK i \in 1..(k - 1) : LastFor(msg, k - 1, i) /\ x = msg[i]
        BY <3>2
      <4>2. LastFor(msg, k, i) /\ i \in 1..k
        BY <1>1, <1>3, <2>2, <4>1
      <4>. QED BY <3>2, <4>1, <4>2 DEF AfterFirst
    <3>. QED BY <2>2, <3>1, <3>2 DEF AfterFirst
  <2>. QED BY <1>5, <2>1, <2>2 DEF Told
<1>. QED BY <1>4, <1>5

\* A message: a bounded number of levels.
LEMMA MessageIs ==
    ASSUME NEW msg \in Messages
    PROVE  /\ Len(msg) \in Nat /\ Len(msg) <= MaxItems
           /\ msg \in [1..Len(msg) -> Items] /\ msg \in [1..Len(msg) -> LevelSet]
           /\ Items \subseteq LevelSet
<1>1. PICK m \in 0..MaxItems : msg \in [1..m -> Items]
  BY DEF Messages
<1>2. m \in Nat /\ m <= MaxItems
  BY SideAssumption
<1>3. msg \in Seq(Items) /\ Len(msg) = m
  BY <1>1, <1>2, SeqOfLength
<1>4. Items \subseteq LevelSet
  BY SideAssumption DEF Items, LevelSet
<1>. QED BY <1>1, <1>2, <1>3, <1>4

\* What a delta leaves in the arrays.
LEMMA DeltaIs ==
    ASSUME Sorted(cells, count), NEW msg \in Messages, Delta(msg)
    PROVE  /\ Sorted(cells', count')
           /\ Levels(cells', count') = AfterFirst(Levels(cells, count), msg, Len(msg))
           /\ answer' = Map!Asked
<1>. DEFINE n == Len(msg)
            atFirst == [c |-> cells, n |-> count]
            F == [k \in Nat |-> [s \in Sides |-> IF k \in 1..n THEN Put(s, msg[k]) ELSE s]]
            R(h) == h = [k \in 0..n |->
                            IF k = 0 THEN atFirst
                            ELSE IF msg[k].size = 0 THEN TakeOut(h[k - 1], msg[k].price)
                            ELSE Insert(h[k - 1], msg[k].price, msg[k].size)]
            the == CHOOSE h : R(h)
<1>1. n \in Nat /\ msg \in [1..n -> LevelSet] /\ atFirst \in Sides
  BY MessageIs, SortedIsSide
<1>2. cells' = the[n].c /\ count' = the[n].n /\ answer' = Map!Asked
  BY DEF Delta
<1>. HIDE DEF n, atFirst
<1>3. F \in [Nat -> [Sides -> Sides]]
  <2>1. \A k \in 1..n : \A s \in Sides : Put(s, msg[k]) \in Sides
    BY <1>1, PutIs
  <2>. QED BY <2>1
<1>4. PICK h : Follows(h, n, Sides, atFirst, F)
  <2>. HIDE DEF F
  <2>. QED BY <1>1, <1>3, StepByStep
<1>5. ASSUME NEW g, R(g) PROVE \A k \in 0..n : g[k] = IF k = 0 THEN atFirst ELSE Put(g[k - 1], msg[k])
  BY <1>5 DEF Put
<1>6. R(h)
  <2>1. h \in [0..n -> Sides] /\ h[0] = atFirst
    BY <1>4 DEF Follows
  <2>2. \A k \in 1..n : h[k] = Put(h[k - 1], msg[k])
    <3>1. \A k \in 1..n : k - 1 \in 0..n /\ k \in Nat
      BY <1>1
    <3>2. \A k \in 1..n : h[k] = F[k][h[k - 1]] /\ h[k - 1] \in Sides
      <4>1. \A k \in 1..n : h[k] = F[k][h[k - 1]]
        <5>. HIDE DEF F
        <5>. QED BY <1>4 DEF Follows
      <4>. QED BY <2>1, <3>1, <4>1
    <3>. QED BY <3>1, <3>2
  <2>3. \A k \in 0..n : k = 0 \/ k \in 1..n
    BY <1>1
  <2>4. \A k \in 0..n : h[k] = IF k = 0 THEN atFirst ELSE Put(h[k - 1], msg[k])
    BY <2>1, <2>2, <2>3
  <2>5. h = [k \in 0..n |-> h[k]]
    BY <2>1
  <2>. HIDE DEF F
  <2>6. h = [k \in 0..n |-> IF k = 0 THEN atFirst ELSE Put(h[k - 1], msg[k])]
    BY <2>4, <2>5
  <2>. QED BY <2>6 DEF Put
<1>7. R(the)
  <2>. HIDE DEF R
  <2>. QED BY <1>6
<1>8. \A k \in 0..n : the[k] = IF k = 0 THEN atFirst ELSE Put(the[k - 1], msg[k])
  <2>. HIDE DEF R, the
  <2>. QED BY <1>5, <1>7
<1>. HIDE DEF the, R, F
<1>. DEFINE L == Levels(cells, count)
            Good(k) == /\ the[k] \in Sides
                       /\ Levels(the[k].c, the[k].n) = AfterFirst(L, msg, k)
            bad == {k \in 0..n : ~Good(k)}
<1>9. L \subseteq LevelSet
  <2>1. \A j \in 0..(count - 1) : cells[j] \in LevelSet
    BY CellIs DEF Sorted, LevelSet
  <2>. QED BY <2>1 DEF Levels
<1>10. bad = {}
  <2>. SUFFICES ASSUME bad # {} PROVE FALSE
    OBVIOUS
  <2>1. PICK k \in bad : \A j \in bad : k <= j
    <3>1. bad \subseteq Nat
      BY <1>1
    <3>. HIDE DEF bad
    <3>. QED BY <3>1, LeastOf
  <2>2. k \in 0..n /\ ~Good(k)
    <3>. HIDE DEF Good
    <3>. QED BY <2>1
  <2>3. CASE k = 0
    <3>1. the[k] = atFirst
      BY <1>8, <2>2, <2>3
    <3>2. Levels(the[k].c, the[k].n) = L
      BY <3>1 DEF atFirst
    <3>3. AfterFirst(L, msg, k) = L
      BY <2>3 DEF AfterFirst
    <3>. QED BY <1>1, <2>2, <3>1, <3>2, <3>3
  <2>4. CASE k # 0
    <3>1. k \in 1..n /\ k - 1 \in 0..n /\ k - 1 < k
      BY <1>1, <2>2, <2>4
    <3>2. Good(k - 1)
      <4>1. k - 1 \notin bad
        <5>. HIDE DEF bad
        <5>. QED BY <2>1, <2>2, <3>1
      <4>. HIDE DEF Good
      <4>. QED BY <3>1, <4>1
    <3>3. the[k] = Put(the[k - 1], msg[k]) /\ msg[k] \in LevelSet
      BY <1>1, <1>8, <2>4, <3>1
    <3>4. /\ the[k] \in Sides
          /\ Levels(the[k].c, the[k].n) = Told(Levels(the[k - 1].c, the[k - 1].n), msg[k])
      BY <3>2, <3>3, PutIs
    <3>5. AfterFirst(L, msg, k) = Told(AfterFirst(L, msg, k - 1), msg[k])
      BY <1>1, <1>9, <3>1, AfterNext
    <3>. QED BY <2>2, <3>2, <3>4, <3>5
  <2>. QED BY <2>3, <2>4
<1>11. Good(n)
  <2>1. n \in 0..n
    BY <1>1
  <2>. HIDE DEF Good
  <2>. QED BY <1>10, <2>1
<1>. QED
  <2>1. Sorted(the[n].c, the[n].n)
    BY <1>11 DEF Sides
  <2>. QED BY <1>2, <1>11, <2>1 DEF n

\* Doubled until it holds n, the capacity of some cells does hold n.
LEMMA GrownIs ==
    ASSUME NEW c, NEW k, Sorted(c, k), NEW n \in Nat, NEW e, e = Grown(c, n)
    PROVE  \E m \in Nat \ {0} : e \in [0..(m - 1) -> LevelSet] /\ n <= m
<1>. DEFINE R(g) == g = [cap \in Nat |-> IF cap >= n THEN cap ELSE g[2 * cap]]
            the == CHOOSE g : R(g)
<1>1. \E g : R(g)
  <2>. DEFINE G(g) == [cap \in Nat |-> IF cap >= n \/ cap = 0 THEN cap ELSE g[2 * cap]]
              F == [g \in [Nat -> Nat] |-> G(g)]
              rank == [cap \in Nat |-> IF cap >= n THEN 0 ELSE n - cap]
  <2>1. \A cap \in Nat : 2 * cap \in Nat
    OBVIOUS
  <2>2. \A g \in [Nat -> Nat] : G(g) \in [Nat -> Nat]
    BY <2>1
  <2>3. F \in [[Nat -> Nat] -> [Nat -> Nat]] /\ \A g \in [Nat -> Nat] : F[g] = G(g)
    <3>. HIDE DEF G
    <3>. QED BY <2>2
  <2>4. rank \in [Nat -> Nat] /\ \A cap \in Nat : rank[cap] <= n
    OBVIOUS
  <2>5. ASSUME NEW g \in [Nat -> Nat], NEW h \in [Nat -> Nat], NEW cap \in Nat,
               \A y \in Nat : rank[y] < rank[cap] => g[y] = h[y]
        PROVE  F[g][cap] = F[h][cap]
    <3>1. G(g)[cap] = G(h)[cap]
      <4>1. CASE cap >= n \/ cap = 0
        BY <4>1
      <4>2. CASE ~(cap >= n) /\ cap # 0
        <5>1. 2 * cap \in Nat /\ rank[2 * cap] < rank[cap]
          BY <4>2
        <5>2. g[2 * cap] = h[2 * cap]
          BY <2>5, <5>1
        <5>. QED BY <5>2
      <4>. QED BY <4>1, <4>2
    <3>. HIDE DEF F, G
    <3>. QED BY <2>3, <3>1
  <2>6. Nat # {}
    OBVIOUS
  <2>7. Descends(F, Nat, Nat, rank, n)
    <3>. HIDE DEF F, rank
    <3>. QED BY <2>3, <2>4, <2>5, <2>6 DEF Descends
  <2>8. PICK g \in [Nat -> Nat] : g = F[g]
    <3>. HIDE DEF F, rank
    <3>. QED BY <2>7, FixedPoint
  <2>9. g = G(g)
    <3>. HIDE DEF F, G
    <3>. QED BY <2>3, <2>8
  <2>10. \A cap \in Nat : g[cap] = IF cap >= n \/ cap = 0 THEN cap ELSE g[2 * cap]
    <3>1. \A cap \in Nat : G(g)[cap] = IF cap >= n \/ cap = 0 THEN cap ELSE g[2 * cap]
      OBVIOUS
    <3>. HIDE DEF G, F
    <3>. QED BY <2>9, <3>1
  <2>11. \A cap \in Nat : g[cap] = IF cap >= n THEN cap ELSE g[2 * cap]
    <3>1. 2 * 0 = 0
      OBVIOUS
    <3>. HIDE DEF G, F
    <3>. QED BY <2>10, <3>1
  <2>12. g = [cap \in Nat |-> g[cap]]
    OBVIOUS
  <2>. HIDE DEF G, F
  <2>. QED BY <2>11, <2>12
<1>2. R(the)
  <2>. HIDE DEF R
  <2>. QED BY <1>1
<1>3. \A cap \in Nat : the[cap] = IF cap >= n THEN cap ELSE the[2 * cap]
  <2>1. ASSUME NEW g, R(g) PROVE \A cap \in Nat : g[cap] = IF cap >= n THEN cap ELSE g[2 * cap]
    BY <2>1
  <2>. HIDE DEF R, the
  <2>. QED BY <1>2, <2>1
<1>. HIDE DEF R, the
<1>. DEFINE Holds(cap) == the[cap] \in Nat \ {0} /\ the[cap] >= n
            bad == {d \in 0..n : \E cap \in Nat \ {0} : ~Holds(cap) /\ n - cap = d}
<1>4. bad = {}
  <2>. SUFFICES ASSUME bad # {} PROVE FALSE
    OBVIOUS
  <2>1. PICK d \in bad : \A j \in bad : d <= j
    <3>1. bad \subseteq Nat
      OBVIOUS
    <3>. HIDE DEF bad
    <3>. QED BY <3>1, LeastOf
  <2>2. PICK cap \in Nat \ {0} : ~Holds(cap) /\ n - cap = d
    <3>. HIDE DEF Holds
    <3>. QED BY <2>1
  <2>3. cap < n /\ the[cap] = the[2 * cap] /\ 2 * cap \in Nat \ {0}
    BY <1>3, <2>2
  <2>4. ~Holds(2 * cap)
    BY <2>2, <2>3
  <2>5. 2 * cap < n
    BY <1>3, <2>3, <2>4
  <2>6. n - 2 * cap \in 0..n /\ n - 2 * cap < d /\ d \in Int
    BY <2>2, <2>5
  <2>7. n - 2 * cap \in bad
    <3>. HIDE DEF Holds
    <3>. QED BY <2>3, <2>4, <2>6
  <2>. HIDE DEF bad, Holds
  <2>. QED BY <2>1, <2>6, <2>7
<1>5. \A cap \in Nat \ {0} : Holds(cap)
  <2>. SUFFICES ASSUME NEW cap \in Nat \ {0}, ~Holds(cap) PROVE FALSE
    OBVIOUS
  <2>1. cap < n
    BY <1>3
  <2>2. n - cap \in 0..n
    BY <2>1
  <2>3. n - cap \in bad
    <3>. HIDE DEF Holds
    <3>. QED BY <2>2
  <2>. QED BY <1>4, <2>3
<1>. DEFINE m == the[Capacity(c)]
<1>6. /\ Capacity(c) \in Nat \ {0} /\ c \in [0..(Capacity(c) - 1) -> LevelSet]
  BY DEF Sorted, InCells, LevelSet
<1>7. m \in Nat \ {0} /\ n <= m
  BY <1>5, <1>6
<1>8. e = [i \in 0..(m - 1) |-> IF i \in DOMAIN c THEN c[i] ELSE NoLevel]
  BY DEF Grown, R, the
<1>9. e \in [0..(m - 1) -> LevelSet]
  <2>1. NoLevel \in LevelSet
    BY DEF NoLevel, Level, LevelSet
  <2>2. \A i \in DOMAIN c : c[i] \in LevelSet
    BY <1>6
  <2>. HIDE DEF m
  <2>. QED BY <1>8, <2>1, <2>2
<1>. QED BY <1>7, <1>9

\* So many prices of a set of levels are lower.
LowerThan(set, l) == {k \in set : k.price < l.price}

\* Levels of different prices, listed by how many are lower.
ListedBy(set, by) ==
    /\ set \subseteq LevelSet /\ IsFiniteSet(set)
    /\ \A a, b \in set : a.price = b.price => a = b
    /\ by = [i \in 0..(Cardinality(set) - 1) |->
                CHOOSE l \in set : Cardinality(LowerThan(set, l)) = i]

\* A list of all of a set by rising price.
Rising(set, by, n) ==
    /\ n \in Nat /\ n = Cardinality(set)
    /\ \A i \in 0..(n - 1) : by[i] \in set
    /\ \A i, j \in 0..(n - 1) : i < j => by[i].price < by[j].price
    /\ \A l \in set : \E i \in 0..(n - 1) : by[i] = l

\* By how many are lower, the levels of a set are in order, and none is left out.
LEMMA RanksOrder ==
    ASSUME NEW set, NEW by, ListedBy(set, by)
    PROVE  Rising(set, by, Cardinality(set))
<1>a. /\ set \subseteq LevelSet /\ IsFiniteSet(set)
      /\ \A a, b \in set : a.price = b.price => a = b
      /\ by = [i \in 0..(Cardinality(set) - 1) |->
                  CHOOSE l \in set : Cardinality(LowerThan(set, l)) = i]
  BY DEF ListedBy
<1>. DEFINE n == Cardinality(set)
            rank == [l \in set |-> Cardinality(LowerThan(set, l))]
<1>0. n \in Nat /\ \A l \in set : l.price \in Nat
  <2>1. \A l \in set : l.price \in Nat
    BY <1>a DEF LevelSet
  <2>. QED BY <1>a, <2>1, FS_CardinalityType
<1>1. ASSUME NEW l \in set
      PROVE  /\ IsFiniteSet(LowerThan(set, l)) /\ rank[l] = Cardinality(LowerThan(set, l))
             /\ rank[l] \in 0..(n - 1)
  <2>1. LowerThan(set, l) \subseteq set /\ l \notin LowerThan(set, l)
    BY <1>0 DEF LowerThan
  <2>2. /\ IsFiniteSet(LowerThan(set, l)) /\ Cardinality(LowerThan(set, l)) <= n
        /\ Cardinality(LowerThan(set, l)) # n
    BY <1>a, <2>1, FS_Subset
  <2>3. Cardinality(LowerThan(set, l)) \in Nat
    BY <2>2, FS_CardinalityType
  <2>4. rank[l] = Cardinality(LowerThan(set, l))
    OBVIOUS
  <2>. HIDE DEF rank, n
  <2>. QED BY <1>0, <2>2, <2>3, <2>4
<1>2. ASSUME NEW a \in set, NEW b \in set, a.price < b.price PROVE rank[a] < rank[b]
  <2>1. /\ LowerThan(set, a) \subseteq LowerThan(set, b)
        /\ a \in LowerThan(set, b) /\ a \notin LowerThan(set, a)
    BY <1>0, <1>2 DEF LowerThan
  <2>2. /\ Cardinality(LowerThan(set, a)) <= Cardinality(LowerThan(set, b))
        /\ Cardinality(LowerThan(set, b)) # Cardinality(LowerThan(set, a))
    BY <1>a, <1>1, <2>1, FS_Subset
  <2>3. rank[a] \in Int /\ rank[b] \in Int
    BY <1>1
  <2>. HIDE DEF rank
  <2>. QED BY <1>1, <2>2, <2>3
<1>3. \A a, b \in set : rank[a] = rank[b] => a = b
  <2>. SUFFICES ASSUME NEW a \in set, NEW b \in set, rank[a] = rank[b] PROVE a = b
    OBVIOUS
  <2>1. rank[a] \in Int /\ rank[b] \in Int
    BY <1>1
  <2>. HIDE DEF rank
  <2>2. ~(a.price < b.price) /\ ~(b.price < a.price)
    BY <1>2, <2>1
  <2>. QED BY <1>a, <1>0, <2>2
<1>4. rank \in [set -> 0..(n - 1)]
  <2>1. rank = [l \in set |-> rank[l]]
    OBVIOUS
  <2>. HIDE DEF rank, n
  <2>. QED BY <1>1, <2>1
<1>5. \A i \in 0..(n - 1) : \E l \in set : rank[l] = i
  <2>. HIDE DEF rank
  <2>. QED BY <1>a, <1>3, <1>4, RanksAreAll
<1>6. \A i \in 0..(n - 1) : by[i] \in set /\ rank[by[i]] = i
  <2>. TAKE i \in 0..(n - 1)
  <2>1. by[i] = CHOOSE l \in set : Cardinality(LowerThan(set, l)) = i
    BY <1>a
  <2>2. \E l \in set : Cardinality(LowerThan(set, l)) = i
    <3>. HIDE DEF rank, n
    <3>. QED BY <1>1, <1>5
  <2>3. by[i] \in set /\ Cardinality(LowerThan(set, by[i])) = i
    BY <2>1, <2>2
  <2>. HIDE DEF rank, n
  <2>. QED BY <1>1, <2>3
<1>. HIDE DEF rank, n
<1>7. ASSUME NEW i \in 0..(n - 1), NEW j \in 0..(n - 1), i < j PROVE by[i].price < by[j].price
  <2>1. by[i] # by[j] /\ i \in Int /\ j \in Int
    BY <1>0, <1>6, <1>7
  <2>2. ~(by[j].price < by[i].price)
    <3>1. by[i] \in set /\ by[j] \in set /\ rank[by[i]] < rank[by[j]]
      BY <1>6, <1>7
    <3>2. ~(rank[by[j]] < rank[by[i]])
      BY <1>6, <1>7, <2>1
    <3>. QED BY <1>2, <3>1, <3>2
  <2>3. by[i].price # by[j].price
    BY <1>a, <1>6, <2>1
  <2>. QED BY <1>0, <1>6, <2>2, <2>3
<1>8. ASSUME NEW l \in set PROVE \E i \in 0..(n - 1) : by[i] = l
  <2>1. rank[l] \in 0..(n - 1)
    BY <1>1
  <2>2. by[rank[l]] = l
    BY <1>3, <1>6, <2>1
  <2>. QED BY <2>1, <2>2
<1>9. \A i, j \in 0..(n - 1) : i < j => by[i].price < by[j].price
  BY <1>7
<1>10. Rising(set, by, n)
  BY <1>0, <1>6, <1>8, <1>9 DEF Rising, n
<1>. QED BY <1>10 DEF n

\* What a snapshot leaves in the arrays.
LEMMA LoadSnapshotIs ==
    ASSUME Sorted(cells, count), NEW msg \in Messages, OncePerPrice(msg), LoadSnapshot(msg)
    PROVE  /\ Sorted(cells', count')
           /\ Levels(cells', count') = AfterFirst({}, msg, Len(msg))
           /\ answer' = Map!Asked
<1>. DEFINE kept == {msg[i] : i \in {j \in DOMAIN msg : msg[j].size > 0}}
            n == Cardinality(kept)
            sorted == [i \in 0..(n - 1) |-> CHOOSE l \in kept : Cardinality(LowerThan(kept, l)) = i]
            wide == Grown(cells, n)
            m == Len(msg)
<1>0. m \in Nat /\ msg \in [1..m -> LevelSet] /\ DOMAIN msg = 1..m
  BY MessageIs
<1>1. /\ cells' = IF n = 0 THEN cells ELSE [i \in DOMAIN wide |-> IF i < n THEN sorted[i] ELSE wide[i]]
      /\ count' = n /\ answer' = Map!Asked
  BY DEF LoadSnapshot, LowerThan
<1>2. kept \subseteq LevelSet /\ \A l \in kept : l.size > 0
  BY <1>0
<1>3. \A a, b \in kept : a.price = b.price => a = b
  BY DEF OncePerPrice
<1>4. IsFiniteSet(kept)
  <2>. DEFINE all == {msg[i] : i \in 1..m}
  <2>1. IsFiniteSet(1..m)
    <3>1. 1 \in Int /\ m \in Int
      BY <1>0
    <3>. QED BY <3>1, FS_Interval
  <2>2. msg \in Surjection(1..m, all)
    <3>1. msg \in [1..m -> all]
      BY <1>0
    <3>. QED BY <3>1 DEF Surjection
  <2>3. IsFiniteSet(all)
    <3>. HIDE DEF all, m
    <3>. QED BY <2>1, <2>2, FS_Surjection
  <2>4. kept \subseteq all
    BY <1>0
  <2>. HIDE DEF all, kept, m
  <2>. QED BY <2>3, <2>4, FS_Subset
<1>5. kept = AfterFirst({}, msg, m)
  <2>1. \A i \in 1..m : LastFor(msg, m, i)
    <3>1. \A i, j \in 1..m : j > i => msg[j].price # msg[i].price
      BY <1>0 DEF OncePerPrice
    <3>. QED BY <3>1 DEF LastFor
  <2>. HIDE DEF m
  <2>. QED BY <1>0, <2>1 DEF AfterFirst
<1>6. /\ n \in Nat /\ \A i \in 0..(n - 1) : sorted[i] \in kept
      /\ \A i, j \in 0..(n - 1) : i < j => sorted[i].price < sorted[j].price
      /\ \A l \in kept : \E i \in 0..(n - 1) : sorted[i] = l
  <2>1. sorted = [i \in 0..(Cardinality(kept) - 1) |->
                     CHOOSE l \in kept : Cardinality(LowerThan(kept, l)) = i]
    OBVIOUS
  <2>. HIDE DEF kept, sorted
  <2>2. ListedBy(kept, sorted)
    BY <1>2, <1>3, <1>4, <2>1 DEF ListedBy
  <2>3. Rising(kept, sorted, n)
    BY <2>2, RanksOrder
  <2>. QED BY <2>3 DEF Rising
<1>. HIDE DEF kept, n, sorted, m
<1>7. CASE n = 0
  <2>1. cells' = cells /\ count' = 0
    BY <1>1, <1>7
  <2>2. kept = {} /\ 0..(0 - 1) = {}
    BY <1>6, <1>7
  <2>3. Sorted(cells', count')
    BY <2>1, <2>2 DEF Sorted, InCells
  <2>4. Levels(cells', count') = {}
    BY <2>1, <2>2 DEF Levels
  <2>. QED BY <1>1, <1>5, <2>2, <2>3, <2>4 DEF m
<1>8. CASE n # 0
  <2>. DEFINE d == [i \in DOMAIN wide |-> IF i < n THEN sorted[i] ELSE wide[i]]
  <2>1. PICK w \in Nat \ {0} : wide \in [0..(w - 1) -> LevelSet] /\ n <= w
    BY <1>6, GrownIs
  <2>. HIDE DEF wide
  <2>2. cells' = d /\ count' = n
    BY <1>1, <1>8
  <2>3. d \in [0..(w - 1) -> LevelSet]
    <3>1. \A i \in 0..(w - 1) : i < n => i \in 0..(n - 1)
      BY <1>6
    <3>2. \A i \in 0..(w - 1) : (IF i < n THEN sorted[i] ELSE wide[i]) \in LevelSet
      BY <1>2, <1>6, <2>1, <3>1
    <3>3. DOMAIN wide = 0..(w - 1)
      BY <2>1
    <3>. QED BY <3>2, <3>3
  <2>4. \A i \in 0..(n - 1) : d[i] = sorted[i]
    <3>1. \A i \in 0..(n - 1) : i \in 0..(w - 1) /\ i < n
      BY <1>6, <2>1
    <3>2. DOMAIN wide = 0..(w - 1)
      BY <2>1
    <3>. QED BY <3>1, <3>2
  <2>. HIDE DEF d
  <2>5. Capacity(d) = w
    BY <2>1, <2>3, CapacityIs
  <2>6. Sorted(d, n)
    <3>1. InCells(d, n)
      BY <1>6, <2>1, <2>3, <2>5 DEF InCells, LevelSet
    <3>. QED BY <1>2, <1>6, <2>4, <3>1 DEF Sorted
  <2>7. Levels(d, n) = kept
    BY <1>6, <2>4 DEF Levels
  <2>. QED BY <1>1, <1>5, <2>2, <2>6, <2>7 DEF m
<1>. QED BY <1>7, <1>8

-----------------------------------------------------------------------------

\* The map the arrays stand for.
MapOf(c, n) ==
    [p \in {c[i].price : i \in 0..(n - 1)} |->
        c[CHOOSE i \in 0..(n - 1) : c[i].price = p].size]

\* A map that shows the levels of a set.
Shows(m, set) ==
    /\ m = [p \in {l.price : l \in set} |-> m[p]]
    /\ \A l \in set : m[l.price] = l.size

\* A map has the prices and sizes of the cells.
Fits(m, c, n) ==
    /\ Shows(m, Levels(c, n))
    /\ DOMAIN m = {c[i].price : i \in 0..(n - 1)}
    /\ \A i \in 0..(n - 1) : m[c[i].price] = c[i].size

\* The map of the arrays has those.
LEMMA MapIs ==
    ASSUME NEW c, NEW n, Sorted(c, n), NEW m, m = MapOf(c, n)
    PROVE  Fits(m, c, n)
<1>1. n \in Nat /\ \A i, j \in 0..(n - 1) : i < j => c[i].price < c[j].price
  BY DEF Sorted, InCells
<1>2. \A i \in 0..(n - 1) : c[i].price \in Nat
  BY CellIs DEF Sorted
<1>3. \A i, j \in 0..(n - 1) : c[i].price = c[j].price => i = j
  BY <1>1, <1>2
<1>4. ASSUME NEW i \in 0..(n - 1) PROVE m[c[i].price] = c[i].size
  <2>1. (CHOOSE j \in 0..(n - 1) : c[j].price = c[i].price) = i
    BY <1>3
  <2>2. m[c[i].price] = c[CHOOSE j \in 0..(n - 1) : c[j].price = c[i].price].size
    BY DEF MapOf
  <2>. QED BY <2>1, <2>2
<1>5. DOMAIN m = {c[i].price : i \in 0..(n - 1)} /\ m = [p \in DOMAIN m |-> m[p]]
  BY DEF MapOf
<1>6. {l.price : l \in Levels(c, n)} = {c[i].price : i \in 0..(n - 1)}
  BY DEF Levels
<1>7. \A l \in Levels(c, n) : m[l.price] = l.size
  BY <1>4 DEF Levels
<1>8. m = [p \in {l.price : l \in Levels(c, n)} |-> m[p]]
  BY <1>5, <1>6
<1>. QED BY <1>4, <1>5, <1>7, <1>8 DEF Shows, Fits

\* The levels held have different prices, and sizes.
LEMMA LevelsAre ==
    ASSUME NEW c, NEW n, Sorted(c, n)
    PROVE  /\ Levels(c, n) \subseteq LevelSet
           /\ \A l \in Levels(c, n) : l.size > 0
           /\ \A a, b \in Levels(c, n) : a.price = b.price => a = b
<1>1. /\ n \in Nat /\ \A i \in 0..(n - 1) : c[i].size > 0
      /\ \A i, j \in 0..(n - 1) : i < j => c[i].price < c[j].price
  BY DEF Sorted, InCells
<1>2. \A i \in 0..(n - 1) : c[i].price \in Nat /\ c[i] \in LevelSet
  BY CellIs DEF Sorted, LevelSet
<1>3. \A i, j \in 0..(n - 1) : c[i].price = c[j].price => i = j
  BY <1>1, <1>2
<1>. QED BY <1>1, <1>2, <1>3 DEF Levels

\* Both count alike.
LEMMA SameCount == \A S : Map!Cardinality(S) = Cardinality(S)
BY DEF Map!Cardinality, Cardinality, Map!IsFiniteSet, IsFiniteSet

\* What a message tells, as the map takes it: the last size of each price.
ToldBy(msg) ==
    [p \in {msg[i].price : i \in 1..Len(msg)} |->
        msg[CHOOSE i \in 1..Len(msg) : LastFor(msg, Len(msg), i) /\ msg[i].price = p].size]

\* It is a telling, with the last size of every price.
LEMMA ToldIs ==
    ASSUME NEW msg \in Messages
    PROVE  /\ ToldBy(msg) \in Map!Tellings
           /\ DOMAIN ToldBy(msg) = {msg[i].price : i \in 1..Len(msg)}
           /\ \A p \in DOMAIN ToldBy(msg) : \E i \in 1..Len(msg) :
                 LastFor(msg, Len(msg), i) /\ msg[i].price = p
           /\ \A i \in 1..Len(msg) :
                 LastFor(msg, Len(msg), i) => ToldBy(msg)[msg[i].price] = msg[i].size
<1>. DEFINE n == Len(msg)
            P == {msg[i].price : i \in 1..n}
            told == ToldBy(msg)
            At(p) == CHOOSE i \in 1..n : LastFor(msg, n, i) /\ msg[i].price = p
<1>1. n \in Nat /\ n <= MaxItems /\ msg \in [1..n -> Items] /\ msg \in [1..n -> LevelSet]
  BY MessageIs
<1>2. told = [p \in P |-> msg[At(p)].size] /\ DOMAIN told = P
  BY DEF ToldBy
<1>. HIDE DEF n, told
<1>3. ASSUME NEW p \in P PROVE \E i \in 1..n : LastFor(msg, n, i) /\ msg[i].price = p
  <2>. DEFINE T == {i \in 1..n : msg[i].price = p}
  <2>1. T \subseteq Nat /\ T # {} /\ \A i \in T : i <= n
    BY <1>1
  <2>2. PICK i \in T : \A j \in T : j <= i
    <3>. HIDE DEF T
    <3>. QED BY <1>1, <2>1, LargestOf
  <2>3. i \in 1..n /\ msg[i].price = p
    OBVIOUS
  <2>4. \A j \in 1..n : j > i => msg[j].price # p
    <3>1. \A j \in 1..n : j > i => j \notin T
      <4>1. \A j \in 1..n : j > i => ~(j <= i)
        BY <2>3, <1>1
      <4>. HIDE DEF T
      <4>. QED BY <2>2, <4>1
    <3>. QED BY <3>1
  <2>. QED BY <2>3, <2>4 DEF LastFor
<1>4. ASSUME NEW i \in 1..n, LastFor(msg, n, i) PROVE told[msg[i].price] = msg[i].size
  <2>. DEFINE p == msg[i].price
              j == At(p)
  <2>1. p \in P
    OBVIOUS
  <2>2. j \in 1..n /\ LastFor(msg, n, j) /\ msg[j].price = p
    <3>1. \E k \in 1..n : LastFor(msg, n, k) /\ msg[k].price = p
      BY <1>4
    <3>. HIDE DEF p
    <3>. QED BY <3>1
  <2>. HIDE DEF j
  <2>3. ~(i < j) /\ ~(j < i)
    BY <1>4, <2>2 DEF LastFor
  <2>4. i = j
    BY <1>1, <2>2, <2>3
  <2>5. told[p] = msg[j].size
    BY <1>2, <2>1 DEF j
  <2>. QED BY <2>4, <2>5
<1>5. P \subseteq BookPrices /\ told \in [P -> Amounts]
  <2>1. \A i \in 1..n : msg[i].price \in BookPrices /\ msg[i].size \in Amounts
    BY <1>1 DEF Items
  <2>2. \A p \in P : At(p) \in 1..n
    <3>. HIDE DEF P
    <3>. QED BY <1>3
  <2>3. \A p \in P : msg[At(p)].size \in Amounts
    <3>. HIDE DEF At, P
    <3>. QED BY <2>1, <2>2
  <2>4. P \subseteq BookPrices
    BY <2>1
  <2>. HIDE DEF At, P
  <2>. QED BY <1>2, <2>3, <2>4
<1>6. IsFiniteSet(P) /\ Cardinality(P) <= MaxItems
  <2>. DEFINE f == [i \in 1..n |-> msg[i].price]
  <2>1. IsFiniteSet(1..n) /\ Cardinality(1..n) = n
    <3>1. 1 \in Int /\ n \in Int
      BY <1>1
    <3>2. IsFiniteSet(1..n) /\ Cardinality(1..n) = IF 1 > n THEN 0 ELSE n - 1 + 1
      BY <3>1, FS_Interval
    <3>. QED BY <1>1, <3>2
  <2>2. f \in Surjection(1..n, P)
    <3>1. f \in [1..n -> P]
      OBVIOUS
    <3>2. \A p \in P : \E i \in 1..n : f[i] = p
      OBVIOUS
    <3>. HIDE DEF f, P
    <3>. QED BY <3>1, <3>2 DEF Surjection
  <2>3. IsFiniteSet(P) /\ Cardinality(P) <= Cardinality(1..n)
    <3>. HIDE DEF f, P
    <3>. QED BY <2>1, <2>2, FS_Surjection
  <2>4. Cardinality(P) \in Nat /\ MaxItems \in Nat
    <3>. HIDE DEF P
    <3>. QED BY <2>3, FS_CardinalityType, SideAssumption
  <2>. HIDE DEF P
  <2>. QED BY <1>1, <2>1, <2>3, <2>4
<1>7. told \in Map!Tellings
  <2>. HIDE DEF P
  <2>. QED BY <1>5, <1>6, SameCount DEF Map!Tellings
<1>. HIDE DEF P, At
<1>. QED BY <1>2, <1>3, <1>4, <1>7 DEF P, n, told

\* A message written to the levels is what it tells written to the map.
LEMMA WrittenIs ==
    ASSUME NEW set, set \subseteq LevelSet, \A l \in set : l.size > 0,
           NEW msg \in Messages, NEW new, new = AfterFirst(set, msg, Len(msg)),
           NEW m, Shows(m, set), NEW w, Shows(w, new)
    PROVE  w = Map!Written(m, ToldBy(msg))
<1>. DEFINE n == Len(msg)
            told == ToldBy(msg)
            NewSize(p) == Map!SizeIn(m, told, p)
<1>1. n \in Nat /\ msg \in [1..n -> LevelSet]
  BY MessageIs
<1>2. /\ DOMAIN told = {msg[i].price : i \in 1..n}
      /\ \A p \in DOMAIN told : \E i \in 1..n : LastFor(msg, n, i) /\ msg[i].price = p
      /\ \A i \in 1..n : LastFor(msg, n, i) => told[msg[i].price] = msg[i].size
  BY ToldIs
<1>3. DOMAIN m = {l.price : l \in set} /\ \A l \in set : m[l.price] = l.size
  BY DEF Shows
<1>4. DOMAIN w = {l.price : l \in new} /\ (\A l \in new : w[l.price] = l.size) /\ w = [p \in DOMAIN w |-> w[p]]
  BY DEF Shows
<1>5. /\ new = {x \in set : \A i \in 1..n : x.price # msg[i].price}
               \cup {x \in LevelSet : x.size > 0 /\ \E i \in 1..n : LastFor(msg, n, i) /\ x = msg[i]}
      /\ new \subseteq LevelSet /\ \A l \in new : l.size > 0
  BY DEF AfterFirst
<1>. HIDE DEF n, told
<1>6. \A p : NewSize(p) = IF p \in DOMAIN told THEN told[p] ELSE IF p \in DOMAIN m THEN m[p] ELSE 0
  BY DEF Map!SizeIn
<1>. HIDE DEF NewSize
<1>7. ASSUME NEW l \in new
      PROVE  l.price \in DOMAIN m \cup DOMAIN told /\ NewSize(l.price) = l.size /\ l.size > 0
  <2>1. CASE l \in set /\ \A i \in 1..n : l.price # msg[i].price
    BY <1>2, <1>3, <1>5, <1>6, <2>1
  <2>2. CASE l.size > 0 /\ \E i \in 1..n : LastFor(msg, n, i) /\ l = msg[i]
    BY <1>2, <1>6, <2>2
  <2>. QED BY <1>5, <2>1, <2>2
<1>8. ASSUME NEW p \in DOMAIN m \cup DOMAIN told, NewSize(p) > 0
      PROVE  \E l \in new : l.price = p
  <2>1. CASE p \in DOMAIN told
    <3>1. PICK i \in 1..n : LastFor(msg, n, i) /\ msg[i].price = p
      BY <1>2, <2>1
    <3>2. msg[i] \in LevelSet /\ msg[i].size > 0
      BY <1>1, <1>2, <1>6, <1>8, <2>1, <3>1
    <3>. QED BY <1>5, <3>1, <3>2
  <2>2. CASE p \notin DOMAIN told
    <3>1. PICK l \in set : l.price = p
      BY <1>3, <2>2
    <3>2. \A i \in 1..n : l.price # msg[i].price
      BY <1>2, <2>2, <3>1
    <3>. QED BY <1>5, <3>1, <3>2
  <2>. QED BY <2>1, <2>2
<1>9. DOMAIN w = {p \in DOMAIN m \cup DOMAIN told : NewSize(p) > 0}
  BY <1>4, <1>7, <1>8
<1>10. \A p \in DOMAIN w : w[p] = NewSize(p)
  BY <1>4, <1>7
<1>11. w = [p \in {x \in DOMAIN m \cup DOMAIN told : NewSize(x) > 0} |-> NewSize(p)]
  BY <1>4, <1>9, <1>10
<1>. QED BY <1>11 DEF Map!Written, NewSize, told

-----------------------------------------------------------------------------

\* A sum over cells is one over the subsets of their places.
LEMMA SumCellsIs ==
    ASSUME NEW lo \in Int, NEW hi \in Int, NEW w \in [lo..hi -> Nat],
           \A i \in lo..hi : cells[i].size = w[i]
    PROVE  \E g : SubsetSums(g, lo..hi, w) /\ SumCells(lo, hi) = g[lo..hi]
<1>. DEFINE S == lo..hi
            R(g) == g = [s \in SUBSET S |->
                           IF s = {} THEN 0
                           ELSE LET x == CHOOSE x \in s : TRUE IN cells[x].size + g[s \ {x}]]
            the == CHOOSE g : R(g)
<1>1. IsFiniteSet(S)
  BY FS_Interval
<1>2. SumCells(lo, hi) = the[S]
  BY DEF SumCells, MapThenSumSet, MapThenFoldSet
<1>3. \A i \in S : cells[i].size = w[i]
  OBVIOUS
<1>4. w \in [S -> Nat]
  OBVIOUS
<1>. HIDE DEF S
<1>5. ASSUME NEW g PROVE R(g) <=> g = SumsOver(S, w, g)
  <2>1. \A s \in SUBSET S : s # {} => cells[AnyOf(s)].size = w[AnyOf(s)]
    BY <1>3 DEF AnyOf
  <2>2. [s \in SUBSET S |-> IF s = {} THEN 0 ELSE cells[AnyOf(s)].size + g[s \ {AnyOf(s)}]]
        = SumsOver(S, w, g)
    BY <2>1 DEF SumsOver
  <2>. QED BY <2>2 DEF AnyOf
<1>6. \E g : SubsetSums(g, S, w)
  BY <1>1, <1>4, SumsExist
<1>7. \E g : R(g)
  <2>. HIDE DEF R
  <2>. QED BY <1>5, <1>6 DEF SubsetSums
<1>8. R(the)
  <2>. HIDE DEF R
  <2>. QED BY <1>7
<1>. HIDE DEF R, the
<1>9. SubsetSums(the, S, w)
  BY <1>1, <1>4, <1>5, <1>8 DEF SubsetSums
<1>. QED BY <1>2, <1>9 DEF S

\* A map gives the places of S these weights.
Weighs(m, S, w) == IsFiniteSet(S) /\ w \in [S -> Nat] /\ \A p \in S : m[p] = w[p]

\* A sum of the map is one over subsets.
LEMMA SumOverIs ==
    ASSUME NEW m, NEW S, NEW w, Weighs(m, S, w)
    PROVE  \E g : SubsetSums(g, S, w) /\ Map!SumOver(m, S) = g[S]
<1>1. IsFiniteSet(S) /\ w \in [S -> Nat] /\ \A p \in S : m[p] = w[p]
  BY DEF Weighs
<1>. DEFINE R(g) == g = [s \in SUBSET S |->
                           IF s = {} THEN 0
                           ELSE LET x == CHOOSE x \in s : TRUE IN m[x] + g[s \ {x}]]
            the == CHOOSE g : R(g)
<1>2. Map!SumOver(m, S) = the[S]
  BY DEF Map!SumOver, Map!MapThenSumSet, Map!MapThenFoldSet
<1>5. ASSUME NEW g PROVE R(g) <=> g = SumsOver(S, w, g)
  <2>1. \A s \in SUBSET S : s # {} => m[AnyOf(s)] = w[AnyOf(s)]
    BY <1>1 DEF AnyOf
  <2>2. [s \in SUBSET S |-> IF s = {} THEN 0 ELSE m[AnyOf(s)] + g[s \ {AnyOf(s)}]]
        = SumsOver(S, w, g)
    BY <2>1 DEF SumsOver
  <2>. QED BY <2>2 DEF AnyOf
<1>6. \E g : SubsetSums(g, S, w)
  BY <1>1, SumsExist
<1>7. \E g : R(g)
  <2>. HIDE DEF R
  <2>. QED BY <1>5, <1>6 DEF SubsetSums
<1>8. R(the)
  <2>. HIDE DEF R
  <2>. QED BY <1>7
<1>. HIDE DEF R, the
<1>9. SubsetSums(the, S, w)
  BY <1>1, <1>5, <1>8 DEF SubsetSums
<1>. QED BY <1>2, <1>9

\* The map of the arrays has the sizes of the cells.
LEMMA MapHolds ==
    ASSUME Sorted(cells, count)
    PROVE  \A i \in 0..(count - 1) : MapOf(cells, count)[cells[i].price] = cells[i].size
<1>1. Fits(MapOf(cells, count), cells, count)
  BY MapIs
<1>. QED BY <1>1 DEF Fits

\* The prices S of a run of cells.
RunOfCells(m, lo, hi, S) ==
    /\ Sorted(cells, count) /\ m = MapOf(cells, count)
    /\ lo \in Int /\ hi \in Int /\ lo..hi \subseteq 0..(count - 1)
    /\ S = {cells[i].price : i \in lo..hi}

\* A run of cells sums to what the map holds of their prices.
LEMMA SameSum ==
    ASSUME NEW m, NEW lo, NEW hi, NEW S, RunOfCells(m, lo, hi, S)
    PROVE  SumCells(lo, hi) = Map!SumOver(m, S)
<1>. USE DEF RunOfCells
<1>. DEFINE T == lo..hi
            w == [i \in T |-> cells[i].size]
            v == [p \in S |-> m[p]]
            b == [i \in T |-> cells[i].price]
<1>1. \A i \in 0..(count - 1) : /\ cells[i].price \in Nat /\ cells[i].size \in Nat
                                /\ m[cells[i].price] = cells[i].size
  <2>1. \A i \in 0..(count - 1) : cells[i].price \in Nat /\ cells[i].size \in Nat
    BY CellIs DEF Sorted
  <2>2. \A i \in 0..(count - 1) : m[cells[i].price] = cells[i].size
    BY MapHolds
  <2>. QED BY <2>1, <2>2
<1>2. \A i, j \in 0..(count - 1) : cells[i].price = cells[j].price => i = j
  <2>1. count \in Nat /\ \A i, j \in 0..(count - 1) : i < j => cells[i].price < cells[j].price
    BY DEF Sorted, InCells
  <2>. QED BY <1>1, <2>1
<1>3. w \in [T -> Nat] /\ \A i \in T : cells[i].size = w[i]
  BY <1>1
<1>4. b \in [T -> S] /\ (\A i, j \in T : b[i] = b[j] => i = j) /\ \A p \in S : \E i \in T : p = b[i]
  BY <1>2
<1>5. v \in [S -> Nat] /\ (\A p \in S : m[p] = v[p]) /\ \A i \in T : w[i] = v[b[i]]
  BY <1>1
<1>6. IsFiniteSet(T)
  BY FS_Interval
<1>7. PICK g : SubsetSums(g, T, w) /\ SumCells(lo, hi) = g[T]
  <2>. HIDE DEF w
  <2>. QED BY <1>3, SumCellsIs
<1>. HIDE DEF T, w, v, b
<1>8. IsFiniteSet(S)
  <2>1. b \in Surjection(T, S)
    BY <1>4 DEF Surjection
  <2>. QED BY <1>6, <2>1, FS_Surjection
<1>9. PICK h : SubsetSums(h, S, v) /\ Map!SumOver(m, S) = h[S]
  <2>1. Weighs(m, S, v)
    BY <1>5, <1>8 DEF Weighs
  <2>. QED BY <2>1, SumOverIs
<1>10. g[T] = h[S]
  <2>1. OneToOne(b, T, w, S, v)
    BY <1>4, <1>5 DEF OneToOne
  <2>. QED BY <1>7, <1>9, <2>1, SumsCorrespond
<1>. QED BY <1>7, <1>9, <1>10

\* There are as many prices as cells, from the first on.
LEMMA PricesBelow ==
    ASSUME NEW c, NEW n, Sorted(c, n), NEW j \in 0..n
    PROVE  Cardinality({c[i].price : i \in 0..(j - 1)}) = j
<1>. DEFINE S == 0..(j - 1)
            T == {c[i].price : i \in S}
            b == [i \in S |-> c[i].price]
<1>1. n \in Nat /\ j \in Nat /\ \A i \in S : i \in 0..(n - 1)
  BY DEF Sorted, InCells
<1>2. \A i, k \in S : c[i].price = c[k].price => i = k
  <2>1. \A i \in 0..(n - 1) : c[i].price \in Nat
    BY CellIs DEF Sorted
  <2>2. \A i, k \in 0..(n - 1) : i < k => c[i].price < c[k].price
    BY DEF Sorted
  <2>. QED BY <1>1, <2>1, <2>2
<1>3. IsFiniteSet(S) /\ Cardinality(S) = j
  <2>1. 0 \in Int /\ j - 1 \in Int
    BY <1>1
  <2>2. IsFiniteSet(S) /\ Cardinality(S) = IF 0 > j - 1 THEN 0 ELSE j - 1 - 0 + 1
    BY <2>1, FS_Interval
  <2>. HIDE DEF S
  <2>. QED BY <1>1, <2>2
<1>4. b \in [S -> T] /\ (\A i, k \in S : b[i] = b[k] => i = k) /\ \A p \in T : \E i \in S : b[i] = p
  BY <1>2
<1>. HIDE DEF S, T, b
<1>5. b \in Surjection(S, T) /\ b \in Injection(S, T)
  BY <1>4 DEF Surjection, Injection, IsInjective
<1>6. Cardinality(T) = Cardinality(S)
  BY <1>3, <1>5, FS_Surjection
<1>. QED BY <1>3, <1>6 DEF S, T

\* What may be asked.
LEMMA QueryIs ==
    \A query \in Map!Queries : query.at \in Int /\ query.q \in {"from", "to", "size", "rank"}
<1>1. \A b \in Bounds : b \in Int
  BY SideAssumption
<1>2. \A query \in [q : {"from", "to", "size"}, at : Bounds] :
         query.at \in Int /\ query.q \in {"from", "to", "size"}
  <2>. TAKE query \in [q : {"from", "to", "size"}, at : Bounds]
  <2>1. query.at \in Bounds
    OBVIOUS
  <2>2. query.q \in {"from", "to", "size"}
    OBVIOUS
  <2>3. query.at \in Int
    BY <1>1, <2>1
  <2>. QED BY <2>2, <2>3
<1>3. \A query \in [q : {"rank"}, at : -2..1] : query.at \in Int /\ query.q = "rank"
  OBVIOUS
<1>. QED BY <1>2, <1>3 DEF Map!Queries

\* What is read of the arrays is what the map holds.
LEMMA ReturnedIs ==
    ASSUME Sorted(cells, count), NEW m, m = MapOf(cells, count), NEW query \in Map!Queries
    PROVE  Returned(query) = Map!Reply(m, query)
<1>1. /\ count \in Nat /\ \A i \in 0..(count - 1) : cells[i].price \in Nat
      /\ \A i, j \in 0..(count - 1) : i < j => cells[i].price < cells[j].price
  BY CellIs DEF Sorted, InCells
<1>2. /\ DOMAIN m = {cells[i].price : i \in 0..(count - 1)}
      /\ \A i \in 0..(count - 1) : m[cells[i].price] = cells[i].size
  <2>1. Fits(m, cells, count)
    BY MapIs
  <2>. QED BY <2>1 DEF Fits
<1>3. query.at \in Int /\ query.q \in {"from", "to", "size", "rank"}
  BY QueryIs
<1>. DEFINE left == BisectLeft(cells, count, query.at)
            right == BisectRight(cells, count, query.at)
<1>4. left \in 0..count /\ \A j \in 0..(count - 1) : cells[j].price < query.at <=> j < left
  BY <1>3, BisectIs DEF FirstFrom
<1>5. right \in 0..count /\ \A j \in 0..(count - 1) : cells[j].price <= query.at <=> j < right
  <2>1. right \in 0..count /\ \A j \in 0..(count - 1) : cells[j].price < query.at + 1 <=> j < right
    BY <1>3, BisectIs DEF FirstFrom
  <2>. HIDE DEF right
  <2>. QED BY <1>1, <1>3, <2>1
<1>. HIDE DEF left, right
<1>6. CASE query.q = "from"
  <2>. DEFINE S == {p \in DOMAIN m : p >= query.at}
  <2>1. S = {cells[i].price : i \in left..(count - 1)}
    <3>1. \A i \in 0..(count - 1) : cells[i].price >= query.at <=> i \in left..(count - 1)
      BY <1>1, <1>3, <1>4
    <3>2. \A i \in left..(count - 1) : i \in 0..(count - 1)
      BY <1>1, <1>4
    <3>3. ASSUME NEW p \in S PROVE p \in {cells[i].price : i \in left..(count - 1)}
      <4>1. PICK i \in 0..(count - 1) : p = cells[i].price
        BY <1>2, <3>3
      <4>. QED BY <3>1, <3>3, <4>1
    <3>4. ASSUME NEW i \in left..(count - 1) PROVE cells[i].price \in S
      BY <1>2, <3>1, <3>2, <3>4
    <3>. QED BY <3>3, <3>4
  <2>2. left \in Int /\ count - 1 \in Int /\ left..(count - 1) \subseteq 0..(count - 1)
    BY <1>1, <1>4
  <2>. HIDE DEF S
  <2>3. SumCells(left, count - 1) = Map!SumOver(m, S)
    <3>1. RunOfCells(m, left, count - 1, S)
      BY <2>1, <2>2 DEF RunOfCells
    <3>. QED BY <3>1, SameSum
  <2>. QED BY <1>6, <2>3 DEF Returned, Map!Reply, left, S
<1>7. CASE query.q = "to"
  <2>. DEFINE S == {p \in DOMAIN m : p <= query.at}
  <2>1. S = {cells[i].price : i \in 0..(right - 1)}
    <3>1. \A i \in 0..(count - 1) : cells[i].price <= query.at <=> i \in 0..(right - 1)
      BY <1>1, <1>5
    <3>2. \A i \in 0..(right - 1) : i \in 0..(count - 1)
      BY <1>1, <1>5
    <3>3. ASSUME NEW p \in S PROVE p \in {cells[i].price : i \in 0..(right - 1)}
      <4>1. PICK i \in 0..(count - 1) : p = cells[i].price
        BY <1>2, <3>3
      <4>. QED BY <3>1, <3>3, <4>1
    <3>4. ASSUME NEW i \in 0..(right - 1) PROVE cells[i].price \in S
      BY <1>2, <3>1, <3>2, <3>4
    <3>. QED BY <3>3, <3>4
  <2>2. 0 \in Int /\ right - 1 \in Int /\ 0..(right - 1) \subseteq 0..(count - 1)
    BY <1>1, <1>5
  <2>. HIDE DEF S
  <2>3. SumCells(0, right - 1) = Map!SumOver(m, S)
    <3>1. RunOfCells(m, 0, right - 1, S)
      BY <2>1, <2>2 DEF RunOfCells
    <3>. QED BY <3>1, SameSum
  <2>. QED BY <1>7, <2>3 DEF Returned, Map!Reply, right, S
<1>8. CASE query.q = "size"
  <2>1. CASE Found(cells, count, left, query.at)
    <3>1. left \in 0..(count - 1) /\ cells[left].price = query.at
      BY <1>1, <1>4, <2>1 DEF Found
    <3>2. query.at \in DOMAIN m /\ m[query.at] = cells[left].size
      BY <1>2, <3>1
    <3>. QED BY <1>8, <2>1, <3>2 DEF Returned, Map!Reply, left
  <2>2. CASE ~Found(cells, count, left, query.at)
    <3>1. ASSUME NEW i \in 0..(count - 1), cells[i].price = query.at PROVE FALSE
      <4>1. ~(i < left)
        BY <1>1, <1>4, <3>1
      <4>2. left < count /\ left \in 0..(count - 1) /\ (left = i \/ left < i)
        BY <1>1, <1>4, <4>1
      <4>3. cells[left].price # query.at /\ ~(cells[left].price < query.at)
        BY <1>4, <2>2, <4>2 DEF Found
      <4>. QED BY <1>1, <3>1, <4>2, <4>3
    <3>2. query.at \notin DOMAIN m
      BY <1>2, <3>1
    <3>. QED BY <1>8, <2>2, <3>2 DEF Returned, Map!Reply, left
  <2>. QED BY <2>1, <2>2
<1>9. CASE query.q = "rank"
  <2>. DEFINE i == IF query.at >= 0 THEN query.at ELSE count + query.at
              rank == IF query.at < 0 THEN count + query.at ELSE query.at
              S == {x \in DOMAIN m : Map!RankOf(m, x) = rank}
  <2>1. i = rank /\ rank \in Int
    BY <1>1, <1>3
  <2>2. Map!Cardinality(DOMAIN m) = count
    <3>1. count \in 0..count
      BY <1>1
    <3>. QED BY <1>2, <3>1, PricesBelow, SameCount
  <2>3. ASSUME NEW j \in 0..(count - 1) PROVE Map!RankOf(m, cells[j].price) = j
    <3>1. \A k \in 0..(count - 1) : cells[k].price < cells[j].price <=> k \in 0..(j - 1)
      BY <1>1
    <3>2. \A k \in 0..(j - 1) : k \in 0..(count - 1)
      BY <1>1
    <3>3. {x \in DOMAIN m : x < cells[j].price} = {cells[k].price : k \in 0..(j - 1)}
      BY <1>2, <3>1, <3>2
    <3>4. j \in 0..count
      BY <1>1
    <3>. QED BY <3>3, <3>4, PricesBelow, SameCount DEF Map!RankOf
  <2>. HIDE DEF i, rank
  <2>4. Map!Reply(m, query) = {<<p, m[p]>> : p \in S}
    BY <1>9, <2>2 DEF Map!Reply, rank
  <2>5. Returned(query) = IF i < 0 \/ i >= count THEN {} ELSE {<<cells[i].price, cells[i].size>>}
    BY <1>9 DEF Returned, i
  <2>6. CASE rank < 0 \/ rank >= count
    <3>1. \A j \in 0..(count - 1) : j # rank
      BY <1>1, <2>1, <2>6
    <3>2. S = {}
      BY <1>2, <2>3, <3>1
    <3>. QED BY <2>1, <2>4, <2>5, <2>6, <3>2
  <2>7. CASE ~(rank < 0 \/ rank >= count)
    <3>1. rank \in 0..(count - 1)
      BY <1>1, <2>1, <2>7
    <3>2. S = {cells[rank].price} /\ m[cells[rank].price] = cells[rank].size
      BY <1>2, <2>3, <3>1
    <3>. QED BY <2>1, <2>4, <2>5, <2>7, <3>2
  <2>. QED BY <2>6, <2>7
<1>. QED BY <1>3, <1>6, <1>7, <1>8, <1>9

-----------------------------------------------------------------------------

\* Empty arrays are in order, and stand for the empty map.
LEMMA SideStarts == SideInit => Sorted(cells, count) /\ Map!Init
<1>. SUFFICES ASSUME SideInit PROVE Sorted(cells, count) /\ Map!Init
  OBVIOUS
<1>1. InitialCapacity \in Nat \ {0} /\ 0..(0 - 1) = {}
  BY SideAssumption
<1>2. /\ cells \in [0..(InitialCapacity - 1) -> LevelSet] /\ count = 0 /\ answer = Map!Unasked
  BY DEF SideInit, NoLevel, Level, LevelSet
<1>3. Capacity(cells) = InitialCapacity
  BY <1>1, <1>2, CapacityIs
<1>4. Sorted(cells, count)
  BY <1>1, <1>2, <1>3 DEF Sorted, InCells, LevelSet
<1>5. MapOf(cells, count) = [p \in {} |-> 0]
  BY <1>1, <1>2 DEF MapOf
<1>. QED BY <1>2, <1>4, <1>5 DEF Map!Init, MapOf

\* A write of the arrays is a write of the map.
LEMMA WriteIs ==
    ASSUME Sorted(cells, count), NEW msg \in Messages,
           NEW set, NEW old, NEW m, m = MapOf(cells, count),
           \/ set = Levels(cells, count) /\ old = m
           \/ set = {} /\ old = [p \in {} |-> 0],
           Sorted(cells', count'), Levels(cells', count') = AfterFirst(set, msg, Len(msg))
    PROVE  MapOf(cells', count') = Map!Written(old, ToldBy(msg)) /\ ToldBy(msg) \in Map!Tellings
<1>1. set \subseteq LevelSet /\ \A l \in set : l.size > 0
  BY LevelsAre
<1>2. Shows(old, set)
  <2>1. CASE set = Levels(cells, count) /\ old = m
    BY <2>1, MapIs DEF Fits
  <2>2. CASE set = {} /\ old = [p \in {} |-> 0]
    BY <2>2 DEF Shows
  <2>. QED BY <2>1, <2>2
<1>. DEFINE w == MapOf(cells', count')
            new == Levels(cells', count')
<1>3. Shows(w, new)
  BY MapIs DEF Fits
<1>. HIDE DEF w, new
<1>4. new = AfterFirst(set, msg, Len(msg))
  BY DEF new
<1>5. w = Map!Written(old, ToldBy(msg))
  BY <1>1, <1>2, <1>3, <1>4, WrittenIs
<1>. QED BY <1>5, ToldIs DEF w

\* A step keeps the order of the arrays, and is a step of the map.
LEMMA SideSteps ==
    ASSUME Sorted(cells, count), [SideNext]_sideVars
    PROVE  Sorted(cells, count)' /\ [Map!Next]_(Map!vars)
<1>. DEFINE m == MapOf(cells, count)
<1>1. ASSUME NEW msg \in Messages, Delta(msg) PROVE Sorted(cells, count)' /\ Map!Next
  <2>1. /\ Sorted(cells', count') /\ answer' = Map!Asked
        /\ Levels(cells', count') = AfterFirst(Levels(cells, count), msg, Len(msg))
    BY <1>1, DeltaIs
  <2>2. MapOf(cells', count') = Map!Written(m, ToldBy(msg)) /\ ToldBy(msg) \in Map!Tellings
    BY <2>1, WriteIs
  <2>3. Map!Write
    BY <2>1, <2>2 DEF Map!Write, MapOf
  <2>. QED BY <2>1, <2>3 DEF Map!Next
<1>2. ASSUME NEW msg \in Messages, OncePerPrice(msg), LoadSnapshot(msg)
      PROVE  Sorted(cells, count)' /\ Map!Next
  <2>1. /\ Sorted(cells', count') /\ answer' = Map!Asked
        /\ Levels(cells', count') = AfterFirst({}, msg, Len(msg))
    BY <1>2, LoadSnapshotIs
  <2>. DEFINE old == [p \in {} |-> 0]
  <2>2. MapOf(cells', count') = Map!Written(old, ToldBy(msg)) /\ ToldBy(msg) \in Map!Tellings
    BY <2>1, WriteIs
  <2>3. Map!Write
    BY <2>1, <2>2 DEF Map!Write, MapOf
  <2>. QED BY <2>1, <2>3 DEF Map!Next
<1>3. ASSUME NEW query \in Map!Queries, AskSide(query) PROVE Sorted(cells, count)' /\ Map!Next
  <2>1. Returned(query) = Map!Reply(m, query)
    BY ReturnedIs
  <2>2. /\ answer'.q = query /\ answer' = [q |-> query, r |-> Map!Reply(m, query)]
        /\ cells' = cells /\ count' = count
    BY <1>3, <2>1 DEF AskSide
  <2>3. Map!Read
    BY <2>2 DEF Map!Read, MapOf
  <2>. QED BY <2>2, <2>3 DEF Map!Next
<1>4. CASE UNCHANGED sideVars
  BY <1>4 DEF sideVars, Map!vars
<1>. QED BY <1>1, <1>2, <1>3, <1>4 DEF SideNext

\* The sorted arrays of a side are a map from price to size: what is read of them after
\* any run of deltas, snapshots and growth is what the map that was told the same holds.
THEOREM ArraysAreMap == SideSpec => SideIsMap
<1>1. SideInit => Sorted(cells, count) /\ Map!Init
  BY SideStarts
<1>2. Sorted(cells, count) /\ [SideNext]_sideVars => Sorted(cells, count)' /\ [Map!Next]_(Map!vars)
  BY SideSteps
<1>. QED BY <1>1, <1>2, PTL DEF SideSpec, SideIsMap, Map!Spec

-----------------------------------------------------------------------------
(* What was recorded stays recorded. *)

\* The trade log of a session is whole: through the worker's snapshots, the buffer it
\* takes and puts back when an append fails, and the last flush on the way out, every
\* fill is in the file, with the worker or in the buffer, once.
THEOREM TradeLogIsWhole == DrySpec => []RowsHeld
<1>. QED BY RowsStart, RowsKeep, RowsAreHeld, PTL DEF DrySpec

\* A research row is in its day's file, raw or compressed, once, until the file is
\* deleted for its age or the size, unless its compression was cut short; today's file
\* is never touched, for any retention and any order of appends, clean-ups and days.
THEOREM ResearchRowsStay == ResearchSpec => []RowsKept
<1>. QED BY ResearchStarts, ResearchKeeps, RowsAreKept, PTL DEF ResearchSpec

\* A step of the parts is a step of the dry run, or leaves it as it is, and so for the
\* research files.
LEMMA PartsStep ==
    [QuotePartsNext]_quoteVars => [DryNext]_dryVars /\ [ResearchNext]_researchVars
<1>. SUFFICES ASSUME [QuotePartsNext]_quoteVars
              PROVE  [DryNext]_dryVars /\ [ResearchNext]_researchVars
  OBVIOUS
<1>1. CASE QuotePartsNext
  BY <1>1 DEF QuotePartsNext, simVars
<1>2. CASE UNCHANGED quoteVars
  BY <1>2 DEF quoteVars, simVars
<1>. QED BY <1>1, <1>2

\* Both together, as the run of the parts checks it.
THEOREM NoRowIsLost == QuotePartsSpec => []RowsSurvive
<1>1. QuotePartsInit => DryInit /\ ResearchInit
  BY DEF QuotePartsInit
<1>2. QuotePartsSpec => DrySpec /\ ResearchSpec
  BY <1>1, PartsStep, PTL DEF QuotePartsSpec, DrySpec, ResearchSpec
<1>3. RowsHeld /\ RowsKept => RowsSurvive
  BY DEF RowsSurvive
<1>. QED BY <1>2, <1>3, TradeLogIsWhole, ResearchRowsStay, PTL

\* A step of the parts is a step of each of those that estimate, or leaves it as it is.
LEMMA EstimatesStep ==
    [QuotePartsNext]_quoteVars =>
        [VolNext]_volVars /\ [FlowNext]_flowVars /\ [MetricsNext]_metricsVars
<1>. SUFFICES ASSUME [QuotePartsNext]_quoteVars
              PROVE  [VolNext]_volVars /\ [FlowNext]_flowVars /\ [MetricsNext]_metricsVars
  OBVIOUS
<1>1. CASE QuotePartsNext
  BY <1>1 DEF QuotePartsNext, estimateVars
<1>2. CASE UNCHANGED quoteVars
  BY <1>2 DEF quoteVars, estimateVars
<1>. QED BY <1>1, <1>2

\* What the quotes are computed from is what was observed, as the run of the parts checks
\* it: the windows, the trades and the markouts, for every value of the constants.
THEOREM EstimatesAreRight == QuotePartsSpec => []EstimatesHold
<1>1. QuotePartsInit => VolInit /\ FlowInit /\ MetricsInit
  BY DEF QuotePartsInit
<1>2. QuotePartsSpec => VolSpec /\ FlowSpec /\ MetricsSpec
  BY <1>1, EstimatesStep, PTL DEF QuotePartsSpec, VolSpec, FlowSpec, MetricsSpec
<1>3. MomentsAgree /\ SpreadKeepsFloor /\ QuotesRestOnTrades /\ MarkedOnce => EstimatesHold
  BY DEF EstimatesHold
<1>. QED BY <1>2, <1>3, WindowsAreMeasured, FlowTradesCountOnce, FillsAreMarkedOnce, PTL
=============================================================================
