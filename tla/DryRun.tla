------------------------------- MODULE DryRun -------------------------------
(***************************************************************************)
(* The paper-trading engine: simulated orders with the latency of their    *)
(* create, modify and cancel, fills against the live book, the wallet      *)
(* they move, and what survives a crash: the state file, written by a      *)
(* worker thread from a snapshot, and the buffered trade log.              *)
(*                                                                         *)
(* One level: a slot, and the order in it, is a side's.  The book is an    *)
(* input: it may change before every step.  The wallet holds the margin of *)
(* the position (its cost: entry price times size) instead of the entry    *)
(* price; leverage is 1.  How much fresh liquidity an order finds is open. *)
(***************************************************************************)
EXTENDS Integers, Sequences, FiniteSets

CONSTANTS
    Fee,            \* maker_fee_rate, per unit
    Capital,        \* the wallet a first run starts with
    MaxSize,        \* bound: size of an order
    MaxOrders,      \* bound: creates and modifies
    MaxFills,       \* bound: fills
    MaxDryFaults    \* bound: crashes, failed writes

ASSUME DryAssumption ==
    /\ {Fee, Capital, MaxOrders, MaxFills, MaxDryFaults} \subseteq Nat /\ MaxSize \in Nat \ {0}

VARIABLES
    live,       \* _live_orders
    slot,       \* state.orders of each side, by order
    wallet,     \* _position, margin, _realized_pnl, available_capital
    rate,       \* _maker_fee_rate
    made,       \* history: fills so far
    buffer,     \* TradeLogger._buffer: rows are the numbers of the fills
    csv,        \* trades_*.csv
    file,       \* dry_run_state.json
    jobs,       \* _write jobs handed to the executor
    mode,       \* "up", "leaving", "down"
    first,      \* history: the first fill of this session
    asked,
    dryFaults

orderVars == <<live, slot>>
walletVars == <<wallet, rate, made>>
diskVars == <<buffer, csv, file, jobs>>
dryVars == <<orderVars, walletVars, diskVars, mode, first, asked, dryFaults>>

DrySides == {"buy", "sell"}
NoSlot == [price |-> 0, size |-> 0]
NoFile == [pos |-> "none"]
Prices == {1, 2}
Tops == {[bid |-> b, ask |-> b + 1] : b \in 0..2}
DryFault == dryFaults < MaxDryFaults /\ dryFaults' = dryFaults + 1

Fresh == [pos |-> 0, margin |-> 0, realized |-> 0, cap |-> Capital]
Least(a, b) == IF a < b THEN a ELSE b
Size(n) == IF n < 0 THEN -n ELSE n

DryInit ==
    /\ live = <<>> /\ slot = [s \in DrySides |-> NoSlot]
    /\ wallet = Fresh /\ rate = Fee /\ made = 0
    /\ buffer = <<>> /\ csv = <<>> /\ file = NoFile /\ jobs = {}
    /\ mode = "up" /\ first = 1 /\ asked = 0 /\ dryFaults = 0

Crosses(top, side, price) ==
    IF side = "buy" THEN top.ask <= price ELSE top.bid >= price

-----------------------------------------------------------------------------
(* process_batch: what the loop (collect_order_operations) or the pause    *)
(* cleanup asks of a slot.                                                 *)

OrderRest == UNCHANGED <<walletVars, diskVars, mode, first, dryFaults>>
Ask == asked < MaxOrders /\ asked' = asked + 1

SlotOf(o) == [price |-> o.price, size |-> o.size]

Create(side, price, size, top) ==
    /\ mode = "up" /\ slot[side] = NoSlot
    /\ ~Crosses(top, side, price) /\ Ask
    /\ live' = [s \in DOMAIN live \cup {side} |->
            IF s # side THEN live[s]
            ELSE [side |-> side, price |-> price, size |-> size, eligible |-> FALSE,
                  arrived |-> FALSE, next |-> 0, nextSize |-> 0, cancel |-> "no"]]
    /\ slot' = [slot EXCEPT ![side] = SlotOf(live'[side])]
    /\ OrderRest

\* Mutant: the slot shows the new price while the modify is under way.
BoundAtOnce(side, price, size) ==
    slot' = [slot EXCEPT ![side] = [@ EXCEPT !.price = price, !.size = size]]

\* The old price stays live, and in the slot, until the modify lands.
BoundLater(side, price, size) == slot' = slot

Modify(side, price, size, top) ==
    /\ mode = "up" /\ slot[side] # NoSlot /\ side \in DOMAIN live
    /\ ~Crosses(top, side, price) /\ Ask
    /\ live' = [live EXCEPT ![side] =
            [@ EXCEPT !.next = price, !.nextSize = size, !.eligible = FALSE]]
    /\ BoundLater(side, price, size)
    /\ OrderRest

\* A cancel that is sent again starts its latency again.
Cancel(side) ==
    /\ mode = "up" /\ slot[side] # NoSlot
    /\ live' = [i \in DOMAIN live |->
            IF i = side THEN [live[i] EXCEPT !.cancel = "sent"] ELSE live[i]]
    /\ slot' = [slot EXCEPT ![side] = IF side \in DOMAIN live THEN @ ELSE NoSlot]
    /\ UNCHANGED asked
    /\ OrderRest

\* The simulated latency passes.
Latency(s) ==
    /\ mode = "up"
    /\ \/ ~live[s].eligible /\ live' = [live EXCEPT ![s].eligible = TRUE]
       \/ live[s].cancel = "sent" /\ live' = [live EXCEPT ![s].cancel = "due"]
    /\ UNCHANGED <<slot, asked>>
    /\ OrderRest

-----------------------------------------------------------------------------
(* _process_fill on the wallet.                                            *)

Reducing(side, pos) ==
    \/ side = "buy" /\ pos < 0
    \/ side = "sell" /\ pos > 0

\* Mutant: a fill that turns the position round takes no margin for the rest.
NoMarginForRest(side, w, size, price) ==
    IF Reducing(side, w.pos) THEN 0 ELSE size * price

\* What a fill adds to the margin: all of it, or what is left when it turns the
\* position round.
MarginTaken(side, w, size, price) ==
    IF Reducing(side, w.pos)
    THEN (size - Least(size, Size(w.pos))) * price ELSE size * price

Filled(side, w, size, price, fee) ==
    LET reduced == IF Reducing(side, w.pos) THEN Least(size, Size(w.pos)) ELSE 0
        released == IF reduced = 0 THEN 0 ELSE (w.margin * reduced) \div Size(w.pos)
        pnl == IF side = "sell" THEN reduced * price - released
               ELSE released - reduced * price
        turned == Reducing(side, w.pos) /\ size > reduced
    IN  [pos |-> IF side = "buy" THEN w.pos + size ELSE w.pos - size,
         margin |-> IF turned THEN (size - reduced) * price
                    ELSE w.margin - released + (size - reduced) * price,
         realized |-> w.realized + pnl - fee,
         cap |-> w.cap + released + pnl - fee - MarginTaken(side, w, size, price)]

-----------------------------------------------------------------------------
(* check_fills.                                                            *)

\* Pass 1: a modify whose latency is over lands, unless the book now crosses it.
Landed(o, top) ==
    IF o.next = 0 \/ ~o.eligible THEN o
    ELSE IF Crosses(top, o.side, o.next) THEN [o EXCEPT !.next = 0]
    ELSE [o EXCEPT !.price = o.next, !.size = o.nextSize, !.next = 0]

\* Pass 2, for one order that finds so much: what becomes of it.  A create under
\* way is left alone, and one that arrives in a book that crosses it is gone.
UnderWay(o) == ~o.eligible /\ o.next = 0
Refused(o, top) == ~UnderWay(o) /\ ~o.arrived /\ Crosses(top, o.side, o.price)
Takes(o, found, top) ==
    IF UnderWay(o) \/ Refused(o, top) \/ ~Crosses(top, o.side, o.price) THEN 0
    ELSE Least(o.size, found)

Gone(o, found, top) ==
    Refused(o, top) \/ o.cancel = "due" \/ o.size = Takes(o, found, top)

After(o, found, top) ==
    [o EXCEPT !.size = @ - Takes(o, found, top), !.arrived = @ \/ ~UnderWay(o)]

\* The slot is bound anew when a modify lands or is refused, and after a fill.
Rebound(i, found, top) ==
    (live[i].next # 0 /\ live[i].eligible) \/ Takes(Landed(live[i], top), found, top) > 0

\* Buys are looked at before sells.
CheckFills(found, top) ==
    /\ mode = "up" /\ DOMAIN live # {}
    /\ LET o == [s \in DOMAIN live |-> Landed(live[s], top)]
           left == {s \in DOMAIN live : ~Gone(o[s], found, top)}
           n == [s \in DrySides |->
                    IF s \in DOMAIN live THEN Takes(o[s], found, top) ELSE 0]
           rows == Cardinality({s \in DrySides : n[s] > 0})
           Fill(s, w) == IF n[s] = 0 THEN w
                         ELSE Filled(s, w, n[s], o[s].price, rate * n[s])
       IN  /\ made + rows <= MaxFills
           /\ live' = [s \in left |-> After(o[s], found, top)]
           /\ slot' = [s \in DrySides |->
                IF s \in DOMAIN live \ left THEN NoSlot
                ELSE IF s \in left /\ Rebound(s, found, top) THEN SlotOf(live'[s])
                ELSE slot[s]]
           /\ wallet' = Fill("sell", Fill("buy", wallet))
           /\ made' = made + rows
           /\ buffer' = buffer \o [k \in 1..rows |-> made + k]
    /\ UNCHANGED <<rate, csv, file, jobs, mode, first, asked, dryFaults>>

-----------------------------------------------------------------------------
(* maybe_log_summary, the worker, shutdown, crash and restart.             *)

DiskRest == UNCHANGED <<orderVars, walletVars, asked>>

\* The snapshot is taken on the event loop, the rest is the worker's.
Summary ==
    /\ mode = "up" /\ jobs = {}
    /\ jobs' = {[at |-> "write", wallet |-> wallet, rows |-> <<>>]}
    /\ UNCHANGED <<buffer, csv, file, mode, first, dryFaults>> /\ DiskRest

\* Mutant: the worker reads what it writes, a field at a time.
ReadLate(job) == [wallet EXCEPT !.cap = job.wallet.cap]

Snapshot(job) == job.wallet

Write(job) ==
    /\ job.at = "write" /\ mode # "down"
    /\ \/ file' = Snapshot(job) /\ UNCHANGED dryFaults
       \/ UNCHANGED file /\ DryFault
    /\ jobs' = {[job EXCEPT !.at = "flush"]}
    /\ UNCHANGED <<buffer, csv, mode, first>> /\ DiskRest

\* TradeLogger.flush: the buffer is taken under its lock, the file appended
\* to under another.
Grab(job) ==
    /\ job.at = "flush" /\ mode # "down"
    /\ jobs' = IF buffer = <<>> THEN {} ELSE {[job EXCEPT !.at = "append", !.rows = buffer]}
    /\ buffer' = <<>>
    /\ UNCHANGED <<csv, file, mode, first, dryFaults>> /\ DiskRest

\* Mutant: what could not be written is dropped.
Dropped(rows) == buffer

PutBack(rows) == rows \o buffer

AppendRows(job) ==
    /\ job.at = "append" /\ mode # "down"
    /\ \/ csv' = csv \o job.rows /\ UNCHANGED <<buffer, dryFaults>>
       \/ buffer' = PutBack(job.rows) /\ UNCHANGED csv /\ DryFault
    /\ jobs' = {}
    /\ UNCHANGED <<file, mode, first>> /\ DiskRest

\* main's cleanup: the state, then the log, on the event loop.
Leave ==
    /\ mode = "up"
    /\ mode' = "leaving"
    /\ file' = wallet
    /\ csv' = csv \o buffer /\ buffer' = <<>>
    /\ UNCHANGED <<jobs, first, dryFaults>> /\ DiskRest

Down ==
    /\ live' = <<>> /\ slot' = [s \in DrySides |-> NoSlot]
    /\ buffer' = <<>> /\ jobs' = {}
    /\ mode' = "down"
    /\ UNCHANGED <<walletVars, csv, file, first, asked>>

Left == mode = "leaving" /\ jobs = {} /\ Down /\ UNCHANGED dryFaults
DryCrash == mode # "down" /\ DryFault /\ Down

\* load_state, or a first run with an empty log.  load_state is not given the
\* fee rate, a new engine is.
Restart ==
    /\ mode = "down"
    /\ mode' = "up" /\ first' = made + 1
    /\ \/ file = NoFile /\ wallet' = Fresh /\ csv' = <<>> /\ rate' = Fee
       \/ file # NoFile /\ wallet' = file /\ rate' = 0 /\ UNCHANGED csv
    /\ UNCHANGED <<orderVars, made, buffer, file, jobs, asked, dryFaults>>

-----------------------------------------------------------------------------

DryNext ==
    \/ \E s \in DrySides, p \in Prices, n \in 1..MaxSize :
        \/ \E t \in Tops : Create(s, p, n, t)
        \/ \E t \in Tops : Modify(s, p, n, t)
    \/ \E s \in DrySides : Cancel(s)
    \/ \E s \in DOMAIN live : Latency(s)
    \/ \E found \in 0..MaxSize, t \in Tops : CheckFills(found, t)
    \/ Summary
    \/ \E job \in jobs : Write(job) \/ Grab(job) \/ AppendRows(job)
    \/ Leave
    \/ Left
    \/ DryCrash
    \/ Restart

DrySpec == DryInit /\ [][DryNext]_dryVars

-----------------------------------------------------------------------------
(* Properties. *)

\* What the quoting code sees of a slot is the order that can be filled, at the
\* price and size it can be filled at, and one order only: also while a modify
\* is under way or refused, after a partial fill, and when a fill and a cancel
\* come together.
SlotShowsOrder ==
    \A s \in DrySides : slot[s] = IF s \in DOMAIN live THEN SlotOf(live[s]) ELSE NoSlot

\* Capital, margin and realised PnL add up, through fills that turn the
\* position round, and so they do in the state file, whenever it was written.
Balanced(w) == w.cap + w.margin = Capital + w.realized

WalletBalances == Balanced(wallet) /\ (file = NoFile \/ Balanced(file))

\* No fill of the session is lost from the trade log, nor written twice, while
\* the program runs: it is in the buffer, with the worker, or in the file.
RowsHeld ==
    LET held == csv \o (IF jobs = {} THEN <<>> ELSE (CHOOSE j \in jobs : TRUE).rows) \o buffer
    IN  /\ \A i, j \in DOMAIN held : held[i] = held[j] => i = j
        /\ mode = "up" => (first..made) \subseteq {held[i] : i \in DOMAIN held}
=============================================================================
