---------------------------- MODULE ExposureCap ----------------------------
(***************************************************************************)
(* How much a side may buy if everything that rests is filled: the cap     *)
(* that collect_order_operations applies to every quote that adds to the   *)
(* inventory, by the slots and the position the program knows, and the     *)
(* poller that cancels the surplus it finds on the exchange.               *)
(*                                                                         *)
(* One side (buys, of a position that is not short: these are the orders   *)
(* the cap counts), sizes in units, prices left out: the smaller a level's *)
(* number, the nearer the middle.  Sales, which only lower what counts,    *)
(* are left out; the lock, the gate, lost answers and the identity of      *)
(* orders are in OrderLifecycle.                                           *)
(***************************************************************************)
EXTENDS Integers

CONSTANTS
    CapTop,         \* levels are 0..CapTop
    MaxOrder,       \* bound: base amount
    Cap,            \* precomputed_max_pos_usd * RISK_ORDER_EXPOSURE_BUFFER
    MaxPosition     \* bound: position

ASSUME CapAssumption ==
    {CapTop, MaxOrder, Cap, MaxPosition} \subseteq Nat

VARIABLES
    owned,      \* position, on the exchange
    inventory,  \* state.account.position_size
    open,       \* what rests on the exchange, by level
    tracked,    \* bid_sizes of tracked orders once the event queue is drained, as
                \* it is wherever they are read; 0: none
    box,        \* _latest_ops
    out,        \* the batch of the sender, and where it is
    surplus,    \* levels the poller is about to cancel, and whether what it saw
                \* still holds (history)
    boxBlind,   \* history: what was in the mailbox was decided on a wrong view
    blind       \* history: such a batch was executed since the last good poll

capVars == <<owned, inventory, open, tracked, box, out, surplus, boxBlind, blind>>

CapLevels == 0..CapTop
Empty == [l \in CapLevels |-> 0]
Idle == [at |-> "idle", ops |-> {}, blind |-> FALSE]
NoSurplus == [levels |-> {}, good |-> FALSE]

\* The sum of f over the levels up to l.
SumTo(f, l) ==
    LET sum[k \in CapLevels] == IF k = 0 THEN f[0] ELSE sum[k - 1] + f[k] IN sum[l]
Total(f) == SumTo(f, CapTop)

CapInit ==
    /\ owned = 0 /\ inventory = 0 /\ open = Empty
    /\ tracked = Empty /\ box = {} /\ out = Idle
    /\ surplus = NoSurplus /\ boxBlind = FALSE /\ blind = FALSE

-----------------------------------------------------------------------------
(* collect_order_operations. *)

\* Mutant: what this tick adds on nearer levels is not counted.
TrackedOnly(v, l, size, pending) == inventory + Total(v) - v[l] + size

\* _risk_increasing_exposure_usd: the position, what the other slots track, this
\* quote, and what this tick adds on nearer levels.
Projected(v, l, size, pending) == inventory + Total(v) - v[l] + size + pending

Capped(v, l, size, pending) == Projected(v, l, size, pending) > Cap

\* What level l wants to become, given what is pending: "none" is a quote the
\* pricing took away, "keep" one that is young, unbound or close enough.
Becomes(v, l, size, choice, pending) ==
    IF choice[l] = "none" \/ Capped(v, l, size, pending) THEN 0
    ELSE IF v[l] > 0 /\ choice[l] = "keep" THEN v[l]
    ELSE size

\* Only growth is pending: what shrinks or goes is counted until it is told.
Collected(v, size, choice) ==
    LET pending[l \in 0..(CapTop + 1)] ==
            IF l = 0 THEN 0
            ELSE LET b == Becomes(v, l - 1, size, choice, pending[l - 1])
                 IN  pending[l - 1] + (IF b > v[l - 1] THEN b - v[l - 1] ELSE 0)
        b(l) == Becomes(v, l, size, choice, pending[l])
    IN  {[act |-> IF v[l] = 0 THEN "create" ELSE IF b(l) = 0 THEN "cancel" ELSE "modify",
          level |-> l, size |-> b(l)] : l \in {k \in CapLevels : b(k) # v[k]}}

\* The view a tick decides on is what the exchange has, and nothing is under way.
TrueView == out = Idle /\ tracked = open /\ inventory = owned

\* No ops leave everything as it is.
CapTick(size, choice) ==
    LET ops == Collected(tracked, size, choice)
    IN  /\ ops # {}
        /\ box' = ops /\ boxBlind' = ~TrueView
        /\ UNCHANGED <<owned, inventory, open, tracked, out, surplus, blind>>

-----------------------------------------------------------------------------
(* _paced_send, sign_and_send_batch, the exchange. *)

StillWanted(o) == o.act = "create" => tracked[o.level] = 0

\* The sender goes on until the mailbox is empty: what was posted while a batch
\* was under way goes out at once.
Pull ==
    /\ out = Idle /\ box # {}
    /\ LET ops == {o \in box : StillWanted(o)}
       IN  out' = IF ops = {} THEN Idle
                  ELSE [at |-> "sent", ops |-> ops, blind |-> boxBlind]
    /\ box' = {} /\ boxBlind' = FALSE
    /\ UNCHANGED <<owned, inventory, open, tracked, surplus, blind>>

\* A modify or cancel of an order that is gone does nothing.
Executed(l) ==
    IF \E o \in out.ops : o.level = l
    THEN LET o == CHOOSE o \in out.ops : o.level = l
         IN  IF o.act = "create" THEN open[l] + o.size
             ELSE IF open[l] = 0 THEN 0 ELSE o.size
    ELSE open[l]

CapExecute ==
    /\ out.at = "sent"
    /\ open' = [l \in CapLevels |-> Executed(l)]
    /\ out' = [out EXCEPT !.at = "done"]
    /\ blind' = (blind \/ out.blind)
    /\ surplus' = [surplus EXCEPT !.good = FALSE]
    /\ UNCHANGED <<owned, inventory, tracked, box, boxBlind>>

\* BIND_LIVE for what was created or modified; slots of cancels wait for the feed.
CapAnswer ==
    /\ out.at = "done"
    /\ LET to == {o \in out.ops : o.act # "cancel"}
       IN  tracked' = [l \in CapLevels |->
                IF \E o \in to : o.level = l
                THEN (CHOOSE o \in to : o.level = l).size ELSE tracked[l]]
    /\ out' = Idle
    /\ UNCHANGED <<owned, inventory, open, box, surplus, boxBlind, blind>>

\* A fill that comes before a modify of its order makes the view that decided it
\* wrong after all: the new size is on top of what was filled.
Resizes(ops, l) == \E o \in ops : o.level = l /\ o.act = "modify"

Bought(l, n) ==
    /\ n <= open[l] /\ owned + n <= MaxPosition
    /\ open' = [open EXCEPT ![l] = @ - n]
    /\ owned' = owned + n
    /\ surplus' = [surplus EXCEPT !.good = @ /\ l \notin surplus.levels]
    /\ boxBlind' = (boxBlind \/ Resizes(box, l))
    /\ out' = [out EXCEPT !.blind = @ \/ Resizes(out.ops, l)]
    /\ UNCHANGED <<inventory, tracked, box, blind>>

\* account_all and account_orders, each in its own time.
PositionTold ==
    /\ inventory' = owned
    /\ UNCHANGED <<owned, open, tracked, box, out, surplus, boxBlind, blind>>

OrderTold(l) ==
    /\ tracked' = [tracked EXCEPT ![l] = open[l]]
    /\ UNCHANGED <<owned, inventory, open, box, out, surplus, boxBlind, blind>>

-----------------------------------------------------------------------------
(* The poller: _remote_risk_order_cancel_ids_over_cap. *)

\* Mutant: the surplus is taken from the orders alone.
OrdersOnly(l) == SumTo(open, l)

\* Exposure if the orders up to level l are kept.
UpTo(l) == inventory + SumTo(open, l)

\* The farthest go first, until the rest fits.
Poll ==
    /\ surplus = NoSurplus
    /\ LET far == {l \in CapLevels : open[l] > 0 /\ UpTo(l) > Cap}
       IN  /\ far # {}
           /\ surplus' = [levels |-> far, good |-> inventory = owned /\ owned <= Cap]
    /\ UNCHANGED <<owned, inventory, open, tracked, box, out, boxBlind, blind>>

PollCancels ==
    /\ surplus # NoSurplus /\ out.at # "sent"
    /\ open' = [l \in CapLevels |-> IF l \in surplus.levels THEN 0 ELSE open[l]]
    /\ blind' = (blind /\ ~surplus.good)
    /\ surplus' = NoSurplus
    /\ UNCHANGED <<owned, inventory, tracked, box, out, boxBlind>>

-----------------------------------------------------------------------------

\* The guards take the adding side away from every level or from none.
CapTicks ==
    \/ \E size \in 1..MaxOrder, choice \in [CapLevels -> {"keep", "quote"}] :
          CapTick(size, choice)
    \/ CapTick(1, [l \in CapLevels |-> "none"])
Buys == \E l \in CapLevels, n \in 1..MaxOrder : Bought(l, n)
OrdersTold == \E l \in CapLevels : OrderTold(l)

CapNext ==
    \/ CapTicks
    \/ Pull
    \/ CapExecute
    \/ CapAnswer
    \/ Buys
    \/ PositionTold
    \/ OrdersTold
    \/ Poll
    \/ PollCancels

CapSpec == CapInit /\ [][CapNext]_capVars

-----------------------------------------------------------------------------
(* Properties. *)

\* What is owned and what rests stay within the cap together, whatever is filled
\* or told in whatever order, unless a batch was executed that a tick decided
\* while its view was wrong (a batch under way, a fill or an order not told yet, a
\* fill that overtook a modify); and then until the poller, by the right position
\* and before any of it was filled, has cancelled the surplus.  Nothing the program
\* places brings a position back that is itself over the cap.
ExposureWithinCap == owned + Total(open) <= Cap \/ blind
=============================================================================
