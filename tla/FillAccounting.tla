--------------------------- MODULE FillAccounting ---------------------------
(***************************************************************************)
(* Live fills: what account_all tells of positions and trades, the batch   *)
(* it leaves for the next turn of the event loop, the de-duplication of    *)
(* trades that are told again, the local position the realised PnL is      *)
(* computed on, and the totals kept on disk across restarts.               *)
(*                                                                         *)
(* A trade is its place in the exchange's tape, which is its timestamp     *)
(* too; its size is 1, its price is left out: what the PnL of a trade      *)
(* depends on is the position it is applied to.                            *)
(***************************************************************************)
EXTENDS Integers, Sequences, SequencesExt

CONSTANTS
    SnapTrades,     \* external: trades the first message of a connection repeats
    RecentMax,      \* maxlen of recent_trades
    MaxIds,         \* _processed_account_trade_ids is cleared beyond this
    MaxTrades,      \* bound: trades
    MaxFillFaults   \* bound: crashes, breaks, bad trades, failed writes, early positions

ASSUME FillAssumption ==
    /\ {SnapTrades, RecentMax, MaxIds} \subseteq Nat \ {0}
    /\ {MaxTrades, MaxFillFaults} \subseteq Nat
    /\ SnapTrades <= RecentMax

VARIABLES
    tape,       \* external: the account's trades, +1 a buy, -1 a sell
    told,       \* external: trades the positions it told last include
    linked,     \* account_all is subscribed
    run,        \* "down", "starting", or "trading" once the accounting is set up
    after,      \* _account_trade_accept_after_ms
    position,   \* state.account.position_size
    pending,    \* _pending_trades: at most one batch (the callback runs before
                \* the next message is read)
    seen,       \* _processed_account_trade_ids
    recent,     \* state.account.recent_trades
    local,      \* _live_fill_position_size
    started,    \* _live_fill_accounting_started
    tally,      \* _live_fill_count, by trade
    saved,      \* the same in live_state_*.json
    base,       \* history: the local position each trade was applied to
    odd,        \* history: trades told late, after the position they lead to, that
                \* arrived with a bad one or a loose one, or before the accounting was
                \* set up
    loose,      \* history: counted trades an older one was taken after
    fillFaults

fillVars == <<tape, told, linked, run, after, position, pending, seen, recent,
              local, started, tally, saved, base, odd, loose, fillFaults>>

Trades == 1..MaxTrades
FillFault == fillFaults < MaxFillFaults /\ fillFaults' = fillFaults + 1
NoTally == [i \in Trades |-> 0]

\* What is not counted yet of the tape from a place on is odd if the message is,
\* or if one of it is.
OddWith(from, lost) ==
    LET news == {i \in from..Len(tape) : tally[i] = 0}
    IN  IF lost \/ news \cap odd # {} THEN odd \cup news ELSE odd

\* The exchange's position after the first n trades.
PositionAt(n) ==
    LET sum[k \in 0..n] == IF k = 0 THEN 0 ELSE sum[k - 1] + tape[k]
    IN  sum[n]

FillInit ==
    /\ tape = <<>> /\ told = 0 /\ linked = FALSE
    /\ run = "down" /\ after = 0
    /\ position = 0 /\ pending = <<>> /\ seen = {} /\ recent = <<>>
    /\ local = 0 /\ started = FALSE
    /\ tally = NoTally /\ saved = NoTally
    /\ base = NoTally /\ odd = {} /\ loose = {}
    /\ fillFaults = 0

Execute(side) ==
    /\ Len(tape) < MaxTrades
    /\ tape' = Append(tape, side)
    /\ UNCHANGED <<told, linked, run, after, position, pending, seen, recent, local,
                   started, tally, saved, base, odd, loose, fillFaults>>

-----------------------------------------------------------------------------
(* Start, restart and crash.                                               *)

\* main clears what it keeps and takes the time as the one trades are taken
\* from.
Start ==
    /\ run = "down"
    /\ run' = "starting"
    /\ after' = Len(tape)
    /\ position' = 0 /\ pending' = <<>> /\ seen' = {} /\ recent' = <<>>
    /\ local' = 0 /\ started' = FALSE /\ tally' = NoTally
    /\ UNCHANGED <<tape, told, linked, saved, base, odd, loose, fillFaults>>

\* _initialize_live_fill_accounting_from_account, once a position was received:
\* totals from disk, position from the exchange.
Initialize ==
    /\ run = "starting" /\ linked
    /\ run' = "trading"
    /\ started' = TRUE
    /\ local' = position
    /\ tally' = saved
    /\ odd' = odd \cup {i \in Trades : i > after /\ (i <= told \/ i \in seen)}
    /\ UNCHANGED <<tape, told, linked, after, position, pending, seen, recent, saved,
                   base, loose, fillFaults>>

Crash ==
    /\ run # "down" /\ FillFault
    /\ run' = "down" /\ linked' = FALSE /\ pending' = <<>>
    /\ odd' = odd \cup {i \in DOMAIN tape : tally[i] = 0}
    /\ UNCHANGED <<tape, told, after, position, seen, recent, local, started, tally,
                   saved, base, loose>>

-----------------------------------------------------------------------------
(* on_account_all_update: positions at once, trades on the next turn.      *)

\* _sync_live_accounting_to_exchange.
Synced(on, there, here) == IF on THEN there ELSE here

Quiet == pending = <<>>

\* The first message of a connection repeats the last trades, with those the
\* program has seen; more may have happened while there was none.
Subscribed ==
    /\ run # "down" /\ ~linked /\ Quiet
    /\ linked' = TRUE
    /\ told' = Len(tape) /\ position' = PositionAt(Len(tape))
    /\ LET from == Max({Len(tape) - SnapTrades + 1, 1})
       IN  /\ pending' = [k \in 1..(Len(tape) - from + 1) |-> from + k - 1]
           /\ odd' = OddWith(Min({from, told + 1}),
                            from > told + 1 \/ (from..told) \cap loose # {})
    /\ local' = IF pending' = <<>> THEN Synced(started, position', local) ELSE local
    /\ UNCHANGED <<tape, run, after, seen, recent, started, tally, saved, base,
                   loose, fillFaults>>

\* An update: position and trades together, in any order, or, as a fault, the
\* position alone, ahead of its trades.
Update(newestFirst) ==
    /\ linked /\ Quiet /\ told < Len(tape)
    /\ told' = Len(tape) /\ position' = PositionAt(Len(tape))
    /\ LET n == Len(tape) - told
       IN  pending' = [k \in 1..n |-> IF newestFirst THEN Len(tape) + 1 - k ELSE told + k]
    /\ odd' = OddWith(told + 1, FALSE)
    /\ UNCHANGED <<tape, linked, run, after, seen, recent, local, started, tally, saved,
                   base, loose, fillFaults>>

PositionFirst ==
    /\ linked /\ Quiet /\ FillFault
    /\ position # PositionAt(Len(tape))
    /\ position' = PositionAt(Len(tape))
    /\ local' = Synced(started, position', local)
    /\ saved' = IF run = "trading" /\ local' # local THEN tally ELSE saved
    /\ odd' = OddWith(told + 1, TRUE)
    /\ UNCHANGED <<tape, told, linked, run, after, pending, seen, recent, started, tally,
                   base, loose>>

Break ==
    /\ linked /\ Quiet /\ run = "trading" /\ FillFault
    /\ linked' = FALSE
    /\ UNCHANGED <<tape, told, run, after, position, pending, seen, recent, local,
                   started, tally, saved, base, odd, loose>>

-----------------------------------------------------------------------------
(* _process_pending_trades.                                                *)

\* Mutant: trades are taken in the order of the message.
AsTold(batch) == batch

\* The oldest first: no two trades have the same time here.
InTime(batch) ==
    LET ids == {batch[k] : k \in DOMAIN batch}
        Older(i) == {j \in ids : j < i}
    IN  [k \in DOMAIN batch |-> CHOOSE i \in ids : Cardinality(Older(i)) = k - 1]

\* Mutant: only the identities are looked up.
KnownById(acc, i) == i \in acc.seen

\* Mutant: trades that look the same are taken for one.
KnownByLooks(acc, i) == \E k \in acc.seen : tape[k] = tape[i]

Known(acc, i) == i \in acc.seen \/ \E k \in DOMAIN acc.recent : acc.recent[k] = i

\* _is_startup_trade_echo.
Echo(i) == i <= after

Remembered(ids, i) ==
    IF Echo(i) THEN ids \cup {i}
    ELSE IF Cardinality(ids \cup {i}) > MaxIds THEN {i} ELSE ids \cup {i}

LastOf(s) == SubSeq(s, Max({Len(s) - RecentMax + 1, 1}), Len(s))

\* _apply_live_fill_accounting, on a start from nothing when the accounting
\* is not set up.
Applied(acc, i) ==
    [acc EXCEPT !.base[i] = IF acc.started THEN acc.local ELSE 0,
                !.local = (IF acc.started THEN @ ELSE 0) + tape[i],
                !.started = TRUE, !.tally[i] = @ + 1]

\* A trade whose price cannot be read raises once it counts as seen.
Take(acc, i, bad) ==
    LET marked == [acc EXCEPT !.seen = Remembered(@, i)]
        younger == {j \in Trades : j > i /\ acc.tally[j] > 0}
        noted == [marked EXCEPT !.recent = LastOf(Append(@, i)), !.loose = @ \cup younger]
    IN  IF Known(acc, i) THEN acc
        ELSE IF Echo(i) THEN marked
        ELSE IF bad THEN noted
        ELSE Applied(noted, i)

Ledger == [seen |-> seen, recent |-> recent, local |-> local, started |-> started,
           tally |-> tally, base |-> base, loose |-> loose]

\* The ledger after each trade of a batch; what follows the bad one is not taken.
Taken(batch, bad) ==
    LET taken[k \in 0..Len(batch)] ==
            IF k = 0 THEN Ledger ELSE Take(taken[k - 1], batch[k], k = bad)
    IN  taken

Process(bad) ==
    /\ ~Quiet
    /\ LET batch == InTime(pending)
           taken == Taken(batch, bad)
           acc == taken[IF bad = 0 THEN Len(batch) ELSE bad]
       IN  /\ bad > 0 => ~Known(taken[bad - 1], batch[bad]) /\ ~Echo(batch[bad])
           /\ seen' = acc.seen /\ recent' = acc.recent /\ started' = acc.started
           /\ tally' = acc.tally /\ base' = acc.base /\ loose' = acc.loose
           /\ local' = Synced(acc.started, position, acc.local)
           /\ odd' = odd \cup {i \in Trades : run = "starting" /\ acc.tally[i] > 0}
                         \cup (IF bad = 0 THEN {} ELSE {batch[k] : k \in bad..Len(batch)})
    /\ pending' = <<>>
    /\ \/ saved' = (IF run = "trading" THEN tally' ELSE saved)
          /\ IF bad = 0 THEN UNCHANGED fillFaults ELSE FillFault
       \/ bad = 0 /\ FillFault /\ UNCHANGED saved
    /\ UNCHANGED <<tape, told, linked, run, after, position>>

\* on_user_stats_update writes the totals too.
UserStats ==
    /\ run = "trading" /\ saved # tally
    /\ saved' = tally
    /\ UNCHANGED <<tape, told, linked, run, after, position, pending, seen, recent,
                   local, started, tally, base, odd, loose, fillFaults>>

-----------------------------------------------------------------------------

FillNext ==
    \/ \E side \in {1, -1} : Execute(side)
    \/ Start \/ Initialize \/ Crash
    \/ Subscribed \/ \E newestFirst \in BOOLEAN : Update(newestFirst)
    \/ PositionFirst \/ Break
    \/ \E bad \in 0..Len(pending) : Process(bad)
    \/ UserStats

FillSpec == FillInit /\ [][FillNext]_fillVars

-----------------------------------------------------------------------------
(* Properties. *)

\* However often a trade is told, across reconnects, the clearing of the
\* identities, crashes and restarts, the totals count it at most once, unless an
\* older trade was taken after it, which pushes it out of recent_trades too soon: one
\* that cannot be read cuts its batch short, and a reconnect tells the rest again.
CountedOnce == \A i \in Trades \ loose : tally[i] <= 1 /\ saved[i] <= 1

\* A trade executed while the program trades and told to it is counted, in
\* memory; those that come through no message, or with a bad one, are not.
NoFillMissed ==
    run = "trading" /\ Quiet =>
        \A i \in (after + 1)..told : i \notin odd => tally[i] > 0

\* The PnL of a trade is computed on the position it was executed against,
\* whatever the order of the message, unless its position came first, or it is one
\* that may be counted twice.
AppliedWhereExecuted ==
    \A i \in DOMAIN tape :
        tally[i] > 0 /\ i \notin odd \cup loose => base[i] = PositionAt(i - 1)
=============================================================================
