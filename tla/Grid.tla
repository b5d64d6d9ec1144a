-------------------------------- MODULE Grid --------------------------------
(***************************************************************************)
(* GridRunner: many dry-run slots, each with its own parameters, account   *)
(* and engine, quoting on one book feed.  The feed's callback fills and    *)
(* counts, one loop waits for the next book and ticks every slot.  An      *)
(* order is its side here (a slot has GridLevels of a side or none), and   *)
(* what a fill or a latency does to an account is in DryRun.               *)
(***************************************************************************)
EXTENDS Integers

CONSTANTS
    GridSlots,      \* slots
    GridLevels,     \* num_levels
    GridLimits,     \* max_pos in clips, as capital and price make it; 0: none left
    GridWarmup,     \* VOL_OBI_MIN_WARMUP_SAMPLES
    GridPosMax      \* bound: position of a slot

ASSUME GridAssumption ==
    /\ GridLevels \in Nat \ {0} /\ GridWarmup \in Nat
    /\ GridLimits \subseteq Nat /\ GridPosMax \in Nat
    /\ \E most \in GridLimits : \A lim \in GridLimits : lim <= most

VARIABLES
    loop,       \* the main task: top, wait, dead, off
    news,       \* _book_seq # last_seq
    event,      \* _book_seq_event
    twoSided,   \* mid_price is known
    warming,    \* what the calculators still need
    gridPos,    \* position of each slot
    standing,   \* orders of each slot and side
    unlimited   \* history: slots that ever quoted without a limit

gridVars == <<loop, news, event, twoSided, warming, gridPos, standing, unlimited>>

GridSides == {"buy", "sell"}
Most == CHOOSE l \in GridLimits : \A k \in GridLimits : l >= k

GridInit ==
    /\ loop = "top" /\ news = FALSE /\ event = FALSE
    /\ twoSided = FALSE /\ warming = GridWarmup
    /\ gridPos = [s \in GridSlots |-> 0]
    /\ standing = [s \in GridSlots |-> [d \in GridSides |-> 0]]
    /\ unlimited = {}

-----------------------------------------------------------------------------
(* The feed. *)

\* A book with one side leaves no mid and wakes nobody.
GridOneSided ==
    /\ loop # "off"
    /\ twoSided' = FALSE
    /\ UNCHANGED <<loop, news, event, warming, gridPos, standing, unlimited>>

\* _on_book_update: every calculator sees the book, every engine fills (here: at
\* most one slot, one side), and only then the loop is told.
GridBook ==
    /\ loop # "off"
    /\ twoSided' = TRUE /\ news' = TRUE /\ event' = TRUE
    /\ warming' = IF warming > 0 THEN warming - 1 ELSE 0
    /\ \/ UNCHANGED <<gridPos, standing>>
       \/ \E s \in GridSlots, d \in GridSides, n \in 1..GridLevels :
             LET to == IF d = "buy" THEN gridPos[s] + n ELSE gridPos[s] - n
             IN  /\ n <= standing[s][d] /\ to \in -GridPosMax..GridPosMax
                 /\ standing' = [standing EXCEPT ![s][d] = @ - n]
                 /\ gridPos' = [gridPos EXCEPT ![s] = to]
    /\ UNCHANGED <<loop, unlimited>>

\* _on_ws_disconnect: the orders of the engines stay.
GridDisconnect ==
    /\ loop # "off"
    /\ twoSided' = FALSE /\ warming' = GridWarmup
    /\ UNCHANGED <<loop, news, event, gridPos, standing, unlimited>>

-----------------------------------------------------------------------------
(* The loop. *)

\* Mutant: the limit is reached only when it is passed.
OverLimit(p, lim) == lim > 0 /\ (p > lim \/ -p > lim)

\* Without a limit (max_pos 0) nothing is suppressed.
LimitReached(p, lim) == lim > 0 /\ (p >= lim \/ -p >= lim)

\* The side that is not quoted at the limit: the one the position is on.
Suppressed(p, lim) ==
    IF ~LimitReached(p, lim) THEN {} ELSE IF p > 0 THEN {"buy"} ELSE {"sell"}

\* A calculator that is cold, or a slot without capital, offers nothing.
OffersOf == IF warming = 0 THEN SUBSET GridSides ELSE {{}}

\* What _tick_slot and _collect_slot_ops may leave standing of a slot.  A slot that
\* is left with nothing to offer keeps what it has; a create may be refused; and a
\* cancelled order can be filled while its cancel is under way, which every pass
\* that sends it again makes longer.
Standing(s, offer, lim) ==
    LET left == offer \ Suppressed(gridPos[s], lim)
    IN  IF left = {} THEN {standing[s]}
        ELSE {f \in [GridSides -> 0..GridLevels] : \A d \in GridSides :
                IF d \in left THEN f[d] >= standing[s][d] ELSE f[d] <= standing[s][d]}

\* With whether the slot went without a limit.
Outcomes(s) ==
    UNION {{<<f, offer # {} /\ lim = 0>> : f \in Standing(s, offer, lim)} :
              offer \in OffersOf, lim \in GridLimits}

\* One pass over the slots; nothing in it waits.  What it raises (the summary file
\* cannot be written, say) ends the task for good, and the feed goes on.
TickSlots ==
    /\ news' = FALSE
    /\ IF twoSided
       THEN \E to \in [GridSlots -> UNION {Outcomes(s) : s \in GridSlots}] :
               /\ \A s \in GridSlots : to[s] \in Outcomes(s)
               /\ standing' = [s \in GridSlots |-> to[s][1]]
               /\ unlimited' = unlimited \cup {s \in GridSlots : to[s][2]}
               /\ loop' \in {"top", "dead"}
       ELSE loop' = "top" /\ UNCHANGED <<standing, unlimited>>
    /\ UNCHANGED <<twoSided, warming, gridPos>>

\* Mutant: the loop waits without looking at the sequence number.
AlwaysWait == TRUE

\* The sequence number has not moved since the last pass.
NothingNew == ~news

\* The top of the loop: nothing yields between the test, the clear and the wait.
LoopTop ==
    /\ loop = "top" /\ warming = 0
    /\ \/ /\ NothingNew
          /\ event' = FALSE /\ loop' = "wait"
          /\ UNCHANGED <<news, twoSided, warming, gridPos, standing, unlimited>>
       \/ ~NothingNew /\ TickSlots /\ UNCHANGED event

\* wait_for returns: the event is set, or five seconds have passed.
Wakes(timeout) ==
    /\ loop = "wait" /\ (event \/ timeout)
    /\ TickSlots /\ UNCHANGED event

\* A signal cancels every task; the slots' files are in DryRun.
GridShutdown ==
    /\ loop # "off" /\ loop' = "off"
    /\ UNCHANGED <<news, event, twoSided, warming, gridPos, standing, unlimited>>

GridNext ==
    \/ GridBook
    \/ GridOneSided
    \/ GridDisconnect
    \/ LoopTop
    \/ \E timeout \in BOOLEAN : Wakes(timeout)
    \/ GridShutdown

GridSpec == GridInit /\ [][GridNext]_gridVars

-----------------------------------------------------------------------------
(* Properties. *)

\* The loop never sleeps on a book it has not ticked on; and no run of fills, cold
\* starts and passes that leave orders standing takes a slot that always had a limit
\* further past it than the levels that stood below it.
GridKeepsUp ==
    /\ loop = "wait" /\ news => event
    /\ \A s \in GridSlots \ unlimited :
          gridPos[s] \in -(Most + GridLevels - 1)..(Most + GridLevels - 1)
=============================================================================
