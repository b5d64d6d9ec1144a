------------------------------- MODULE Session -------------------------------
(***************************************************************************)
(* A live session, from main's first await to its last: the clean slate at *)
(* startup, the wait for data, the emergency close, trading, and the       *)
(* cleanup that a signal, an early return or an error leads to.  The       *)
(* sender outlives the loop that started it: cleanup does not cancel it.   *)
(*                                                                         *)
(* The quotes are one order; a position is counted in its size.  Positions *)
(* too small to close, the dry run and the pause are left out.             *)
(***************************************************************************)
EXTENDS Integers, FiniteSets

CONSTANTS
    PanicOnStart,   \* the values PANIC_CLOSE_ON_STARTUP may have
    PanicOnStop,    \* the values PANIC_CLOSE_ON_SHUTDOWN may have
    CloseTries,     \* range(5) of emergency_close_position
    Held,           \* bound: the positions quoting can lead to
    MaxSessions     \* bound: sessions

ASSUME SessionAssumption ==
    /\ PanicOnStart \cup PanicOnStop \subseteq BOOLEAN
    /\ CloseTries \in Nat \ {0} /\ MaxSessions \in Nat \ {0}
    /\ Held \subseteq Int /\ 0 \in Held

VARIABLES
    phase,      \* how far main is
    quote,      \* "none", "ours" or "old": the order that rests on the exchange
    pos,        \* the position on the exchange
    known,      \* state.account.position_size
    rows,       \* TradeLogger._buffer holds fills
    sender,     \* _paced_send: "idle" or "gated", with a batch in the mailbox
    want,       \* close_size, with the sign of the position
    exit,       \* what the close orders on the exchange have still to do
    tries,      \* attempts at the close order
    interrupt,  \* main_task.cancel() was called
    tried,      \* history: the final cancel was tried
    excuse,     \* history: what went wrong in this session
    turned,     \* history: a close took the position through zero
    sessions

exchangeVars == <<quote, pos, exit, turned>>
closeVars == <<want, tries>>
sessionVars == <<phase, exchangeVars, known, rows, sender, closeVars, interrupt, tried, excuse, sessions>>

InTry == {"waiting", "startClose", "startWait", "trading"}
InCleanup == {"teardown", "final", "panic", "stopClose", "stopWait", "verify"}
Closing == {"startClose", "startWait", "stopClose", "stopWait"}
Running == {"starting"} \cup InTry \cup InCleanup

SessionInit ==
    /\ phase = "starting" /\ quote \in {"none", "old"} /\ pos \in Held /\ known = 0
    /\ rows = FALSE /\ sender = "idle" /\ want = 0 /\ exit = 0 /\ tries = 0 /\ interrupt = FALSE
    /\ tried = FALSE /\ excuse = {} /\ turned = FALSE /\ sessions = 1

Go(p) == phase' = p /\ UNCHANGED <<rows, sender, interrupt, sessions>>
Blame(why) == excuse' = excuse \cup why

-----------------------------------------------------------------------------
(* Calls of the exchange.                                                  *)

\* cancel_all_orders, retries included: it returns nothing, and its caller goes on
\* whether it succeeded or gave up.
CancelAll(why) ==
    \/ quote' = "none" /\ exit' = 0 /\ Blame(why)
    \/ UNCHANGED <<quote, exit>> /\ Blame(why \cup {"call"})

\* Mutant: orders that could not be listed are taken for none.
FoundNone(answer) == answer # "orders"

\* What _fetch_account_active_orders answered: nothing to cancel.
NothingToCancel(answer) == answer = "empty"

Listed == {"failed", IF quote = "none" THEN "empty" ELSE "orders"}

Startup ==
    /\ phase = "starting" /\ ~interrupt
    /\ \E answer \in Listed :
        IF NothingToCancel(answer) THEN UNCHANGED <<quote, exit, excuse>> ELSE CancelAll({})
    /\ Go("waiting")
    /\ UNCHANGED <<pos, known, closeVars, tried, turned>>

\* The feeds bring the account within 30 s, or main leaves.
Ready ==
    /\ phase = "waiting" /\ ~interrupt
    /\ known' = pos /\ want' = pos /\ tries' = 0
    /\ \E panic \in PanicOnStart :
            Go(IF pos # 0 /\ panic THEN "startClose" ELSE "trading")
    /\ UNCHANGED <<exchangeVars, tried, excuse>>

NotReady ==
    /\ phase = "waiting" /\ ~interrupt
    /\ Go("teardown")
    /\ UNCHANGED <<exchangeVars, known, closeVars, tried, excuse>>

-----------------------------------------------------------------------------
(* emergency_close_position.  On shutdown it has 15 s, less than the pause *)
(* before its first retry, and no feed tells it of the fill.               *)

AfterClose(closed) ==
    IF phase \in {"startClose", "startWait"}
    THEN IF closed THEN {"trading"} ELSE {"trading", "teardown"}
    ELSE {"verify"}

Place ==
    /\ phase \in {"startClose", "stopClose"} /\ ~interrupt
    /\ \/ exit' = exit - want /\ UNCHANGED <<tries, excuse>>
          /\ Go(IF phase = "startClose" THEN "startWait" ELSE "stopWait")
       \/ \E sent \in BOOLEAN :         \* a transient error hides what became of the order
            /\ exit' = IF sent THEN exit - want ELSE exit
            /\ Blame({"call"}) /\ tries' = tries + 1
            /\ IF phase = "startClose" /\ tries' < CloseTries THEN Go(phase)
               ELSE \E p \in AfterClose(FALSE) : Go(p)
       \/ UNCHANGED <<exit, tries>> /\ Blame({"call"})
          /\ \E p \in AfterClose(FALSE) : Go(p)
    /\ UNCHANGED <<quote, pos, turned, known, want, tried>>

\* Mutant: the close is placed again, the first order still working.
PlacedAgain ==
    /\ known # 0 /\ tries < CloseTries /\ tries' = tries + 1
    /\ Go(IF phase = "startWait" THEN "startClose" ELSE "stopClose")
    /\ UNCHANGED <<quote, exit, excuse>>

\* Flat, or still open after 5 s: either way the orders are cancelled.
CloseEnds ==
    /\ CancelAll({}) /\ UNCHANGED tries
    /\ \E p \in AfterClose(known = 0) : Go(p)

WaitOver ==
    /\ phase \in {"startWait", "stopWait"} /\ ~interrupt
    /\ CloseEnds
    /\ UNCHANGED <<pos, turned, known, want, tried>>

-----------------------------------------------------------------------------
(* Trading, and the exchange.                                              *)

\* The loop posts a batch and starts the sender if it is idle.
Post ==
    /\ phase = "trading" /\ ~interrupt /\ sender = "idle"
    /\ sender' = "gated"
    /\ UNCHANGED <<phase, exchangeVars, known, rows, closeVars, interrupt, tried, excuse, sessions>>

\* The gate opens for the sender, whatever main is doing by then.
GateOpens ==
    /\ phase \in Running /\ sender = "gated"
    /\ sender' = "idle"
    /\ quote' = IF quote = "none" THEN "ours" ELSE quote
    /\ IF tried THEN Blame({"sender"}) ELSE UNCHANGED excuse
    /\ UNCHANGED <<phase, pos, exit, turned, known, rows, closeVars, interrupt, tried, sessions>>

Fill(n) ==
    /\ quote # "none" /\ pos + n \in Held
    /\ quote' = "none" /\ pos' = pos + n
    /\ Blame(IF exit # 0 \/ phase \in Closing THEN {"filled"} ELSE {})
    /\ UNCHANGED <<phase, exit, turned, known, rows, sender, closeVars, interrupt, tried, sessions>>

\* The close crosses the book, and may find less than it needs.
ExitFills ==
    /\ exit # 0
    /\ LET n == IF exit > 0 THEN 1 ELSE -1
       IN  /\ pos' = pos + n /\ exit' = exit - n
           /\ turned' = (turned \/ pos = 0)
    /\ UNCHANGED <<phase, quote, known, rows, sender, closeVars, interrupt, tried, excuse, sessions>>

\* The account feed, one of the tasks that cleanup cancels first.
Tell ==
    /\ phase \in {"startClose", "startWait", "trading"} /\ known # pos
    /\ known' = pos /\ rows' = TRUE
    /\ UNCHANGED <<phase, exchangeVars, sender, closeVars, interrupt, tried, excuse, sessions>>

-----------------------------------------------------------------------------
(* Signals and cleanup.                                                    *)

\* shutdown_handler: every signal cancels main, also while it cleans up.
Signal ==
    /\ phase \in Running /\ ~interrupt
    /\ interrupt' = TRUE
    /\ UNCHANGED <<phase, exchangeVars, known, rows, sender, closeVars, tried, excuse, sessions>>

End(why) ==
    /\ phase' = "ended" /\ sender' = "idle" /\ rows' = FALSE
    /\ interrupt' = FALSE /\ Blame(why)
    /\ UNCHANGED <<exchangeVars, known, closeVars, tried, sessions>>

\* Before the try there is no cleanup, and cleanup does not survive a signal.
Interrupted ==
    /\ interrupt
    /\ \/ /\ phase \in InTry
          /\ phase' = "teardown" /\ interrupt' = FALSE
          /\ UNCHANGED <<exchangeVars, known, rows, sender, closeVars, tried, excuse, sessions>>
       \/ phase = "starting" /\ End({"early signal"})
       \/ phase \in InCleanup /\ End({"second signal"})

\* Mutant: tasks that are still alive keep main from going on.
Stuck(alive) == IF alive THEN {"ended"} ELSE {"final"}

\* Tasks that outlive both cancels are abandoned.
AfterTeardown(alive) == {"final"}

\* The tasks are cancelled, and the trade log is flushed: outside of any try.
Teardown ==
    /\ phase = "teardown" /\ ~interrupt
    /\ \/ \E alive \in BOOLEAN : \E p \in AfterTeardown(alive) :
            /\ Go(p)
            /\ UNCHANGED <<exchangeVars, known, closeVars, tried, excuse>>
       \/ rows /\ End({"flush"})

FinalCancel ==
    /\ phase = "final" /\ ~interrupt
    /\ CancelAll(IF known # pos THEN {"untold"} ELSE {}) /\ tried' = TRUE
    /\ want' = known /\ tries' = 0
    /\ \E panic \in PanicOnStop :
            Go(IF known # 0 /\ panic THEN "stopClose" ELSE "verify")
    /\ UNCHANGED <<pos, turned, known>>

\* The orders that remain are looked for and only logged.
Verified == phase = "verify" /\ ~interrupt /\ End({})

SessionCrash == phase \in Running /\ End({"crash"})

NextSession ==
    /\ phase = "ended" /\ exit = 0 /\ sessions < MaxSessions
    /\ sessions' = sessions + 1 /\ phase' = "starting"
    /\ quote' = IF quote = "none" THEN "none" ELSE "old"
    /\ known' = 0 /\ tried' = FALSE /\ excuse' = {} /\ turned' = FALSE
    /\ UNCHANGED <<pos, rows, sender, exit, closeVars, interrupt>>

SessionNext ==
    \/ Startup
    \/ Ready
    \/ NotReady
    \/ Place
    \/ WaitOver
    \/ Post
    \/ GateOpens
    \/ \E n \in {-1, 1} : Fill(n)
    \/ ExitFills
    \/ Tell
    \/ Signal
    \/ Interrupted
    \/ Teardown
    \/ FinalCancel
    \/ Verified
    \/ SessionCrash
    \/ NextSession

SessionSpec == SessionInit /\ [][SessionNext]_sessionVars

-----------------------------------------------------------------------------
(* Properties. *)

\* Quotes of an earlier session are gone before this one trades, unless a cancel
\* failed, and this one's quotes are gone when it ends, unless a cancel or the
\* flush before it failed, a signal came too early or a second time, the process
\* died, or the sender passed its gate after the last cancel.
NoOrphanQuotes ==
    /\ phase \in InTry /\ "call" \notin excuse => quote # "old"
    /\ phase = "ended" /\ excuse = {} => quote = "none"

\* The emergency close does not take the position through zero, unless one of its
\* calls failed, or quotes filled while it ran, or it went by a position that had
\* changed after the feeds were stopped.
CloseStopsAtFlat == turned => excuse \cap {"call", "untold", "filled"} # {}
=============================================================================
