------------------------------ MODULE RiskPause ------------------------------
(***************************************************************************)
(* The circuit breaker of market_maker_v2.py against the order path:       *)
(* RiskController, the pause branch of market_making_loop and              *)
(* _pause_cleanup_task, composed with OrderLifecycle.                      *)
(*                                                                         *)
(* The cleanup is one more task that sends cancels and reconciles: it uses *)
(* the reconciler steps of OrderLifecycle in an order of its own.  What    *)
(* trips the breaker other than rejections (a dead background task, errors *)
(* of the loop, mismatches seen by the poller, too many live orders) is    *)
(* left open.  Time is the end of the cooldown.                            *)
(***************************************************************************)
EXTENDS OrderLifecycle

CONSTANTS
    Cleaner,        \* _pause_cleanup_task
    Threshold,      \* MAX_CONSECUTIVE_ORDER_REJECTIONS
    ForceAfter      \* cleanup attempts before PLACING slots are forced clear

ASSUME CleanerAssumption == Cleaner \in Reconcilers
ASSUME LimitAssumption == Threshold \in Nat \ {0} /\ ForceAfter \in Nat

VARIABLES
    pause,       \* "on" before paused_until, "over" once it has passed,
                 \* "off" when it is 0
    cancelDone,  \* pause_cancel_done
    rejections,  \* consecutive_rejections, up to Threshold
    reconOk,     \* last_reconcile_ok
    loop,        \* the hot loop: at its checks, or waiting for the book
    cleanup,     \* where the cleanup is; "off" is not _pause_cleanup_running
    attempts     \* _pause_cleanup_attempts, up to ForceAfter + 1

breaker == <<pause, cancelDone, rejections>>
cleaning == <<cleanup, attempts>>
risk == <<breaker, reconOk, loop, cleaning>>
allVars == <<vars, risk>>

-----------------------------------------------------------------------------
(* RiskController. *)

TriggerPause == pause' = "on" /\ cancelDone' = FALSE

RecordSuccess == rejections' = 0 /\ UNCHANGED <<pause, cancelDone>>

RecordRejection ==
    LET n == IF rejections < Threshold THEN rejections + 1 ELSE rejections
    IN  /\ rejections' = n
        /\ IF n = Threshold THEN TriggerPause
           ELSE UNCHANGED <<pause, cancelDone>>

\* Anything else that pauses trading.
Trip ==
    /\ TriggerPause
    /\ UNCHANGED <<vars, rejections, reconOk, loop, cleaning>>

CooldownOver ==
    /\ pause = "on" /\ pause' = "over"
    /\ UNCHANGED <<vars, cancelDone, rejections, reconOk, loop,
                   cleaning>>

-----------------------------------------------------------------------------
(* market_making_loop: the checks, a wait for the book, then the tick. *)

\* Mutant: the cleanup is scheduled whether or not one is running.
AlwaysDue == pause = "on" /\ ~cancelDone

CleanupDue == pause = "on" /\ ~cancelDone /\ cleanup = "off"

\* While paused the loop only starts the cleanup.
PausedCheck ==
    /\ loop = "check" /\ CleanupDue
    /\ cleanup' = "scheduled"
    /\ UNCHANGED <<vars, breaker, reconOk, loop, attempts>>

\* maybe_recover clears the pause if the last reconciliation was in order;
\* the loop goes on in either case once the cooldown is over.
OpenCheck ==
    /\ loop = "check" /\ pause # "on"
    /\ IF pause = "over" /\ reconOk
       THEN /\ pause' = "off" /\ cancelDone' = FALSE /\ rejections' = 0
       ELSE UNCHANGED breaker
    /\ loop' = "waiting"
    /\ UNCHANGED <<vars, reconOk, cleaning>>

\* The book has moved.  Nothing looks at the pause again before the tick.
PauseTick ==
    /\ loop = "waiting" /\ loop' = "check"
    /\ HotTick
    /\ UNCHANGED <<breaker, reconOk, cleaning>>

-----------------------------------------------------------------------------
(* _pause_cleanup_task. *)

CancelOps ==
    {[act |-> "cancel", slot |-> s, cid |-> tracked[s]] :
        s \in {t \in Slots : tracked[t] \in idMap}}

\* Slots given up as stuck.  The CLEAR_LIVE names no order (the index it
\* has here, one issued for the slot, is not read by anything).
Forced(n) ==
    {s \in Slots : n > ForceAfter /\ TrackedIds # {} /\ status[s] = "PLACING"}

\* A new attempt: forced clears are queued, then every tracked order that has
\* an exchange id is to be cancelled.
CleanupBegin ==
    LET n == IF attempts > ForceAfter THEN attempts ELSE attempts + 1 IN
    /\ cleanup = "scheduled"
    /\ attempts' = n
    /\ events' = [s \in Slots |->
         IF s \in Forced(n)
         THEN Append(events[s], Clear(CHOOSE c \in Cids : home[c] = s))
         ELSE events[s]]
    /\ IF CancelOps = {}
       THEN cleanup' = "verifying" /\ UNCHANGED <<pc, batch>>
       ELSE /\ cleanup' = "cancelling"
            /\ pc' = [pc EXCEPT ![Cleaner] = "gate"]
            /\ batch' = [batch EXCEPT ![Cleaner] = CancelOps]
    /\ UNCHANGED <<tracked, status, latestRec, idMap, mailbox, mailStale,
                   restSnap, feedVars, exchange, home, faults, orphaned,
                   pause, cancelDone, rejections, reconOk, loop>>

\* The cancels have been sent, or there were none.
Cancelled == cleanup \in {"cancelling", "verifying"} /\ pc[Cleaner] = "idle"

CleanupFetch ==
    /\ Cancelled /\ RestAnswered(Cleaner)
    /\ cleanup' = "answered"
    /\ UNCHANGED <<breaker, reconOk, loop, attempts>>

\* The fetch fails: that counts as a reconciliation in order if the
\* account_orders feed looks healthy.
CleanupFetchFailed ==
    /\ Cancelled /\ Fault
    /\ cleanup' = IF wsReady THEN "ok" ELSE "failed"
    /\ reconOk' = wsReady
    /\ UNCHANGED <<local, sending, restSnap, feedVars, exchange, home,
                   orphaned, breaker, loop, attempts>>

\* reconcile_orders_with_exchange is in order when every tracked order is
\* open and no order has to be cancelled.
InOrder(r) ==
    /\ \A snap \in restSnap[r] : TrackedIds \subseteq snap
    /\ batch'[r] = {}

CleanupReconcile ==
    /\ cleanup = "answered" /\ Reconcile(Cleaner)
    /\ cleanup' = IF InOrder(Cleaner) THEN "ok" ELSE "failed"
    /\ reconOk' = InOrder(Cleaner)
    /\ UNCHANGED <<breaker, loop, attempts>>

\* The attempt has done its job: in order, and no slot tracks an order.
Clean == cleanup = "ok" /\ TrackedIds = {}

CleanupEnd ==
    /\ cleanup \in {"ok", "failed"} /\ pc[Cleaner] = "idle"
    /\ cleanup' = "off"
    /\ IF Clean THEN cancelDone' = TRUE /\ attempts' = 0
       ELSE UNCHANGED <<cancelDone, attempts>>
    /\ UNCHANGED <<vars, pause, rejections, reconOk, loop>>

-----------------------------------------------------------------------------
(* The order path, with what it tells the breaker. *)

\* An error is a rejection unless it is about quota, rate or nonce.
Refused(n) ==
    /\ Rejected(n) \/ AnswerLost(n)
    /\ RecordRejection \/ UNCHANGED breaker
    /\ UNCHANGED <<reconOk, loop, cleaning>>

Succeeded(n) ==
    /\ Acked(n) /\ RecordSuccess
    /\ UNCHANGED <<reconOk, loop, cleaning>>

\* Every account_orders message is a reconciliation in order, except a first
\* one that does not list exactly the tracked orders or exceeds the exposure cap.
OrdersMessage ==
    /\ OnAccountOrders
    /\ \/ reconOk' = (wsReady \/ Head(feed).live = TrackedIds)
       \/ ExposureCap /\ ~wsReady /\ reconOk' = FALSE
    /\ UNCHANGED <<breaker, loop, cleaning>>

\* The reconciler that polls.
PollerAnswered(r) == RestAnswered(r) /\ UNCHANGED risk

PollerReconciles(r) ==
    /\ Reconcile(r) /\ reconOk' = InOrder(r)
    /\ UNCHANGED <<breaker, loop, cleaning>>

Sends(n) == AcquireLock(n) \/ AbortBatch(n) \/ Signed(n) \/ Accept(n)

Untouched ==
    /\ \/ PacedPull \/ PacedDenied
       \/ \E n \in Senders : Sends(n)
       \/ \E o \in accepted : Execute(o)
       \/ \E c \in Cids : Fill(c)
       \/ \E refresh \in BOOLEAN : FeedLost(refresh)
       \/ FeedSubscribed \/ ColdReconcile
       \/ \E r \in Reconcilers : ReconcilerSend(r) \/ ReconcilerDenied(r)
    /\ UNCHANGED risk

PauseInit ==
    /\ Init
    /\ pause = "off" /\ cancelDone = FALSE /\ rejections = 0
    /\ reconOk = TRUE /\ loop = "check" /\ cleanup = "off" /\ attempts = 0

PauseNext ==
    \/ Trip \/ CooldownOver
    \/ PausedCheck \/ OpenCheck \/ PauseTick
    \/ CleanupBegin \/ CleanupFetch \/ CleanupFetchFailed
    \/ CleanupReconcile \/ CleanupEnd
    \/ \E n \in Senders : Refused(n) \/ Succeeded(n)
    \/ OrdersMessage
    \/ \E r \in Reconcilers \ {Cleaner} : PollerAnswered(r) \/ PollerReconciles(r)
    \/ Untouched

PauseSpec == PauseInit /\ [][PauseNext]_allVars

\* As in OrderLifecycle, and the cleanup task; the cooldown is as long as it
\* likes.
PauseFairness ==
    /\ WF_allVars(PausedCheck) /\ WF_allVars(OpenCheck) /\ WF_allVars(PauseTick)
    /\ WF_allVars(CleanupBegin) /\ WF_allVars(CleanupFetch) /\ WF_allVars(CleanupReconcile)
    /\ WF_allVars(CleanupEnd)
    /\ WF_allVars(PacedPull /\ UNCHANGED risk)
    /\ \A n \in Senders :
        /\ SF_allVars(AcquireLock(n) /\ UNCHANGED risk)
        /\ WF_allVars(Signed(n) /\ UNCHANGED risk)
        /\ WF_allVars((Accept(n) /\ UNCHANGED risk) \/ Refused(n))
        /\ WF_allVars(Succeeded(n))
    /\ \A o \in Op : WF_allVars(Execute(o) /\ UNCHANGED risk)
    /\ WF_allVars(FeedSubscribed /\ UNCHANGED risk) /\ WF_allVars(OrdersMessage)
    /\ WF_allVars(ColdReconcile /\ UNCHANGED risk)
    /\ \A r \in Reconcilers : WF_allVars(ReconcilerSend(r) /\ UNCHANGED risk)
    /\ \A r \in Reconcilers \ {Cleaner} :
        WF_allVars(PollerAnswered(r)) /\ WF_allVars(PollerReconciles(r))

PauseFairSpec == PauseSpec /\ PauseFairness

-----------------------------------------------------------------------------
(* Properties. *)

\* The type of the breaker's state; OrderLifecycle keeps its own.
PauseTypeOK ==
    /\ TypeOK
    /\ pause \in {"off", "on", "over"} /\ cancelDone \in BOOLEAN
    /\ rejections \in 0..Threshold /\ reconOk \in BOOLEAN
    /\ loop \in {"check", "waiting"}
    /\ cleanup \in {"off", "scheduled", "cancelling", "verifying",
                    "answered", "ok", "failed"}
    /\ attempts \in 0..(ForceAfter + 1)

\* No attempt of the cleanup starts while cancels or the verifying answer of
\* an earlier one are under way (_pause_cleanup_running).
CleanupAlone ==
    cleanup \in {"off", "scheduled"} =>
        pc[Cleaner] = "idle" /\ restSnap[Cleaner] = {}

\* _supervise_task: "pause trading so no quotes rest on a dead feed".  Once
\* the cleanup of a pause is done, nothing is open while it lasts.
CleanPauseHasNoQuotes == pause = "on" /\ cancelDone => Live = {}

\* "Force-clear stuck PLACING orders": what a queued BIND_LIVE is about to put
\* in a slot is not cleared while it is open at the exchange.
QueuedBindSurvives ==
    \A s \in Slots : \A i \in DOMAIN events[s] :
        events[s][i].ev = "bind" /\ exch[events[s][i].cid] = "live" =>
            HotTracked(s) # None

\* A pause that lasts is cleaned up, although the loop that applies slot
\* events does not run during it.
PauseIsCleanedUp ==
    (pause = "on" /\ ~cancelDone) ~> (pause # "on" \/ cancelDone)
=============================================================================
