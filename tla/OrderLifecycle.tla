--------------------------- MODULE OrderLifecycle ---------------------------
(***************************************************************************)
(* The live order path of market_maker_v2.py: the hot quoting loop, its    *)
(* one-place mailbox and background sender, the deferred slot-event queue, *)
(* the account_orders feed, the REST reconciler and the exchange.          *)
(*                                                                         *)
(* A slot is one (side, level) pair.  It tracks at most one order, by      *)
(* client order index.  Everything here runs on one asyncio event loop:    *)
(* an action is the code between two awaits.                               *)
(*                                                                         *)
(* Prices and sizes are abstracted: a quote the loop wants moved is a      *)
(* "modify", whatever the distance.  The sequence of queue events is kept  *)
(* per slot, because an event changes only its own slot and every drain    *)
(* empties the queue.                                                      *)
(***************************************************************************)
EXTENDS Naturals, FiniteSets, Sequences, SequencesExt

CONSTANTS
    Slots,          \* the (side, level) pairs quoted
    Cids,           \* client order indices next_client_order_index may return
    Reconcilers,    \* tasks that call reconcile_orders_with_exchange
    Paced,          \* the task running _paced_send
    None,           \* no order in the slot
    Decisions,      \* what pricing may decide for a slot in a tick
    ExposureCap,    \* RISK_ORDER_EXPOSURE_CAP_ENABLED
    MaxFaults,      \* bound: failures of the environment in one behaviour
    MaxFeed         \* bound: undelivered account_orders messages

ASSUME NoneAssumption == None \notin Cids \union Slots
ASSUME PacedAssumption == Paced \notin Reconcilers
ASSUME BoundAssumption == MaxFaults \in Nat /\ MaxFeed \in Nat
ASSUME ConfigAssumption == ExposureCap \in BOOLEAN
ASSUME DecisionAssumption ==
    /\ "keep" \in Decisions
    /\ Decisions \subseteq {"keep", "quote", "move", "pull"}

Senders == Reconcilers \union {Paced}

VARIABLES
    tracked,     \* bid_order_ids / ask_order_ids: the order a slot tracks
    status,      \* SideOrderLifecycle.status of the slot
    events,      \* _order_event_queue, the part of each slot
    latestRec,   \* _latest_reconcile_event: at most one snapshot, as a set
    idMap,       \* keys of _client_to_exchange_id
    mailbox,     \* _latest_ops ({} is None)
    pc,          \* where each sender is in _paced_send / sign_and_send_batch
    batch,       \* the ops a sender is working on
    restSnap,    \* a REST answer on its way to a reconciler (at most one)
    wsUp,        \* the account_orders subscription is established
    wsReady,     \* _account_orders_ws_ready
    feed,        \* account_orders messages not yet handled
    exch,        \* what the exchange knows of an order
    accepted,    \* ops the exchange has acknowledged but not executed yet
    home,        \* the slot a client order index was issued for
    faults,      \* failures so far (bounded by MaxFaults)
    orphaned,    \* history: orders the bot was made to lose (OneQuotePerSlot)
    mailStale    \* history: a later tick wanted no ops, mailbox unchanged

local == <<tracked, status, events, latestRec, idMap>>
sending == <<mailbox, pc, batch, mailStale>>
feedVars == <<wsUp, wsReady, feed>>
exchange == <<exch, accepted>>
vars == <<tracked, status, events, latestRec, idMap, mailbox, pc, batch,
          restSnap, wsUp, wsReady, feed, exch, accepted, home, faults,
          orphaned, mailStale>>

-----------------------------------------------------------------------------
(* Data. *)

Status == {"IDLE", "PLACING", "LIVE", "MODIFYING"}

\* BIND_LIVE and CLEAR_LIVE.  A CLEAR_LIVE event names only a slot in the
\* code; cid is history, the order whose death the sender of the event saw.
Event == [ev : {"bind", "clear"}, cid : Cids]

Op == [act : {"create", "modify", "cancel"}, slot : Slots, cid : Cids]

\* One account_orders message: its live orders and its dead ones.
Message == [live : SUBSET Cids, dead : SUBSET Cids]

\* "waiting" for _sdk_write_lock, "signing" in the executor, "inflight" until
\* the exchange takes the batch, "acked" until its answer is read.
PC == {"idle", "gate", "waiting", "signing", "inflight", "acked"}

Bind(c) == [ev |-> "bind", cid |-> c]
Clear(c) == [ev |-> "clear", cid |-> c]

Fresh == {c \in Cids : home[c] = None}
Live == {c \in Cids : exch[c] = "live"}
TrackedIds == {tracked[s] : s \in Slots} \ {None}
Creates(ops) == {o \in ops : o.act = "create"}
CidsOf(ops) == {o.cid : o \in ops}

HoldsLock(n) == pc[n] \in {"signing", "inflight", "acked"}

\* asyncio.Lock.acquire returns at once only with no holder and no waiter.
LockFree == \A n \in Senders : ~HoldsLock(n)
LockFreeNow == LockFree /\ \A n \in Senders : pc[n] # "waiting"

\* Every failure of the environment is paid for from one budget.
Fault == faults < MaxFaults /\ faults' = faults + 1

-----------------------------------------------------------------------------
(* OrderManager: applying the queue and the reconcile snapshot. *)

\* A slot after drain_hot_events: the last of its events decides.
HotTracked(s) ==
    IF events[s] = <<>> THEN tracked[s]
    ELSE IF Last(events[s]).ev = "bind" THEN Last(events[s]).cid ELSE None

\* Mutant: _bind_live leaves the status alone.
HotStatusNotMarked(s) ==
    IF events[s] # <<>> /\ Last(events[s]).ev = "clear" THEN "IDLE"
    ELSE status[s]

HotStatus(s) ==
    IF events[s] = <<>> THEN status[s]
    ELSE IF Last(events[s]).ev = "bind" THEN "LIVE" ELSE "IDLE"

\* Mutant: a reconcile refreshes slots but clears none.
NeverMissing(id) == FALSE

\* _process_reconcile on a slot that tracks id: an order the snapshot does
\* not list is cleared, one it lists is bound again.
Missing(id) == id # None /\ \E snap \in latestRec : id \notin snap
Relisted(id) == id # None /\ \E snap \in latestRec : id \in snap

RecTracked(id) == IF Missing(id) THEN None ELSE id
RecStatus(id, st) ==
    IF Missing(id) THEN "IDLE" ELSE IF Relisted(id) THEN "LIVE" ELSE st

\* Orders cleared from a slot although they live, or are still to go live.
LostToSnapshot(ids) == {c \in ids : Missing(c) /\ exch[c] # "dead"}

-----------------------------------------------------------------------------
(* The hot loop: market_making_loop drains hot events, then decides the    *)
(* ops of every slot with no await in between (collect_order_operations).  *)

\* want[s] is the outcome of pricing for a slot: "quote" a price its order, if
\* it has one, already has; "move" it to a new price or size; "pull" it (side
\* suppressed, exposure cap, reduce-only flip); or "keep" what is there (no
\* price and no order, a change below the threshold, a young order).
Wants == [Slots -> Decisions]

\* Slots that get a new order, under the fresh index the tick issues.
EmptyQuoted(want) ==
    {s \in Slots : want[s] \in {"quote", "move"} /\ HotTracked(s) = None}

\* An order without an exchange order_index can be neither moved nor pulled.
Addressed(want, decision) ==
    {s \in Slots : want[s] = decision /\ HotTracked(s) \in idMap}

CollectOps(want, new) ==
    {[act |-> "create", slot |-> s, cid |-> new[s]] : s \in EmptyQuoted(want)}
    \union
    {[act |-> "modify", slot |-> s, cid |-> HotTracked(s)] :
        s \in Addressed(want, "move")}
    \union
    {[act |-> "cancel", slot |-> s, cid |-> HotTracked(s)] :
        s \in Addressed(want, "pull")}

Tick(want, new) ==
    LET ops == CollectOps(want, new) IN
    /\ tracked' = [s \in Slots |-> HotTracked(s)]
    /\ status' = [s \in Slots |-> HotStatus(s)]
    /\ events' = [s \in Slots |-> <<>>]
    /\ home' = [c \in Cids |->
                  IF \E s \in EmptyQuoted(want) : new[s] = c
                  THEN CHOOSE s \in EmptyQuoted(want) : new[s] = c
                  ELSE home[c]]
    /\ mailbox' = IF ops = {} THEN mailbox ELSE ops
    /\ mailStale' = (ops = {} /\ mailbox # {})
    /\ pc' = IF pc[Paced] = "idle" /\ mailbox' # {}
             THEN [pc EXCEPT ![Paced] = "gate"] ELSE pc
    /\ UNCHANGED <<latestRec, idMap, batch, restSnap, wsUp, wsReady, feed,
                   exch, accepted, faults, orphaned>>

HotTick ==
    \E want \in Wants : \E new \in Injection(EmptyQuoted(want), Fresh) :
        Tick(want, new)

-----------------------------------------------------------------------------
(* _paced_send and sign_and_send_batch. *)

\* Where a sender goes when sign_and_send_batch returns: the paced sender
\* loops while the mailbox has content, a reconciler is done.
Returned(n, box) == IF n = Paced /\ box # {} THEN "gate" ELSE "idle"

\* Free-slot mode sends one op only, a cancel if there is one.
FreeSlotPicks(ops) ==
    LET first == IF \E o \in ops : o.act = "cancel"
                 THEN {o \in ops : o.act = "cancel"} ELSE ops
    IN  {{o} : o \in first}

\* Mutant: creates are sent as collected.
NeverStale(o, id) == FALSE

\* The guard of sign_and_send_batch: a create is dropped when its slot
\* tracks an order by now (id).
StaleCreate(o, id) == o.act = "create" /\ id # None

\* sign_and_send_batch up to its first await, with ops; box is the mailbox
\* left behind.  It applies every pending event and snapshot, drops creates
\* whose slot meanwhile tracks an order, and takes the write lock.
EnterBatch(n, ops, box) ==
    \E kept \in {ops} \union FreeSlotPicks(ops) :
        LET held(s) == RecTracked(HotTracked(s))
            safe == {o \in kept : ~StaleCreate(o, held(o.slot))}
        IN
        /\ tracked' = [s \in Slots |-> held(s)]
        /\ status' = [s \in Slots |-> RecStatus(HotTracked(s), HotStatus(s))]
        /\ events' = [s \in Slots |-> <<>>]
        /\ latestRec' = {}
        /\ idMap' = idMap \union UNION latestRec
        /\ orphaned' = orphaned
             \union LostToSnapshot({HotTracked(s) : s \in Slots} \ {None})
        /\ batch' = [batch EXCEPT ![n] = safe]
        /\ pc' = [pc EXCEPT ![n] = IF safe = {} THEN Returned(n, box)
                                   ELSE IF LockFreeNow THEN "signing"
                                   ELSE "waiting"]

\* The write gate opens for the paced sender, which only now pulls the ops.
PacedPull ==
    /\ pc[Paced] = "gate" /\ mailbox # {}
    /\ mailbox' = {} /\ mailStale' = FALSE
    /\ EnterBatch(Paced, mailbox, {})
    /\ UNCHANGED <<restSnap, wsUp, wsReady, feed, exch, accepted, home, faults>>

\* The gate denies the slot (long global backoff): the ops are dropped.
PacedDenied ==
    /\ pc[Paced] = "gate" /\ Fault
    /\ mailbox' = {} /\ mailStale' = FALSE
    /\ pc' = [pc EXCEPT ![Paced] = "idle"]
    /\ UNCHANGED <<tracked, status, events, latestRec, idMap, batch, restSnap,
                   wsUp, wsReady, feed, exch, accepted, home, orphaned>>

\* sign_and_send_batch returns without a trace on the slots.
GiveUp(n) ==
    /\ pc' = [pc EXCEPT ![n] = Returned(n, mailbox)]
    /\ batch' = [batch EXCEPT ![n] = {}]

\* The write lock is granted.
AcquireLock(n) ==
    /\ pc[n] = "waiting" /\ LockFree
    /\ pc' = [pc EXCEPT ![n] = "signing"]
    /\ UNCHANGED <<tracked, status, events, latestRec, idMap, mailbox, batch,
                   restSnap, wsUp, wsReady, feed, exch, accepted, home,
                   faults, orphaned, mailStale>>

\* Nothing is sent: a global backoff is in force once the lock is held, or
\* every op fails to sign.
AbortBatch(n) ==
    /\ pc[n] = "signing" /\ Fault
    /\ GiveUp(n)
    /\ UNCHANGED <<tracked, status, events, latestRec, idMap, mailbox,
                   restSnap, wsUp, wsReady, feed, exch, accepted, home,
                   orphaned, mailStale>>

\* Mutant: an unused member of SideStatus is set for cancels too.
MarkedCanceling(ops, s) ==
    IF \E o \in ops : o.slot = s THEN "CANCELING" ELSE status[s]

\* The status of a slot once ops are signed; cancels mark nothing.
Marked(ops, s) ==
    IF \E o \in ops : o.slot = s /\ o.act = "create" THEN "PLACING"
    ELSE IF \E o \in ops : o.slot = s /\ o.act = "modify" THEN "MODIFYING"
    ELSE status[s]

\* Ops that failed to sign are left out; the others are marked in progress
\* on their slots and sent.
Signed(n) ==
    /\ pc[n] = "signing"
    /\ \E ops \in SUBSET batch[n] :
        /\ ops # {}
        /\ IF ops = batch[n] THEN UNCHANGED faults ELSE Fault
        /\ batch' = [batch EXCEPT ![n] = ops]
        /\ status' = [s \in Slots |-> Marked(ops, s)]
    /\ pc' = [pc EXCEPT ![n] = "inflight"]
    /\ UNCHANGED <<tracked, events, latestRec, idMap, mailbox, restSnap, wsUp,
                   wsReady, feed, exch, accepted, home, orphaned, mailStale>>

\* The exchange may refuse a batch with an op for an order it has closed.
TargetsClosed(ops) == \E o \in ops : o.act # "create" /\ exch[o.cid] = "dead"

Accept(n) ==
    /\ pc[n] = "inflight"
    /\ accepted' = accepted \union batch[n]
    /\ pc' = [pc EXCEPT ![n] = "acked"]
    /\ UNCHANGED <<tracked, status, events, latestRec, idMap, mailbox, batch,
                   restSnap, wsUp, wsReady, feed, exch, home, faults,
                   orphaned, mailStale>>

\* The answer is an error, or the request never got there: no slot changes.
Rejected(n) ==
    /\ pc[n] = "inflight"
    /\ IF TargetsClosed(batch[n]) THEN UNCHANGED faults ELSE Fault
    /\ GiveUp(n)
    /\ UNCHANGED <<tracked, status, events, latestRec, idMap, mailbox,
                   restSnap, wsUp, wsReady, feed, exch, accepted, home,
                   orphaned, mailStale>>

\* The exchange took the batch but the answer is lost (timeout, reconnect,
\* then an invalid-nonce error on the retry): the code sees a failure.
AnswerLost(n) ==
    /\ pc[n] = "acked" /\ Fault
    /\ orphaned' = orphaned \union CidsOf(Creates(batch[n]))
    /\ GiveUp(n)
    /\ UNCHANGED <<tracked, status, events, latestRec, idMap, mailbox,
                   restSnap, wsUp, wsReady, feed, exch, accepted, home,
                   mailStale>>

\* Success: a BIND_LIVE for every created and modified order.  A cancelled
\* order stays in its slot until the feed or the reconciler clears it.
Acked(n) ==
    /\ pc[n] = "acked"
    /\ events' = [s \in Slots |->
         IF \E o \in batch[n] : o.slot = s /\ o.act # "cancel"
         THEN Append(events[s], Bind((CHOOSE o \in batch[n] :
                                  o.slot = s /\ o.act # "cancel").cid))
         ELSE events[s]]
    /\ GiveUp(n)
    /\ UNCHANGED <<tracked, status, latestRec, idMap, mailbox, restSnap, wsUp,
                   wsReady, feed, exch, accepted, home, faults, orphaned,
                   mailStale>>

-----------------------------------------------------------------------------
(* The exchange, as the code uses it. *)

\* Each change of an order is announced on the feed while it is subscribed.
Announce(m) ==
    /\ wsUp => Len(feed) < MaxFeed
    /\ feed' = IF wsUp THEN Append(feed, m) ELSE feed

Opened(c) == [live |-> {c}, dead |-> {}]
Closed(c) == [live |-> {}, dead |-> {c}]

\* An accepted op is executed.  A post-only create that would cross is
\* closed at once; an op on an order that is not open does nothing.
Execute(o) ==
    /\ o \in accepted
    /\ accepted' = accepted \ {o}
    /\ \/ /\ o.act = "create"
          /\ \/ /\ exch' = [exch EXCEPT ![o.cid] = "live"]
                /\ Announce(Opened(o.cid))
             \/ /\ exch' = [exch EXCEPT ![o.cid] = "dead"]
                /\ Announce(Closed(o.cid))
       \/ /\ o.act = "modify" /\ exch[o.cid] = "live"
          /\ Announce(Opened(o.cid))
          /\ UNCHANGED exch
       \/ /\ o.act = "cancel" /\ exch[o.cid] = "live"
          /\ exch' = [exch EXCEPT ![o.cid] = "dead"]
          /\ Announce(Closed(o.cid))
       \/ /\ o.act # "create" /\ exch[o.cid] # "live"
          /\ UNCHANGED <<exch, feed>>
    /\ UNCHANGED <<tracked, status, events, latestRec, idMap, mailbox, pc,
                   batch, restSnap, wsUp, wsReady, home, faults, orphaned,
                   mailStale>>

\* An open order is filled, expires or is closed by the exchange.
Fill(c) ==
    /\ exch[c] = "live"
    /\ exch' = [exch EXCEPT ![c] = "dead"]
    /\ Announce(Closed(c))
    /\ UNCHANGED <<tracked, status, events, latestRec, idMap, mailbox, pc,
                   batch, restSnap, wsUp, wsReady, accepted, home, faults,
                   orphaned, mailStale>>

-----------------------------------------------------------------------------
(* The account_orders feed. *)

\* The connection drops; what was not handled is lost.  Only a token refresh
\* (subscribe_to_account_orders) resets the ready flag: a reconnect inside
\* ws_subscribe does not.
FeedLost(refresh) ==
    /\ wsUp /\ Fault
    /\ wsUp' = FALSE /\ feed' = <<>>
    /\ wsReady' = IF refresh THEN FALSE ELSE wsReady
    /\ UNCHANGED <<tracked, status, events, latestRec, idMap, mailbox, pc,
                   batch, restSnap, exch, accepted, home, orphaned, mailStale>>

\* Subscribed again: the first message lists every open order.
FeedSubscribed ==
    /\ ~wsUp
    /\ wsUp' = TRUE /\ feed' = <<[live |-> Live, dead |-> {}]>>
    /\ UNCHANGED <<tracked, status, events, latestRec, idMap, mailbox, pc,
                   batch, restSnap, wsReady, exch, accepted, home, faults,
                   orphaned, mailStale>>

\* Mutant: a death is reported to the slot the order was created for.
DeadAtHome(s, m) == {c \in m.dead : home[c] = s}

\* The orders of a message whose death concerns slot s.
DeadFor(s, m) == {c \in m.dead : c = tracked[s]}

\* on_account_orders_update.  The first message since the flag was reset is
\* a snapshot for the reconciler; any later one only clears the slots whose
\* order it reports dead and binds again the slots whose order it lists.
OnAccountOrders ==
    /\ feed # <<>>
    /\ LET m == Head(feed) IN
        /\ idMap' = idMap \union m.live \union m.dead
        /\ IF ~wsReady
           THEN latestRec' = {m.live} /\ UNCHANGED events
           ELSE /\ UNCHANGED latestRec
                /\ events' = [s \in Slots |->
                     IF DeadFor(s, m) # {}
                     THEN Append(events[s], Clear(CHOOSE c \in DeadFor(s, m) : TRUE))
                     ELSE IF tracked[s] \in m.live
                     THEN Append(events[s], Bind(tracked[s]))
                     ELSE events[s]]
    /\ wsReady' = TRUE
    /\ feed' = Tail(feed)
    /\ UNCHANGED <<tracked, status, mailbox, pc, batch, restSnap, wsUp, exch,
                   accepted, home, faults, orphaned, mailStale>>

-----------------------------------------------------------------------------
(* Reconciliation. *)

\* The exchange answers GET accountActiveOrders with its open orders.  (When
\* the fetch fails nothing changes here, and the task asks again later.)
RestAnswered(r) ==
    /\ pc[r] = "idle" /\ restSnap[r] = {}
    /\ restSnap' = [restSnap EXCEPT ![r] = {Live}]
    /\ UNCHANGED <<tracked, status, events, latestRec, idMap, mailbox, pc,
                   batch, wsUp, wsReady, feed, exch, accepted, home, faults,
                   orphaned, mailStale>>

\* Mutant: orders no slot tracks are left alone.
NoneUnknown(snap) == {}

\* Open orders that no slot tracks at the time of the answer.
Unknown(snap) == snap \ TrackedIds

\* Tracked orders that may have to go because the exposure cap is exceeded.
Surplus(snap) == IF ExposureCap THEN snap \intersect TrackedIds ELSE {}

\* _reconcile_local_orders_with_remote_orders: the snapshot replaces the one
\* waiting to be applied, if any, and unknown and surplus orders are
\* cancelled.  These cancels carry a dummy slot in the code ("buy", 0); no
\* slot depends on it.

ReconcileWith(r, snap, surplus) ==
    LET cancels == Unknown(snap) \union surplus IN
    /\ restSnap' = [restSnap EXCEPT ![r] = {}]
    /\ idMap' = idMap \union snap
    /\ latestRec' = {snap}
    /\ IF cancels = {} THEN UNCHANGED <<pc, batch>>
       ELSE /\ pc' = [pc EXCEPT ![r] = "gate"]
            /\ batch' = [batch EXCEPT ![r] =
                 {[act |-> "cancel", slot |-> home[c], cid |-> c] :
                    c \in cancels}]
    /\ UNCHANGED <<tracked, status, events, mailbox, wsUp, wsReady, feed,
                   exch, accepted, home, faults, orphaned, mailStale>>

Reconcile(r) ==
    \E snap \in restSnap[r] : \E surplus \in SUBSET Surplus(snap) :
        ReconcileWith(r, snap, surplus)

\* The write gate opens for the cancels of a reconciler.
ReconcilerSend(r) ==
    /\ pc[r] = "gate"
    /\ EnterBatch(r, batch[r], mailbox)
    /\ UNCHANGED <<mailbox, mailStale, restSnap, wsUp, wsReady, feed, exch,
                   accepted, home, faults>>

\* The gate denies it: the cancels wait for the next reconciliation.
ReconcilerDenied(r) ==
    /\ pc[r] = "gate" /\ Fault
    /\ GiveUp(r)
    /\ UNCHANGED <<tracked, status, events, latestRec, idMap, mailbox,
                   restSnap, wsUp, wsReady, feed, exch, accepted, home,
                   orphaned, mailStale>>

\* order_state_reconcile_loop applies the snapshot between two steps of the
\* other tasks, without draining the hot events first.
ColdReconcile ==
    /\ latestRec # {}
    /\ tracked' = [s \in Slots |-> RecTracked(tracked[s])]
    /\ status' = [s \in Slots |-> RecStatus(tracked[s], status[s])]
    /\ latestRec' = {}
    /\ idMap' = idMap \union UNION latestRec
    /\ orphaned' = orphaned \union LostToSnapshot(TrackedIds)
    /\ UNCHANGED <<events, mailbox, pc, batch, restSnap, wsUp, wsReady, feed,
                   exch, accepted, home, faults, mailStale>>

\* What order_lifecycle_watchdog_loop looks for before it clears a slot.
WatchdogDue(s) ==
    /\ status[s] = "PLACING"
    /\ tracked[s] # None /\ tracked[s] \notin idMap

-----------------------------------------------------------------------------
(* Startup: no open orders, the feed subscribed, its snapshot unread. *)
Init ==
    /\ tracked = [s \in Slots |-> None]
    /\ status = [s \in Slots |-> "IDLE"]
    /\ events = [s \in Slots |-> <<>>]
    /\ latestRec = {} /\ idMap = {} /\ mailbox = {} /\ mailStale = FALSE
    /\ pc = [n \in Senders |-> "idle"]
    /\ batch = [n \in Senders |-> {}]
    /\ restSnap = [r \in Reconcilers |-> {}]
    /\ wsUp = TRUE /\ wsReady = FALSE
    /\ feed = <<[live |-> {}, dead |-> {}]>>
    /\ exch = [c \in Cids |-> "none"]
    /\ accepted = {} /\ orphaned = {} /\ faults = 0
    /\ home = [c \in Cids |-> None]

Send(n) ==
    \/ AcquireLock(n) \/ AbortBatch(n) \/ Signed(n)
    \/ Accept(n) \/ Rejected(n) \/ AnswerLost(n) \/ Acked(n)

ReconcilerStep(r) ==
    \/ RestAnswered(r) \/ Reconcile(r)
    \/ ReconcilerSend(r) \/ ReconcilerDenied(r)

Next ==
    \/ HotTick \/ PacedPull \/ PacedDenied
    \/ \E n \in Senders : Send(n)
    \/ \E o \in accepted : Execute(o)
    \/ \E c \in Cids : Fill(c)
    \/ \E refresh \in BOOLEAN : FeedLost(refresh)
    \/ FeedSubscribed \/ OnAccountOrders
    \/ \E r \in Reconcilers : ReconcilerStep(r)
    \/ ColdReconcile

Spec == Init /\ [][Next]_vars

\* Every task of the event loop and every accepted op gets its turn; nothing
\* obliges an order to be filled or a failure to happen.  asyncio.Lock wakes
\* its waiters in FIFO order, so a waiter is not passed over for ever.
Fairness ==
    /\ WF_vars(HotTick) /\ WF_vars(PacedPull)
    /\ \A n \in Senders :
        /\ SF_vars(AcquireLock(n)) /\ WF_vars(Signed(n))
        /\ WF_vars(Accept(n) \/ Rejected(n)) /\ WF_vars(Acked(n))
    /\ \A o \in Op : WF_vars(Execute(o))
    /\ WF_vars(FeedSubscribed) /\ WF_vars(OnAccountOrders)
    /\ WF_vars(ColdReconcile)
    /\ \A r \in Reconcilers :
        /\ WF_vars(RestAnswered(r)) /\ WF_vars(Reconcile(r))
        /\ WF_vars(ReconcilerSend(r))

FairSpec == Spec /\ Fairness

-----------------------------------------------------------------------------
(* Properties. *)

\* The type of every variable.
TypeOK ==
    /\ tracked \in [Slots -> Cids \union {None}]
    /\ status \in [Slots -> Status]
    /\ events \in [Slots -> Seq(Event)]
    /\ latestRec \in SUBSET SUBSET Cids
    /\ idMap \in SUBSET Cids
    /\ mailbox \in SUBSET Op
    /\ pc \in [Senders -> PC]
    /\ batch \in [Senders -> SUBSET Op]
    /\ restSnap \in [Reconcilers -> SUBSET SUBSET Cids]
    /\ wsUp \in BOOLEAN /\ wsReady \in BOOLEAN
    /\ feed \in Seq(Message)
    /\ exch \in [Cids -> {"none", "live", "dead"}]
    /\ accepted \in SUBSET Op
    /\ home \in [Cids -> Slots \union {None}]
    /\ faults \in 0..MaxFaults
    /\ orphaned \in SUBSET Cids
    /\ mailStale \in BOOLEAN

\* At most one task is between taking and releasing _sdk_write_lock.
OneWriter ==
    \A m, n \in Senders : HoldsLock(m) /\ HoldsLock(n) => m = n

\* Two open orders are never quoted for one slot, but for an order the bot
\* was made to lose: the answer to its create was lost, or a snapshot taken
\* before it was open cleared its slot (the stale-create guard, the mailbox
\* and the single sender together).
OneQuotePerSlot ==
    \A c, d \in Live \ orphaned : home[c] = home[d] => c = d

\* A CLEAR_LIVE names only a slot.  Whatever is drained before it, the slot
\* then tracks the order whose death was reported, or nothing.
ClearHitsItsOrder ==
    \A s \in Slots : \A i \in DOMAIN events[s] :
        events[s][i].ev = "clear" =>
            LET before == IF i = 1 THEN tracked[s]
                          ELSE IF events[s][i-1].ev = "bind"
                               THEN events[s][i-1].cid ELSE None
            IN  before \in {None, events[s][i].cid}

\* order_lifecycle_watchdog_loop never finds a slot to clear: a slot is
\* PLACING only while it tracks nothing, because the order is bound by an
\* event that also makes the slot LIVE.
WatchdogIdle == \A s \in Slots : ~WatchdogDue(s)

\* A slot lets go of its order before it takes another one.
NoSilentRebind ==
    [][\A s \in Slots :
         tracked[s] # None /\ tracked'[s] # None => tracked'[s] = tracked[s]]_vars

\* The paced sender pulls what the last tick decided (README: "A long pacing
\* wait never sends stale prices").
PullsFreshestDecision ==
    [][pc[Paced] = "gate" /\ mailbox # {} /\ mailbox' = {} => ~mailStale]_vars

\* An order that is closed does not stay in its slot.
ClosedOrderLeavesSlot ==
    \A s \in Slots : \A c \in Cids :
        (tracked[s] = c /\ exch[c] = "dead") ~> tracked[s] # c

\* An open order no slot tracks is tracked or closed in the end.
NoOrderLeftBehind ==
    \A c \in Cids :
        (exch[c] = "live" /\ c \notin TrackedIds)
            ~> (exch[c] # "live" \/ c \in TrackedIds)
=============================================================================
