---------------------------- MODULE AccountFeed ----------------------------
(***************************************************************************)
(* The authenticated account_orders feed: subscribe_to_account_orders,     *)
(* which renews the token and with it the subscription, around             *)
(* ws_subscribe, the loop that connects, receives and connects again; and  *)
(* who trusts the feed: the handler, which takes the first message after a *)
(* reset for the whole list of open orders, and the poller, which looks    *)
(* seldom while the feed is thought healthy.  Messages are well formed.    *)
(*                                                                         *)
(* There is no clock: a token may be due, and the watchdog may fire, at    *)
(* any moment of a connection (both times are settings).  What a message   *)
(* does to the slots is in OrderLifecycle.                                 *)
(***************************************************************************)
EXTENDS Integers, Sequences

CONSTANT MaxWire    \* bound: messages on a connection

ASSUME WireAssumption == MaxWire \in Nat \ {0}

VARIABLES
    outer,      \* subscribe_to_account_orders: start, wait, drain (await inner, after
                \* the token is due), leave (await inner, cancelled), reconcile (await
                \* the REST answer), off (returned), gone (cancelled)
    turn,       \* which of the two ws_subscribe tasks is the one of this token
    task,       \* each of them: none, connect, recv, silent (await the cancelled
                \* recv), close, ending (close, cancelled), backoff
    told,       \* whether it has a cancellation coming
    awire,      \* messages its connection holds
    broken,     \* its connection is closed with an error
    ready,      \* _account_orders_ws_ready and _account_orders_ws_connected
    poller      \* stale_order_reconciler_loop: slow, fast (asleep), fetch

linkOf == <<task, told, awire, broken>>
accountVars == <<outer, turn, task, told, awire, broken, ready, poller>>

Tasks == {0, 1}

AccountInit ==
    /\ outer = "start" /\ turn = 0
    /\ task = [g \in Tasks |-> "none"]
    /\ told = [g \in Tasks |-> FALSE]
    /\ awire = [g \in Tasks |-> <<>>]
    /\ broken = [g \in Tasks |-> FALSE]
    /\ ready = FALSE
    /\ poller = "fast"

-----------------------------------------------------------------------------
(* ws_subscribe.                                                           *)

\* The task goes on at another place, without its connection or with a new one.
GoesTo(g, place, messages) ==
    /\ task' = [task EXCEPT ![g] = place]
    /\ awire' = [awire EXCEPT ![g] = messages]
    /\ broken' = [broken EXCEPT ![g] = FALSE]

Others == UNCHANGED <<outer, turn, poller>>

\* Connected and subscribed: the exchange answers with the list of open orders.
Opened(g) ==
    /\ task[g] = "connect" /\ ~told[g]
    /\ \/ GoesTo(g, "recv", <<"snapshot">>)
       \/ GoesTo(g, "backoff", <<>>)
    /\ UNCHANGED <<told, ready>> /\ Others

\* on_message: the first message since the reset is taken for the whole list.
Hears(g) ==
    /\ task[g] = "recv" /\ ~told[g] /\ awire[g] # <<>>
    /\ awire' = [awire EXCEPT ![g] = Tail(@)]
    /\ ready' = TRUE
    /\ UNCHANGED <<task, told, broken>> /\ Others

\* recv raises what closed the connection, once its messages are read.
Disconnected(g) ==
    /\ task[g] = "recv" /\ ~told[g] /\ broken[g] /\ awire[g] = <<>>
    /\ GoesTo(g, "backoff", <<>>)
    /\ UNCHANGED <<told, ready>> /\ Others

\* Nothing for recv_timeout: the receive is cancelled and awaited, the connection
\* closed, and the next one made without a pause.
WatchdogFires(g) ==
    /\ task[g] = "recv" /\ ~told[g] /\ ~broken[g] /\ awire[g] = <<>>
    /\ GoesTo(g, "silent", <<>>)
    /\ UNCHANGED <<told, ready>> /\ Others

Resumes(g) ==
    /\ ~told[g]
    /\ \/ task[g] = "silent" /\ GoesTo(g, "close", <<>>)
       \/ task[g] \in {"close", "backoff"} /\ GoesTo(g, "connect", <<>>)
       \/ task[g] = "ending" /\ GoesTo(g, "none", <<>>)
    /\ UNCHANGED <<told, ready>> /\ Others

\* A cancellation arrives where the task waits.  It ends the task, with a handshake
\* if there is a connection; but it is lost when _cancel_and_drain awaits a receive
\* that was cancelled itself, or one that has just failed: then the loop goes on.
CancelArrives(g) ==
    /\ told[g] /\ told' = [told EXCEPT ![g] = FALSE]
    /\ \/ task[g] \in {"connect", "backoff", "close", "ending"} /\ GoesTo(g, "none", <<>>)
       \/ task[g] = "recv" /\ GoesTo(g, "ending", <<>>)
       \/ task[g] = "recv" /\ broken[g] /\ awire[g] = <<>> /\ GoesTo(g, "backoff", <<>>)
       \/ task[g] = "silent" /\ GoesTo(g, "close", <<>>)
    /\ UNCHANGED ready /\ Others

\* External: an order changes, and the connection, if there is one, says so.
OrderChanges(g) ==
    /\ task[g] = "recv" /\ ~broken[g] /\ Len(awire[g]) < MaxWire
    /\ awire' = [awire EXCEPT ![g] = Append(@, "update")]
    /\ UNCHANGED <<task, told, broken, ready>> /\ Others

Breaks(g) ==
    /\ task[g] = "recv" /\ ~broken[g]
    /\ broken' = [broken EXCEPT ![g] = TRUE]
    /\ UNCHANGED <<task, told, awire, ready>> /\ Others

-----------------------------------------------------------------------------
(* subscribe_to_account_orders.                                            *)

\* A token is made, the flags are reset, a new task begins; or there is no token,
\* and the feed is given up with its flags as they are.
Renew ==
    \/ /\ outer' = "wait" /\ turn' = 1 - turn
       /\ ready' = FALSE
       /\ task' = [task EXCEPT ![1 - turn] = "connect"]
       /\ UNCHANGED <<told, awire, broken>>
    \/ outer' = "off" /\ UNCHANGED <<turn, ready, linkOf>>

Start == outer = "start" /\ Renew /\ UNCHANGED poller

\* The token is due (to: drain), or main cancels the task (to: leave).
StopTask(to) ==
    /\ outer = "wait"
    /\ outer' = to /\ told' = [told EXCEPT ![turn] = TRUE]
    /\ UNCHANGED <<turn, task, awire, broken, ready, poller>>

\* Mutant: the task is cancelled and not waited for.
NotAwaited(g) == TRUE

\* await inner
Drained(g) == task[g] = "none"

\* The reconciliation that follows runs with the flags of the feed just closed.
TaskEnded ==
    /\ outer \in {"drain", "leave"} /\ Drained(turn)
    /\ outer' = IF outer = "drain" THEN "reconcile" ELSE "gone"
    /\ UNCHANGED <<turn, linkOf, ready, poller>>

RefreshReconciled == outer = "reconcile" /\ Renew /\ UNCHANGED poller

\* main cancels, once or again.  A task that awaits the inner one passes the
\* cancellation on to it, and after a refresh takes it for its own doing.
MainCancels ==
    \/ StopTask("leave")
    \/ /\ outer \in {"drain", "leave"} /\ task[turn] # "none"
       /\ told' = [told EXCEPT ![turn] = TRUE]
       /\ UNCHANGED <<outer, turn, task, awire, broken, ready, poller>>
    \/ /\ outer \in {"start", "reconcile"}
       /\ outer' = "gone"
       /\ UNCHANGED <<turn, linkOf, ready, poller>>

-----------------------------------------------------------------------------
(* stale_order_reconciler_loop.                                            *)

Polls ==
    /\ poller' = IF poller # "fetch" THEN "fetch" ELSE IF ready THEN "slow" ELSE "fast"
    /\ UNCHANGED <<outer, turn, linkOf, ready>>

-----------------------------------------------------------------------------

AccountNext ==
    \/ \E g \in Tasks :
        \/ Opened(g) \/ Hears(g) \/ Disconnected(g) \/ WatchdogFires(g)
        \/ Resumes(g) \/ CancelArrives(g) \/ OrderChanges(g) \/ Breaks(g)
    \/ Start \/ StopTask("drain") \/ TaskEnded \/ RefreshReconciled
    \/ MainCancels
    \/ Polls

AccountSpec == AccountInit /\ [][AccountNext]_accountVars

-----------------------------------------------------------------------------
(* Properties. *)

\* The message that is taken for the whole list of open orders, so that every slot
\* it leaves out is cleared, is one: no update of an earlier subscription, or of a
\* task that was to end, comes first after the flags are reset.
SnapshotIsWhole ==
    [][\A g \in Tasks : ~ready /\ Hears(g) => Head(awire[g]) = "snapshot"]_accountVars

\* "falling back to the fast interval (3s) when WS auth is down"
\* (market_maker_v2.py:2807): without the feed the poller does not look seldom.
SlowNeedsFeed == [][poller = "fetch" /\ poller' = "slow" => outer # "off"]_accountVars
=============================================================================
