------------------------------ MODULE BookFeed ------------------------------
(***************************************************************************)
(* The Lighter order book: on_order_book_update with its offset check, the *)
(* subscription loop ws_subscribe_fast that feeds it, the loop's health    *)
(* check, and periodic_orderbook_sanity_check, which compares the book     *)
(* with the ticker feed or with a REST answer and asks for a reconnect.    *)
(*                                                                         *)
(* A message carries the number of the last change in it as its offset.    *)
(* Prices are left out: two books differ when their sides were last        *)
(* changed by different changes, and a difference is a divergence.         *)
(***************************************************************************)
EXTENDS BookContent

CONSTANTS
    MaxFeedChanges,  \* bound: changes of the exchange's book
    MaxFeedFaults    \* bound: lost, repeated or malformed messages, breaks

ASSUME FeedAssumption == {MaxFeedChanges, MaxFeedFaults} \subseteq Nat

NoOffset == -1

VARIABLES
    flog,       \* external: the exchange's changes
    fwire,      \* messages on the connection, not yet received
    up,         \* the order_book connection is established
    grace,      \* within reconnect_grace of the connect
    request,    \* ws_reconnect_event
    ob,         \* local_order_book: initialized, last_offset, both sides
    mid,        \* mid_price is set
    healthy,    \* ws_connection_healthy
    recent,     \* last_order_book_update is younger than WS_RECV_TIMEOUT
    missed,     \* history: since the last snapshot the book took a delta that
                \* does not join on to it, or a part of one
    tick,       \* ticker feed: the top of book it last gave, still recent
    sanity,     \* the sanity check: the tops it compares with a REST answer
    ffaults     \* failures so far

feedLink == <<fwire, up, grace, request>>
feedBook == <<ob, mid, healthy, recent, missed>>
feedVars == <<flog, fwire, up, grace, request, ob, mid, healthy, recent,
              missed, tick, sanity, ffaults>>

NoBook == [init |-> FALSE, off |-> NoOffset, sides |-> Empty]
FFault == ffaults < MaxFeedFaults /\ ffaults' = ffaults + 1
Current == BookAt(flog, Len(flog))

Snapshot(n) == [snap |-> TRUE, from |-> 1, off |-> n]
Delta(a, b) == [snap |-> FALSE, from |-> a, off |-> b]

FeedInit ==
    /\ flog = <<>> /\ fwire = <<>>
    /\ up = FALSE /\ grace = FALSE /\ request = FALSE
    /\ ob = NoBook /\ mid = FALSE /\ missed = FALSE
    /\ healthy = FALSE /\ recent = TRUE
    /\ tick = [book |-> Empty, recent |-> FALSE]
    /\ sanity = {}
    /\ ffaults = 0

-----------------------------------------------------------------------------
(* External: the exchange and what it sends.  The answer to the            *)
(* subscription is a snapshot, and so is a refresh; deltas may be lost, or *)
(* sent again.                                                             *)

FeedPublish(side, lost) ==
    LET n == Len(flog) + 1
    IN  /\ n <= MaxFeedChanges
        /\ flog' = Append(flog, side)
        /\ fwire' = IF up /\ ~lost THEN Append(fwire, Delta(n, n)) ELSE fwire
        /\ IF lost THEN up /\ FFault ELSE UNCHANGED ffaults
        /\ UNCHANGED <<up, grace, request, feedBook, tick, sanity>>

Refresh ==
    /\ up /\ fwire = <<>>
    /\ fwire' = <<Snapshot(Len(flog))>>
    /\ UNCHANGED <<flog, up, grace, request, feedBook, tick, sanity, ffaults>>

Repeat(n) ==
    /\ up /\ FFault /\ n \in 1..Len(flog)
    /\ fwire' = Append(fwire, Delta(n, n))
    /\ UNCHANGED <<flog, up, grace, request, feedBook, tick, sanity>>

\* The ticker feed gives the exchange's best prices; it may fall silent.
Ticker ==
    /\ tick' = [book |-> Current, recent |-> TRUE]
    /\ UNCHANGED <<flog, feedLink, feedBook, sanity, ffaults>>

TickerSilent ==
    /\ tick.recent
    /\ tick' = [tick EXCEPT !.recent = FALSE]
    /\ UNCHANGED <<flog, feedLink, feedBook, sanity, ffaults>>

-----------------------------------------------------------------------------
(* on_order_book_update.                                                   *)

\* Mutant: the offset of a delta is not looked at.
NeverOld(m) == FALSE

\* A delta that does not advance is skipped.
Old(m) == ~m.snap /\ ob.init /\ ob.off # NoOffset /\ m.off <= ob.off

\* The first message of a connection is a snapshot whatever its type.
Applied(m) ==
    IF m.snap \/ ~ob.init THEN Overwrite(Empty, flog, m.from..m.off)
    ELSE Overwrite(ob.sides, flog, m.from..m.off)

\* Mutant: the offset counts messages.
CountedOffset(m) == ob.off + 1

NewOffset(m) == m.off

Updated(m) ==
    IF Old(m) THEN UNCHANGED feedBook
    ELSE /\ ob' = [init |-> TRUE, off |-> NewOffset(m), sides |-> Applied(m)]
         /\ mid' = TwoSided(ob'.sides)
         /\ healthy' = TRUE /\ recent' = TRUE
         /\ missed' = (~m.snap /\ (missed \/ m.from > ob.off + 1))

\* A message with a level that does not parse: the offset is taken, one side
\* may be written already, and the handler reports the connection unhealthy.
Malformed(m, side) ==
    /\ ob' = [ob EXCEPT !.off = IF Old(m) THEN @ ELSE m.off,
                        !.sides[side] = IF Old(m) THEN @ ELSE Applied(m)[side]]
    /\ healthy' = (healthy /\ Old(m))
    /\ missed' = (missed \/ ~Old(m))
    /\ UNCHANGED <<mid, recent>>

-----------------------------------------------------------------------------
(* ws_subscribe_fast.                                                      *)

\* Mutant: a disconnect leaves the mid price in place.
MidKept == UNCHANGED mid

MidDropped == mid' = FALSE

\* _on_disconnect.
Disconnect ==
    /\ up' = FALSE /\ grace' = FALSE /\ fwire' = <<>>
    /\ ob' = NoBook /\ MidDropped /\ missed' = FALSE
    /\ healthy' = FALSE
    /\ UNCHANGED recent

\* A request made while there was no connection is answered by connecting.
FeedConnect ==
    /\ ~up
    /\ up' = TRUE /\ grace' = TRUE /\ request' = FALSE
    /\ fwire' = <<Snapshot(Len(flog))>>
    /\ healthy' = TRUE
    /\ UNCHANGED <<flog, ob, mid, recent, missed, tick, sanity, ffaults>>

\* Mutant: a reconnect request is never served.
NotServed == FALSE

\* Mutant: a fresh connection is not spared.
NoGrace == request

\* The event is looked at before each receive, that is after each message.
\* On a fresh connection it is only cleared.
Served == request /\ ~grace

\* One turn of the receive loop: the message, then the event.
FeedReceive ==
    /\ up /\ fwire # <<>>
    /\ \/ ~Served /\ Updated(Head(fwire)) /\ UNCHANGED ffaults
       \/ ~Served /\ FFault /\ \E s \in Sides : Malformed(Head(fwire), s)
       \/ Served /\ Disconnect /\ UNCHANGED ffaults
    /\ IF Served THEN TRUE ELSE fwire' = Tail(fwire) /\ UNCHANGED <<up, grace>>
    /\ request' = FALSE
    /\ UNCHANGED <<flog, tick, sanity>>

\* A ping, or a message of another type: only the event is looked at.
FeedPing ==
    /\ up /\ request
    /\ request' = FALSE
    /\ IF Served THEN Disconnect
       ELSE UNCHANGED <<fwire, up, grace, feedBook>>
    /\ UNCHANGED <<flog, tick, sanity, ffaults>>

\* recv_timeout without a message, or (a failure) the connection closes.
FeedDown ==
    /\ up
    /\ \/ fwire = <<>> /\ ~recent /\ UNCHANGED ffaults
       \/ FFault
    /\ Disconnect
    /\ UNCHANGED <<flog, request, tick, sanity>>

\* The subscription is answered within reconnect_grace (an assumption on the
\* exchange: otherwise a request made before the answer drops the connection
\* with the answer, again and again).
GraceOver ==
    /\ grace /\ ob.off # NoOffset
    /\ grace' = FALSE
    /\ UNCHANGED <<flog, fwire, up, request, feedBook, tick, sanity, ffaults>>

BookAges ==
    /\ recent /\ fwire = <<>>
    /\ recent' = FALSE
    /\ UNCHANGED <<flog, feedLink, ob, mid, healthy, missed, tick, sanity, ffaults>>

-----------------------------------------------------------------------------
(* Who asks for a reconnect.                                               *)

Ask(b) == request' = (request \/ b)

\* check_websocket_health, as the quoting loop uses it.
Quotable == healthy /\ recent /\ mid

HealthCheck ==
    /\ ~Quotable /\ ~request
    /\ Ask(TRUE)
    /\ UNCHANGED <<flog, fwire, up, grace, feedBook, tick, sanity, ffaults>>

Checkable == sanity = {} /\ ob.init /\ TwoSided(ob.sides)

\* Mutant: no difference is a divergence.
NoDivergence(b, c) == FALSE

Diverges(b, c) == b # c

SanityByTicker ==
    /\ Checkable /\ tick.recent
    /\ Ask(Diverges(ob.sides, tick.book))
    /\ UNCHANGED <<flog, fwire, up, grace, feedBook, tick, sanity, ffaults>>

\* Without a recent ticker the tops are kept and a REST answer is awaited.
SanityFetch ==
    /\ Checkable /\ ~tick.recent
    /\ sanity' = {ob.sides}
    /\ UNCHANGED <<flog, feedLink, feedBook, tick, ffaults>>

SanityAnswered ==
    /\ \E b \in sanity : Ask(Diverges(b, Current))
    /\ sanity' = {}
    /\ UNCHANGED <<flog, fwire, up, grace, feedBook, tick, ffaults>>

\* A failed fetch counts as a divergence.
SanityFetchFailed ==
    /\ sanity # {} /\ FFault
    /\ Ask(TRUE) /\ sanity' = {}
    /\ UNCHANGED <<flog, fwire, up, grace, feedBook, tick>>

-----------------------------------------------------------------------------

FeedNext ==
    \/ \E s \in Sides, lost \in BOOLEAN : FeedPublish(s, lost)
    \/ Refresh \/ Ticker \/ TickerSilent
    \/ \E n \in 1..MaxFeedChanges : Repeat(n)
    \/ FeedConnect \/ FeedReceive \/ FeedPing \/ FeedDown \/ GraceOver \/ BookAges
    \/ HealthCheck
    \/ SanityByTicker \/ SanityFetch \/ SanityAnswered \/ SanityFetchFailed

FeedSpec == FeedInit /\ [][FeedNext]_feedVars

\* The tasks wake on their timers; the exchange pings; the ticker either goes
\* on giving its prices or is silent long enough to be called old.
FeedFairness ==
    /\ WF_feedVars(FeedConnect) /\ WF_feedVars(FeedReceive)
    /\ WF_feedVars(FeedPing) /\ WF_feedVars(GraceOver)
    /\ WF_feedVars(Ticker \/ TickerSilent) /\ WF_feedVars(HealthCheck)
    /\ WF_feedVars(SanityByTicker \/ SanityFetch) /\ WF_feedVars(SanityAnswered)

-----------------------------------------------------------------------------
(* Properties. *)

FeedTypeOK ==
    /\ flog \in Seq(Sides) /\ Len(flog) <= MaxFeedChanges
    /\ \A i \in DOMAIN fwire : fwire[i].off <= Len(flog)
    /\ {up, grace, request, mid, healthy, recent, missed} \subseteq BOOLEAN
    /\ ob.init \in BOOLEAN /\ ob.off \in NoOffset..Len(flog)
    /\ ob.sides \in [Sides -> 0..Len(flog)]
    /\ tick.book \in [Sides -> 0..Len(flog)] /\ tick.recent \in BOOLEAN
    /\ \A b \in sanity : b \in [Sides -> 0..Len(flog)]
    /\ ffaults \in 0..MaxFeedFaults

FeedUsed == ob.init /\ ~missed

FeedReplica == INSTANCE BookReplica WITH
    log <- flog,
    used <- FeedUsed,
    pos <- IF FeedUsed THEN ob.off ELSE 0,
    copy <- IF FeedUsed THEN ob.sides ELSE Empty

\* The handler implements BookReplica: as long as no delta was lost and none
\* was half applied, the local book is the exchange's at its offset, and the
\* offset only grows (market_maker_v2.py:2850, a delta that does not advance
\* would corrupt the book).
FeedIsReplica == FeedReplica!Spec

\* The quoting loop never finds the feed in order (check_websocket_health)
\* with a book of a connection that is gone, an empty one or a one-sided one.
QuotedBookIsThere ==
    Quotable => up /\ ob.init /\ TwoSided(ob.sides)

\* A book that is behind the exchange with nothing on its way, a delta having
\* been lost, does not stay: a later change overwrites it, or the comparison
\* with the ticker, or with REST when the ticker is silent, drops it.
Behind == ob.init /\ TwoSided(ob.sides) /\ fwire = <<>> /\ ob.sides # Current

WrongBookIsDropped == Behind ~> ~Behind

\* A reconnect that was asked for is dealt with, and there is a book again
\* after it: the requests of the quoting loop, which go on for as long as it
\* has no book, do not keep the feed from getting one.
BookComesBack == request ~> (ob.init /\ ~request)
=============================================================================
