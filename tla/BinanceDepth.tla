---------------------------- MODULE BinanceDepth ----------------------------
(***************************************************************************)
(* binance_obi.py: the diff-depth client with its snapshot alignment and   *)
(* resync, the alpha it publishes for the quoting path, and the bookTicker *)
(* client beside it.                                                       *)
(*                                                                         *)
(* An event [U, u] carries the changes U..u; the final id of the event     *)
(* before it (pu) is U - 1.  Prices, sizes and the z-score behind alpha    *)
(* are left out: what matters of alpha is how many samples are in it, of   *)
(* which book, and how old the last one is.                                *)
(***************************************************************************)
EXTENDS BookContent

CONSTANTS
    MinSamples,     \* min_samples of SharedAlpha and SharedBBO
    MaxChanges,     \* bound: changes of the exchange's book
    MaxSpan,        \* bound: changes in one event
    MaxLag,         \* bound: how far a REST snapshot lags behind
    MaxDepthFaults  \* bound: lost events, broken connections, failed fetches

ASSUME DepthAssumption ==
    /\ MinSamples \in Nat \ {0}
    /\ {MaxChanges, MaxSpan, MaxLag, MaxDepthFaults} \subseteq Nat

VARIABLES
    dlog,       \* external: the exchange's changes
    dwire,      \* events sent on the connection and not received yet
    phase,      \* where BinanceDiffDepthClient.run is
    taking,     \* _buffer_events is still receiving
    buffer,     \* the events it kept
    snap,       \* lastUpdateId of the REST snapshot in hand
    dbook,      \* _bids, _asks
    lastId,     \* _last_update_id
    prevU,      \* _prev_u
    blind,      \* history: changes were missed where the client does not look
    alpha,      \* SharedAlpha: samples (up to MinSamples), age of the last
    fed,        \* history: events taken live since the book was loaded
    ticker,     \* BinanceBookTickerClient: connected, SharedBBO samples
    dfaults     \* failures so far

book == <<dbook, lastId, prevU, blind>>
link == <<dwire, phase, taking, buffer, snap>>
depthVars == <<dlog, dwire, phase, taking, buffer, snap, dbook, lastId, prevU,
               blind, alpha, fed, ticker, dfaults>>

NoAlpha == [n |-> 0, age |-> "none"]
Ids(e) == e.U..e.u
IdsOf(es) == UNION {Ids(es[i]) : i \in DOMAIN es}
DFault == dfaults < MaxDepthFaults /\ dfaults' = dfaults + 1

DepthInit ==
    /\ dlog = <<>> /\ dwire = <<>> /\ buffer = <<>>
    /\ phase = "down" /\ taking = FALSE /\ snap = 0
    /\ dbook = Empty /\ lastId = 0 /\ prevU = 0 /\ blind = FALSE
    /\ alpha = NoAlpha /\ fed = 0
    /\ ticker = [up |-> FALSE, n |-> 0]
    /\ dfaults = 0

-----------------------------------------------------------------------------
(* External: the exchange publishes an event, on the connection if there   *)
(* is one; the stream may skip it.                                         *)

Publish(sides, lost) ==
    LET e == [U |-> Len(dlog) + 1, u |-> Len(dlog) + Len(sides)]
    IN  /\ e.u <= MaxChanges
        /\ dlog' = dlog \o sides
        /\ dwire' = IF lost \/ phase \in {"down", "ended"} THEN dwire
                    ELSE Append(dwire, e)
        /\ IF lost THEN DFault ELSE UNCHANGED dfaults
        /\ UNCHANGED <<phase, taking, buffer, snap, book, alpha, fed, ticker>>

-----------------------------------------------------------------------------
(* The connection: reset, buffer, fetch a snapshot, align, go live.        *)

\* Mutant: _reset forgets the shared alpha.
KeepAlpha == UNCHANGED alpha

ResetAlpha == alpha' = NoAlpha

\* _reset, on the way out of a connection and into the next.
Reset(next) ==
    /\ phase' = next
    /\ dwire' = <<>> /\ buffer' = <<>> /\ taking' = FALSE /\ snap' = 0
    /\ dbook' = Empty /\ lastId' = 0 /\ prevU' = 0 /\ blind' = FALSE
    /\ fed' = 0
    /\ ResetAlpha

Connect ==
    /\ phase = "down"
    /\ phase' = "buffering" /\ taking' = TRUE
    /\ UNCHANGED <<dlog, dwire, buffer, snap, book, alpha, fed, ticker, dfaults>>

\* _buffer_events keeps events while there is no snapshot; the receive it is
\* in when the snapshot comes may still give it one more.
Buffer ==
    /\ taking /\ dwire # <<>>
    /\ buffer' = Append(buffer, Head(dwire))
    /\ dwire' = Tail(dwire)
    /\ taking' = (phase = "buffering")
    /\ UNCHANGED <<dlog, phase, snap, book, alpha, fed, ticker, dfaults>>

\* 30 seconds without an event end the buffering, not the fetch.
BufferTimeout ==
    /\ taking /\ phase = "buffering" /\ dwire = <<>>
    /\ taking' = FALSE
    /\ UNCHANGED <<dlog, dwire, phase, buffer, snap, book, alpha, fed, ticker,
                   dfaults>>

\* The REST server answers from a book that may be some changes old.
SnapshotAnswered(n) ==
    /\ phase = "buffering"
    /\ n \in (Len(dlog) - MaxLag)..Len(dlog) /\ n >= 0
    /\ snap' = n
    /\ phase' = "settling"
    /\ UNCHANGED <<dlog, dwire, taking, buffer, book, alpha, fed, ticker, dfaults>>

DepthAnswered == \E n \in 0..MaxChanges : SnapshotAnswered(n)

\* The except branch breaks out of the outer loop: run() returns.
SnapshotFailed ==
    /\ phase = "buffering"
    /\ DFault
    /\ phase' = "ended" /\ taking' = FALSE /\ buffer' = <<>> /\ dwire' = <<>>
    /\ UNCHANGED <<dlog, snap, book, alpha, fed, ticker>>

\* Mutant: the alignment takes the first event that is not wholly old.
AnyNewer(e, n) == e.u >= n + 1

\* The first buffered event that joins on to the snapshot, and those after it.
JoinsOn(e, n) == e.U <= n + 1 /\ e.u >= n + 1

FromFirst ==
    LET good == {i \in DOMAIN buffer : JoinsOn(buffer[i], snap)}
    IN  IF good = {} THEN <<>> ELSE SubSeq(buffer, Min(good), Len(buffer))

Contiguous(es) == \A i \in 2..Len(es) : es[i].U = es[i - 1].u + 1

\* Mutant: an alignment that finds nothing waits in place.
StillSettling == UNCHANGED <<link, book, alpha, fed>>

Realign == Reset("down")

\* After the pause of 0.1 s: apply the snapshot and drain the buffer, or
\* connect again when nothing in the buffer joins on to it.
Align ==
    /\ phase = "settling"
    /\ IF buffer # <<>> /\ FromFirst = <<>> THEN Realign
       ELSE /\ phase' = "live" /\ taking' = FALSE /\ buffer' = <<>> /\ snap' = 0
            /\ dbook' = Overwrite(BookAt(dlog, snap), dlog, IdsOf(FromFirst))
            /\ lastId' = snap
            /\ prevU' = IF FromFirst = <<>> THEN 0 ELSE Last(FromFirst).u
            /\ blind' = ~Contiguous(FromFirst)
            /\ UNCHANGED <<dwire, alpha, fed>>
    /\ UNCHANGED <<dlog, ticker, dfaults>>

\* Mutant: the check on pu is left out.
AnySequence(e) == TRUE

InSequence(e) == prevU = 0 \/ e.U - 1 = prevU

\* Mutant: the ring counts every sample it was ever given.
EverySample(n) == n + 1

\* The ring of SharedAlpha is full at min_samples, as far as anyone asks.
OneMore(n) == Min({n + 1, MinSamples})

\* _update_alpha, when both sides of the new book have levels.
Sampled ==
    alpha' = IF TwoSided(dbook')
             THEN [n |-> OneMore(alpha.n), age |-> "fresh"]
             ELSE alpha

\* The live loop: a gap breaks the connection, any other event is applied.
\* With no event applied yet (prevU = 0) pu is not looked at.
Receive ==
    /\ phase = "live" /\ dwire # <<>>
    /\ LET e == Head(dwire)
       IN  IF ~InSequence(e) THEN Reset("down")
           ELSE /\ dbook' = Overwrite(dbook, dlog, Ids(e))
                /\ prevU' = e.u
                /\ blind' = (blind \/ (prevU = 0 /\ e.U > lastId + 1))
                /\ dwire' = Tail(dwire)
                /\ fed' = OneMore(fed)
                /\ Sampled
                /\ UNCHANGED <<phase, taking, buffer, snap, lastId>>
    /\ UNCHANGED <<dlog, ticker, dfaults>>

\* 30 seconds without an event.
LiveTimeout ==
    /\ phase = "live" /\ dwire = <<>>
    /\ Reset("down")
    /\ UNCHANGED <<dlog, ticker, dfaults>>

Broken ==
    /\ phase \in {"buffering", "settling", "live"}
    /\ DFault
    /\ Reset("down")
    /\ UNCHANGED <<dlog, ticker>>

\* The threshold of is_stale passes without a sample.
AlphaAges ==
    /\ alpha.age = "fresh"
    /\ alpha' = [alpha EXCEPT !.age = "old"]
    /\ UNCHANGED <<dlog, link, book, fed, ticker, dfaults>>

-----------------------------------------------------------------------------
(* BinanceBookTickerClient: connect, publish valid quotes, reset on a      *)
(* break.                                                                  *)

TickerStep(next) ==
    /\ ticker' = next
    /\ UNCHANGED <<dlog, link, book, alpha, fed, dfaults>>

TickerConnect == ~ticker.up /\ TickerStep([ticker EXCEPT !.up = TRUE])

TickerQuote ==
    ticker.up /\ TickerStep([ticker EXCEPT !.n = OneMore(@)])

TickerBreak == ticker.up /\ TickerStep([up |-> FALSE, n |-> 0])

-----------------------------------------------------------------------------

DepthNext ==
    \/ \E n \in 1..MaxSpan, lost \in BOOLEAN :
           \E sides \in [1..n -> Sides] : Publish(sides, lost)
    \/ Connect \/ Buffer \/ BufferTimeout
    \/ DepthAnswered \/ SnapshotFailed \/ Align \/ Receive \/ LiveTimeout \/ Broken \/ AlphaAges
    \/ TickerConnect \/ TickerQuote \/ TickerBreak

DepthSpec == DepthInit /\ [][DepthNext]_depthVars

\* The client's own steps, and an answer to a REST request.
DepthFairness ==
    WF_depthVars(Connect) /\ WF_depthVars(DepthAnswered) /\ WF_depthVars(Align)

-----------------------------------------------------------------------------
(* Properties. *)

DepthTypeOK ==
    /\ dlog \in Seq(Sides) /\ Len(dlog) <= MaxChanges
    /\ \A i \in DOMAIN dwire : Ids(dwire[i]) \subseteq 1..Len(dlog)
    /\ \A i \in DOMAIN buffer : Ids(buffer[i]) \subseteq 1..Len(dlog)
    /\ phase \in {"down", "buffering", "settling", "live", "ended"}
    /\ {taking, blind, ticker.up} \subseteq BOOLEAN
    /\ dbook \in [Sides -> 0..Len(dlog)]
    /\ {snap, lastId, prevU} \subseteq 0..Len(dlog)
    /\ alpha \in [n : 0..MinSamples, age : {"none", "fresh", "old"}]
    /\ {fed, ticker.n} \subseteq 0..MinSamples
    /\ dfaults \in 0..MaxDepthFaults

\* The quoting path takes alpha only when it is warmed up and not stale.
AlphaUsable == alpha.n = MinSamples /\ alpha.age = "fresh"

\* A first live event older than the snapshot takes some levels back; the
\* book is right again once the events have caught up with the snapshot.
CaughtUp == prevU = 0 \/ prevU >= lastId

DepthUsed == phase = "live" /\ ~blind /\ CaughtUp

DepthReplica == INSTANCE BookReplica WITH
    log <- dlog,
    used <- DepthUsed,
    pos <- IF ~DepthUsed THEN 0 ELSE IF prevU = 0 THEN lastId ELSE prevU,
    copy <- IF DepthUsed THEN dbook ELSE Empty

\* The client implements BookReplica: its live book is the exchange's at a
\* moment that only moves forward, whatever was buffered, lost or resent
\* (binance_obi.py:270: align on lastUpdateId, validate pu on each event).
\* Two blind spots excepted: changes missing inside a drained buffer, and a
\* first live event that does not join on to a snapshot drained with nothing.
DepthIsReplica == DepthReplica!Spec

\* The samples behind a published alpha, and behind a published BBO, were all
\* taken on the connection that is up now: a reset forgets them, so nothing
\* computed from a book that was dropped is still counted as warmed up.
AlphaOfThisBook ==
    /\ alpha.n <= fed
    /\ ticker.n > 0 => ticker.up

\* The handshake cannot get stuck: once the exchange is quiet the client goes
\* live, or its task has ended.  (A busy exchange may keep it from aligning
\* for ever: every snapshot may be older or newer than the buffer.)
QuietBookSyncs ==
    (Len(dlog) = MaxChanges) ~> (phase \in {"live", "ended"})
=============================================================================
