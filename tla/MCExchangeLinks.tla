--------------------------- MODULE MCExchangeLinks ---------------------------
(* TLC instance of what the program keeps in step with the exchanges: the   *)
(* two local order books, the feed of its own orders, and the channel its   *)
(* batches go out by.  They share no state, so one behaviour runs one of    *)
(* them, and part says which: the states are the sum of theirs and not the  *)
(* product.  A part that does not run owes nothing.                         *)
EXTENDS BinanceDepth, BookFeed, TxChannel, AccountFeed

VARIABLE part
linkVars == <<depthVars, feedVars, txVars, accountVars, part>>

Binance == part = "binance"
Lighter == part = "lighter"
Channel == part = "channel"
Account == part = "account"

LinksInit ==
    /\ DepthInit /\ FeedInit /\ TxInit /\ AccountInit
    /\ part \in {"binance", "lighter", "channel", "account"}

LinksSpec ==
    /\ LinksInit
    /\ [][\/ Binance /\ DepthNext /\ UNCHANGED <<feedVars, txVars, accountVars, part>>
          \/ Lighter /\ FeedNext /\ UNCHANGED <<depthVars, txVars, accountVars, part>>
          \/ Channel /\ TxNext /\ UNCHANGED <<depthVars, feedVars, accountVars, part>>
          \/ Account /\ AccountNext /\ UNCHANGED <<depthVars, feedVars, txVars, part>>]_linkVars
    /\ WF_depthVars(Binance /\ Connect)
    /\ WF_depthVars(Binance /\ DepthAnswered)
    /\ WF_depthVars(Binance /\ Align)
    /\ WF_feedVars(Lighter /\ FeedConnect)
    /\ WF_feedVars(Lighter /\ FeedReceive)
    /\ WF_feedVars(Lighter /\ FeedPing)
    /\ WF_feedVars(Lighter /\ GraceOver)
    /\ WF_feedVars(Lighter /\ (Ticker \/ TickerSilent))
    /\ WF_feedVars(Lighter /\ HealthCheck)
    /\ WF_feedVars(Lighter /\ (SanityByTicker \/ SanityFetch))
    /\ WF_feedVars(Lighter /\ SanityAnswered)
    /\ WF_txVars(Channel /\ Executed)
    /\ WF_txVars(Channel /\ AnswerTimeout)
    /\ WF_txVars(Channel /\ TakeLost)
    /\ WF_txVars(Channel /\ Signs)
    /\ WF_txVars(Channel /\ TakeAnswer)
    /\ WF_txVars(Channel /\ RestSends)
    /\ WF_txVars(Channel /\ WarmupReconnect)
=============================================================================
