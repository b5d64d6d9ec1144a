---------------------------- MODULE MCQuoteParts ----------------------------
(* TLC instance of the parts behind the quotes: what they are computed from *)
(* (a side of the book, the windows, the trade flow, the markouts of the    *)
(* fills), the way their prices take through a tick, the engine that fills  *)
(* them in a dry run, the grid of such engines, and the research files.     *)
(* They share no state here: one behaviour runs one of them, and which says *)
(* which.                                                                   *)
EXTENDS DryRun, BookSide, VolObi, TradeFlow, LiveMetrics, QuotePrices, Grid, ResearchLog

VARIABLE which
estimateVars == <<volVars, flowVars, metricsVars, priceVars>>
simVars == <<dryVars, gridVars, researchVars>>
quoteVars == <<sideVars, estimateVars, simVars, which>>

QuotePartsInit ==
    /\ DryInit /\ SideInit /\ VolInit /\ FlowInit /\ MetricsInit
    /\ PriceInit /\ GridInit /\ ResearchInit
    /\ which \in {"dry", "side", "vol", "flow", "metrics", "prices", "grid", "research"}
    /\ which # "research" => compress = FALSE

Only(part) == which = part /\ UNCHANGED which

\* A step of one part leaves the others as they are.
QuotePartsNext ==
    \/ Only("dry") /\ DryNext
       /\ UNCHANGED <<sideVars, estimateVars, gridVars, researchVars>>
    \/ Only("side") /\ SideNext
       /\ UNCHANGED <<estimateVars, simVars>>
    \/ Only("vol") /\ VolNext
       /\ UNCHANGED <<sideVars, flowVars, metricsVars, priceVars, simVars>>
    \/ Only("flow") /\ FlowNext
       /\ UNCHANGED <<sideVars, volVars, metricsVars, priceVars, simVars>>
    \/ Only("metrics") /\ MetricsNext
       /\ UNCHANGED <<sideVars, volVars, flowVars, priceVars, simVars>>
    \/ Only("prices") /\ PriceNext
       /\ UNCHANGED <<sideVars, volVars, flowVars, metricsVars, simVars>>
    \/ Only("grid") /\ GridNext
       /\ UNCHANGED <<sideVars, estimateVars, dryVars, researchVars>>
    \/ Only("research") /\ ResearchNext
       /\ UNCHANGED <<sideVars, estimateVars, dryVars, gridVars>>

QuotePartsSpec == QuotePartsInit /\ [][QuotePartsNext]_quoteVars

-----------------------------------------------------------------------------

\* What the quotes are computed from is what was observed: the moments of the
\* windows, the trades behind an open gate, the markouts of the fills.
EstimatesHold == MomentsAgree /\ SpreadKeepsFloor /\ QuotesRestOnTrades /\ MarkedOnce

\* What was recorded stays recorded: the rows of the trade log through its buffer,
\* its worker and failed appends, the rows of the research files through their
\* clean-ups.
RowsSurvive == RowsHeld /\ RowsKept
=============================================================================
