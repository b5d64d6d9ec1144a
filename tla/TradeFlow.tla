----------------------------- MODULE TradeFlow -----------------------------
(***************************************************************************)
(* LighterCJEstimator and the gate in front of the Cartea-Jaimungal quotes *)
(* (market_maker_v2.py): public trades are counted per side over a window  *)
(* of time, each is marked against the first middle price after its        *)
(* deadline, and a summary made at each book update says whether there is  *)
(* enough of both to quote on.  What the fits compute (lambda, kappa,      *)
(* epsilon, sigma) is left out; whose trades they are computed from is     *)
(* kept.  Time is what has passed since a thing happened.                  *)
(***************************************************************************)
EXTENDS Integers, Sequences, FiniteSetsExt, Selection

CONSTANTS
    FlowTrades,     \* identities of public trades
    FlowWindow,     \* window_seconds
    MarkAfter,      \* markout_seconds
    NeedTrades,     \* min_trades_per_side
    NeedMarks,      \* min_markouts_per_side
    SeenMax,        \* _seen_trade_ids: how many are kept, and how many
    SeenKeep,       \* of them when that is passed
    RefreshEvery,   \* CJ_REFRESH_SECONDS
    MaxHeard        \* bound: trades in the window

ASSUME FlowAssumption ==
    /\ {FlowWindow, MarkAfter, RefreshEvery} \subseteq Nat \ {0}
    /\ {NeedTrades, NeedMarks, SeenMax, SeenKeep, MaxHeard} \subseteq Nat
    /\ SeenKeep <= SeenMax

VARIABLES
    trades,     \* _trades: oldest first, each [id, side, age]
    unmarked,   \* _pending_markouts, likewise
    marks,      \* _markouts_plus, _markouts_minus, likewise
    heard,      \* _seen_trade_ids
    summary,    \* _last_snapshot.ready
    blended,    \* _last_cj_estimator_ready: whether the calculator's parameters
                \* were made with estimates
    sinceRefresh,
    gone,       \* history: trades whose identity was forgotten
    quoted      \* history: what the last tick quoted on

flowVars == <<trades, unmarked, marks, heard, summary, blended,
              sinceRefresh, gone, quoted>>

Pressure == {"plus", "minus"}

FlowInit ==
    /\ trades = <<>> /\ unmarked = <<>> /\ marks = [s \in Pressure |-> <<>>]
    /\ heard = {} /\ summary = FALSE
    /\ blended = FALSE /\ sinceRefresh = 0
    /\ gone = {} /\ quoted = "nothing"

Ids(seq) == {seq[i].id : i \in DOMAIN seq}

\* _prune: what is older than the window goes, oldest first.
Recent(seq) == KeptAt(seq, {i \in DOMAIN seq : seq[i].age <= FlowWindow})

-----------------------------------------------------------------------------
(* on_public_trade_update, on_trade. *)

\* Mutant: the identity is not kept.
Unremembered(id) == heard

SeenWith(id) == heard \cup {id}

\* A trade without a usable price or size is remembered and not counted.  Past the
\* bound an arbitrary part of the identities is kept.
HearTrade(id, side, usable) ==
    /\ id \notin heard /\ Len(trades) < MaxHeard
    /\ LET all == SeenWith(id)
       IN  \E kept \in IF Cardinality(all) > SeenMax THEN kSubset(SeenKeep, all) ELSE {all} :
              /\ heard' = kept
              /\ gone' = gone \cup (all \ kept)
    /\ LET event == [id |-> id, side |-> side, age |-> 0]
       IN  IF usable
           THEN /\ trades' = Recent(Append(trades, event))
                /\ unmarked' = Recent(Append(unmarked, event))
                /\ marks' = [s \in Pressure |-> Recent(marks[s])]
           ELSE UNCHANGED <<trades, unmarked, marks>>
    /\ UNCHANGED <<summary, blended, sinceRefresh, quoted>>

-----------------------------------------------------------------------------
(* on_book_update. *)

Due(e) == e.age >= MarkAfter

\* The leading events whose deadline has passed are marked, in the order of trade.
Marked(s) ==
    LET due == KeptAt(unmarked, {i \in DOMAIN unmarked : Due(unmarked[i]) /\ unmarked[i].side = s})
    IN  marks[s] \o [i \in DOMAIN due |-> [due[i] EXCEPT !.age = 0]]

\* The others wait on.
StillWaiting == KeptAt(unmarked, {i \in DOMAIN unmarked : ~Due(unmarked[i])})

\* ready, of _compute_snapshot.
Enough(t, m) ==
    \A s \in Pressure :
        /\ Cardinality({i \in DOMAIN t : t[i].side = s}) >= NeedTrades
        /\ Len(m[s]) >= NeedMarks

FlowBook ==
    /\ trades' = Recent(trades)
    /\ unmarked' = Recent(StillWaiting)
    /\ marks' = [s \in Pressure |-> Recent(Marked(s))]
    /\ summary' = Enough(trades', marks')
    /\ UNCHANGED <<heard, blended, sinceRefresh, gone, quoted>>

-----------------------------------------------------------------------------
(* _cj_estimator_gate_allows_quote, _refresh_cj_params_if_needed. *)

\* The estimates are blended in only from a ready summary.  update_params may
\* reject what the fit gave: nothing changes then.
Refreshed(accepted) ==
    IF accepted
    THEN blended' = summary /\ sinceRefresh' = 0
    ELSE UNCHANGED <<blended, sinceRefresh>>

\* Mutant: the gate opens without a refresh of the parameters.
NeverForced == FALSE

\* The gate refreshes on the first ready summary since a refresh that had none.
Forced == summary /\ ~blended

\* A tick of the loop: the periodic refresh, then the gate.  The summary cannot
\* change between them, so a refresh that is refused once is refused twice.
FlowTick(accepted) ==
    /\ IF sinceRefresh >= RefreshEvery \/ Forced THEN Refreshed(accepted)
       ELSE UNCHANGED <<blended, sinceRefresh>>
    /\ quoted' = IF ~summary THEN "nothing"
                 ELSE IF blended' THEN "estimates"
                 ELSE IF accepted THEN "base" ELSE "refused"
    /\ UNCHANGED <<trades, unmarked, marks, heard, summary, gone>>

Older(seq) ==
    [i \in DOMAIN seq |-> [seq[i] EXCEPT !.age = IF @ > FlowWindow THEN @ ELSE @ + 1]]

FlowElapse ==
    /\ trades' = Older(trades) /\ unmarked' = Older(unmarked)
    /\ marks' = [s \in Pressure |-> Older(marks[s])]
    /\ sinceRefresh' = IF sinceRefresh < RefreshEvery THEN sinceRefresh + 1
                       ELSE sinceRefresh
    /\ UNCHANGED <<heard, summary, blended, gone, quoted>>

FlowNext ==
    \/ \E id \in FlowTrades, side \in Pressure, usable \in BOOLEAN :
          HearTrade(id, side, usable)
    \/ FlowBook
    \/ \E accepted \in BOOLEAN : FlowTick(accepted)
    \/ FlowElapse

FlowSpec == FlowInit /\ [][FlowNext]_flowVars

-----------------------------------------------------------------------------
(* Properties. *)

Once(seq) == \A i, j \in DOMAIN seq : seq[i].id = seq[j].id => i = j \/ seq[i].id \in gone

\* However often a trade is announced, it is counted once, waits for one mark and
\* gets one, on its own side (only a trade whose identity was dropped at the bound
\* may count twice); and a tick that the gate lets through quotes on parameters
\* blended from such trades, unless the calculator refused them.
QuotesRestOnTrades ==
    /\ Once(trades) /\ Once(unmarked) /\ \A s \in Pressure : Once(marks[s])
    /\ Ids(marks["plus"]) \cap Ids(marks["minus"]) \subseteq gone
    /\ Ids(unmarked) \cap UNION {Ids(marks[s]) : s \in Pressure} \subseteq gone
    /\ quoted # "base"
=============================================================================
