---------------------------- MODULE LiveMetrics ----------------------------
(***************************************************************************)
(* LiveMetricsTracker: fills wait for the middle price at each horizon,    *)
(* what they turned out to be worth is sampled per horizon and per side,   *)
(* written to a file, and averaged into the spread and size multipliers    *)
(* that the quotes use.  Time is what has passed since a thing happened.   *)
(* The worth itself is one bit (adverse or not); the metrics file, which   *)
(* nothing reads back, is left out.                                        *)
(***************************************************************************)
EXTENDS Integers, Sequences, FiniteSetsExt, Selection

CONSTANTS
    FillIds,        \* identities of fills
    Horizons,       \* horizons, ages at which a fill is marked
    Adaptive,       \* adaptive_horizon, one of them
    MarkWindow,     \* window_seconds
    NeedSamples,    \* 4: fewer adjust nothing
    PendingMax      \* maxlen of _pending

ASSUME MetricsAssumption ==
    /\ Horizons \subseteq Nat \ {0} /\ Adaptive \in Horizons
    /\ \A h \in Horizons : h <= MarkWindow
    /\ {MarkWindow, NeedSamples} \subseteq Nat /\ PendingMax \in Nat \ {0}

VARIABLES
    unsettled,  \* _pending: oldest first, each [id, side, age, done]
    samples,    \* _markouts: per horizon, oldest first, each [id, side, bad, age]
    bySide,     \* _markouts_by_side: per horizon and side, likewise
    used,       \* horizons that _markouts has a key for
    lines,      \* markouts_<symbol>.csv: rows per fill and horizon
    verdict,    \* reason of _last_adjustment
    filled,     \* history: fills recorded
    lost,       \* history: lines that could not be written
    pushed      \* history: fills pushed out of _pending

metricsVars == <<unsettled, samples, bySide, used, lines, verdict, filled, lost, pushed>>

FillSides == {"buy", "sell"}

MetricsInit ==
    /\ unsettled = <<>> /\ samples = [h \in Horizons |-> <<>>]
    /\ bySide = [h \in Horizons |-> [s \in FillSides |-> <<>>]]
    /\ used = {} /\ lines = [m \in FillIds \X Horizons |-> 0]
    /\ verdict = "neutral"
    /\ filled = {} /\ lost = {} /\ pushed = {}

\* record_fill: a full deque drops its oldest.
RecordFill(id, side) ==
    /\ id \notin filled
    /\ LET all == Append(unsettled, [id |-> id, side |-> side, age |-> 0, done |-> {}])
       IN  IF Len(all) > PendingMax
           THEN unsettled' = Tail(all) /\ pushed' = pushed \cup {all[1].id}
           ELSE unsettled' = all /\ UNCHANGED pushed
    /\ filled' = filled \cup {id}
    /\ UNCHANGED <<samples, bySide, used, lines, verdict, lost>>

-----------------------------------------------------------------------------
(* update. *)

\* Mutant: a horizon that was settled is settled again.
DueAgain(fill, h) == fill.age >= h

\* _settle_markouts: the horizons of a fill that are reached now.
DueFor(fill, h) == h \notin fill.done /\ fill.age >= h

\* What this middle price makes of the fills due at h: bad has the sides that it
\* was adverse to.
Settled(h, bad) ==
    LET due == KeptAt(unsettled, {i \in DOMAIN unsettled : DueFor(unsettled[i], h)})
    IN  [i \in DOMAIN due |-> [id |-> due[i].id, side |-> due[i].side,
                              bad |-> due[i].side \in bad, age |-> 0]]

OfSide(seq, s) == KeptAt(seq, {i \in DOMAIN seq : seq[i].side = s})
Of(seq) == {seq[i].id : i \in DOMAIN seq}

\* Mutant: a fill is let go at its first horizon.
GoneEarly(fill) == fill.done # {}

Complete(fill) == fill.done = Horizons

StillPending ==
    LET marked == [i \in DOMAIN unsettled |->
            [unsettled[i] EXCEPT !.done = @ \cup {h \in Horizons : DueFor(unsettled[i], h)}]]
    IN  KeptAt(marked, {i \in DOMAIN marked : ~Complete(marked[i])})

Pruned(seq) == KeptAt(seq, {i \in DOMAIN seq : seq[i].age <= MarkWindow})

\* _samples_for_horizon: of the horizons that ever had a sample the nearest.
SamplesNear(s, keys, h) ==
    LET far(g) == IF g > h THEN g - h ELSE h - g
    IN  IF keys = {} THEN <<>>
        ELSE s[CHOOSE g \in keys : \A x \in keys : far(g) <= far(x)]

Adverse(seq) == \E i \in DOMAIN seq : seq[i].bad

\* _compute_adjustment: the adaptive horizon, and the longest if it has enough.
Verdict(s, keys) ==
    LET near == SamplesNear(s, keys, Adaptive)
        long == SamplesNear(s, keys, Max(Horizons))
    IN  IF Len(near) < NeedSamples THEN "insufficient_markouts"
        ELSE IF Adverse(near) \/ (Len(long) >= NeedSamples /\ Adverse(long))
        THEN "adverse_markout" ELSE "healthy"

\* With a middle price the fills that are due are settled, complete or not, before
\* their lines are written: a write that fails loses the lines and ends the tick.
Settle(bad) ==
    /\ unsettled' = StillPending
    /\ used' = used \cup {h \in Horizons : Settled(h, bad) # <<>>}
    /\ LET new == {m \in FillIds \X Horizons : m[1] \in Of(Settled(m[2], bad))}
       IN  \/ /\ lines' = [m \in DOMAIN lines |->
                              IF m \in new THEN lines[m] + 1 ELSE lines[m]]
              /\ samples' = [h \in Horizons |-> Pruned(samples[h] \o Settled(h, bad))]
              /\ bySide' = [h \in Horizons |-> [s \in FillSides |->
                               Pruned(bySide[h][s] \o OfSide(Settled(h, bad), s))]]
              /\ verdict' = Verdict(samples', used')
              /\ UNCHANGED lost
           \/ /\ new # {}
              /\ lost' = lost \cup new
              /\ samples' = [h \in Horizons |-> samples[h] \o Settled(h, bad)]
              /\ bySide' = [h \in Horizons |-> [s \in FillSides |->
                               bySide[h][s] \o OfSide(Settled(h, bad), s)]]
              /\ UNCHANGED <<lines, verdict>>
    /\ UNCHANGED <<filled, pushed>>

Later(seq) ==
    [i \in DOMAIN seq |-> [seq[i] EXCEPT !.age = IF @ > MarkWindow THEN @ ELSE @ + 1]]

MetricsElapse ==
    /\ unsettled' = Later(unsettled)
    /\ samples' = [h \in Horizons |-> Later(samples[h])]
    /\ bySide' = [h \in Horizons |-> [s \in FillSides |-> Later(bySide[h][s])]]
    /\ UNCHANGED <<used, lines, verdict, filled, lost, pushed>>

MetricsNext ==
    \/ \E id \in FillIds, side \in FillSides : RecordFill(id, side)
    \/ \E bad \in SUBSET FillSides : Settle(bad)
    \/ MetricsElapse

MetricsSpec == MetricsInit /\ [][MetricsNext]_metricsVars

-----------------------------------------------------------------------------
(* Properties. *)

Waiting(id, h) == \E i \in DOMAIN unsettled : unsettled[i].id = id /\ h \notin unsettled[i].done

\* Every fill is marked at every horizon exactly once: it waits for it, or has one
\* row for it, or the one row it had was lost by a failed write, unless it was
\* pushed out while it waited; and what the guards read per side is what the
\* multipliers read over both.
MarkedOnce ==
    /\ \A id \in filled, h \in Horizons :
          /\ lines[<<id, h>>] <= 1
          /\ Waiting(id, h) => lines[<<id, h>>] = 0 /\ <<id, h>> \notin lost
          /\ <<id, h>> \in lost => lines[<<id, h>>] = 0
          /\ id \in pushed \/ Waiting(id, h) \/ lines[<<id, h>>] = 1 \/ <<id, h>> \in lost
    /\ \A h \in Horizons, s \in FillSides : OfSide(samples[h], s) = bySide[h][s]
=============================================================================
