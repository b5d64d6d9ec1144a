---------------------------- MODULE RiskPauseProofs ----------------------------
(***************************************************************************)
(* Theorems about RiskPause, for any sets of slots, orders and             *)
(* reconcilers and any bounds.                                             *)
(***************************************************************************)
EXTENDS RiskPause, OrderLifecycleProofs

\* What a step may count on: only the cleanup itself moves its send, and a
\* verifying answer is only there while the cleanup waits to use it.
Alone ==
    /\ pc \in [Senders -> PC]
    /\ DOMAIN restSnap = Reconcilers
    /\ cleanup \in {"off", "scheduled"} => pc[Cleaner] = "idle"
    /\ restSnap[Cleaner] # {} => cleanup = "answered"

USE NoneAssumption, BoundAssumption DEF PC

\* The cleaner is a sender of its own.
LEMMA CleanerSends == Cleaner \in Senders /\ Cleaner # Paced
BY CleanerAssumption, PacedAssumption DEF Senders

\* No batch is on its way at the start.
LEMMA AloneInit == PauseInit => Alone
BY CleanerSends, CleanerAssumption DEF PauseInit, Init, Alone

\* A sender that moves was not idle, so while the cleanup is off it is
\* another one.
LEMMA SenderMoves ==
    ASSUME Alone, NEW n \in Senders, NEW p \in PC, pc[n] # "idle",
           pc' = [pc EXCEPT ![n] = p],
           UNCHANGED <<restSnap, cleanup>>
    PROVE  Alone'
BY CleanerSends, CleanerAssumption DEF Alone

\* Nothing the cleanup is about changes.
LEMMA AloneFrame ==
    ASSUME Alone, UNCHANGED <<pc, restSnap, cleanup>>
    PROVE  Alone'
BY DEF Alone

\* Entering moves one sender.
LEMMA EnterMoves ==
    ASSUME NEW n \in Senders, NEW ops, NEW box, EnterBatch(n, ops, box)
    PROVE  \E p \in PC : pc' = [pc EXCEPT ![n] = p]
BY DEF EnterBatch, Returned

\* Giving up moves one sender.
LEMMA GiveUpMoves ==
    ASSUME NEW n \in Senders, GiveUp(n)
    PROVE  \E p \in PC : pc' = [pc EXCEPT ![n] = p]
BY DEF GiveUp, Returned

\* Every step leaves the cleaner alone.
LEMMA AloneStep == Alone /\ [PauseNext]_allVars => Alone'
<1> SUFFICES ASSUME Alone, [PauseNext]_allVars PROVE Alone'
  OBVIOUS
<1> USE CleanerSends, CleanerAssumption
<1>1. CASE UNCHANGED allVars
  BY <1>1, AloneFrame DEF allVars, vars, risk, cleaning
<1>2. CASE Trip \/ CooldownOver \/ OpenCheck
  BY <1>2, AloneFrame DEF Trip, CooldownOver, OpenCheck, vars, cleaning
<1>3. CASE PausedCheck
  BY <1>3 DEF PausedCheck, CleanupDue, Alone, vars
<1>4. CASE PauseTick
  <2>1. PICK want \in Wants :
            \E new \in Injection(EmptyQuoted(want), Fresh) : Tick(want, new)
    BY <1>4 DEF PauseTick, HotTick
  <2>2. pc' = pc \/ (pc[Paced] = "idle" /\ pc' = [pc EXCEPT ![Paced] = "gate"])
    BY <2>1 DEF Tick
  <2>3. UNCHANGED <<restSnap, cleanup>>
    BY <1>4, <2>1 DEF PauseTick, Tick, cleaning
  <2> QED
    BY <2>2, <2>3 DEF Alone, Senders
<1>5. CASE CleanupBegin
  BY <1>5 DEF CleanupBegin, Alone
<1>6. CASE CleanupFetch
  BY <1>6 DEF CleanupFetch, RestAnswered, Cancelled, Alone
<1>7. CASE CleanupFetchFailed
  BY <1>7 DEF CleanupFetchFailed, Cancelled, Alone, sending
<1>8. CASE CleanupReconcile
  <2>1. PICK snap \in restSnap[Cleaner] : \E surplus \in SUBSET Surplus(snap) :
            ReconcileWith(Cleaner, snap, surplus)
    BY <1>8 DEF CleanupReconcile, Reconcile
  <2>2. /\ restSnap' = [restSnap EXCEPT ![Cleaner] = {}]
        /\ pc' = pc \/ pc' = [pc EXCEPT ![Cleaner] = "gate"]
    BY <2>1 DEF ReconcileWith
  <2> QED
    BY <1>8, <2>2 DEF CleanupReconcile, Alone
<1>9. CASE CleanupEnd
  BY <1>9 DEF CleanupEnd, Alone, vars
<1>10. ASSUME NEW n \in Senders, Refused(n) PROVE Alone'
  BY <1>10, GiveUpMoves, SenderMoves DEF Refused, Rejected, AnswerLost, cleaning
<1>11. ASSUME NEW n \in Senders, Succeeded(n) PROVE Alone'
  BY <1>11, GiveUpMoves, SenderMoves DEF Succeeded, Acked, cleaning
<1>12. CASE OrdersMessage
  BY <1>12, AloneFrame DEF OrdersMessage, OnAccountOrders, cleaning
<1>13. ASSUME NEW r \in Reconcilers \ {Cleaner},
              PollerAnswered(r) \/ PollerReconciles(r)
       PROVE  Alone'
  <2>1. CASE PollerAnswered(r)
    BY <2>1 DEF PollerAnswered, RestAnswered, Alone, risk, cleaning
  <2>2. CASE PollerReconciles(r)
    <3>1. PICK snap \in restSnap[r] : \E surplus \in SUBSET Surplus(snap) :
              ReconcileWith(r, snap, surplus)
      BY <2>2 DEF PollerReconciles, Reconcile
    <3>2. /\ restSnap' = [restSnap EXCEPT ![r] = {}]
          /\ pc' = pc \/ pc' = [pc EXCEPT ![r] = "gate"]
      BY <3>1 DEF ReconcileWith
    <3> QED
      BY <2>2, <3>2 DEF PollerReconciles, Alone, Senders, cleaning
  <2> QED BY <1>13, <2>1, <2>2
<1>14. CASE Untouched
  <2>0. UNCHANGED cleanup
    BY <1>14 DEF Untouched, risk, cleaning
  <2>1. CASE PacedPull
    BY <2>0, <2>1, EnterMoves, SenderMoves DEF PacedPull, Senders
  <2>2. CASE PacedDenied
    BY <2>0, <2>2, SenderMoves DEF PacedDenied, Senders
  <2>3. ASSUME NEW n \in Senders, Sends(n) PROVE Alone'
    BY <2>0, <2>3, GiveUpMoves, SenderMoves
       DEF Sends, AcquireLock, AbortBatch, Signed, Accept
  <2>4. CASE \E o \in accepted : Execute(o)
    BY <2>0, <2>4, AloneFrame DEF Execute
  <2>5. CASE \E c \in Cids : Fill(c)
    BY <2>0, <2>5, AloneFrame DEF Fill
  <2>6. CASE (\E refresh \in BOOLEAN : FeedLost(refresh)) \/ FeedSubscribed \/ ColdReconcile
    BY <2>0, <2>6, AloneFrame DEF FeedLost, FeedSubscribed, ColdReconcile
  <2>7. ASSUME NEW r \in Reconcilers, ReconcilerSend(r) \/ ReconcilerDenied(r)
        PROVE  Alone'
    BY <2>0, <2>7, EnterMoves, GiveUpMoves, SenderMoves
       DEF ReconcilerSend, ReconcilerDenied, Senders
  <2> QED
    BY <1>14, <2>1, <2>2, <2>3, <2>4, <2>5, <2>6, <2>7 DEF Untouched
<1> QED
  BY <1>1, <1>2, <1>3, <1>4, <1>5, <1>6, <1>7, <1>8, <1>9, <1>10, <1>11,
     <1>12, <1>13, <1>14 DEF PauseNext

\* The steps of the breaker that are not steps of the order path: the cleanup
\* queues its forced clears and picks up its cancels, or its fetch fails.
LEMMA OrderPathSteps ==
    ASSUME PauseNext, ~CleanupBegin, ~CleanupFetchFailed PROVE [Next]_vars
<1>1. ASSUME NEW n \in Senders, Refused(n) \/ Succeeded(n) \/ Sends(n)
      PROVE  Next
  BY <1>1 DEF Refused, Succeeded, Sends, Send, Next
<1>2. CASE Trip \/ CooldownOver \/ PausedCheck \/ OpenCheck \/ CleanupEnd
  BY <1>2 DEF Trip, CooldownOver, PausedCheck, OpenCheck, CleanupEnd
<1>3. CASE PauseTick \/ OrdersMessage
  BY <1>3 DEF PauseTick, OrdersMessage, Next
<1>4. CASE CleanupFetch \/ CleanupReconcile
  BY <1>4, CleanerAssumption
     DEF CleanupFetch, CleanupReconcile, ReconcilerStep, Next
<1>5. ASSUME NEW r \in Reconcilers, PollerAnswered(r) \/ PollerReconciles(r)
      PROVE  Next
  BY <1>5 DEF PollerAnswered, PollerReconciles, ReconcilerStep, Next
<1>6. CASE Untouched
  BY <1>1, <1>6 DEF Untouched, ReconcilerStep, Next
<1> QED
  BY <1>1, <1>2, <1>3, <1>4, <1>5, <1>6 DEF PauseNext

\* An index was issued for a slot that is being placed.
PlacingIssued ==
    \A s \in Slots : status[s] = "PLACING" => \E c \in Cids : home[c] = s

\* An index once issued stays with its slot.
LEMMA HomeStays ==
    ASSUME TypeOK, [Next]_vars, NEW c \in Cids, home[c] # None
    PROVE  home'[c] = home[c]
<1>1. CASE HotTick
  <2>1. PICK want \in Wants : \E new \in Injection(EmptyQuoted(want), Fresh) :
            Tick(want, new)
    BY <1>1 DEF HotTick
  <2>2. PICK new \in Injection(EmptyQuoted(want), Fresh) : Tick(want, new)
    BY <2>1
  <2> QED
    BY <2>2, TickHome
<1>2. ASSUME NEW n \in Senders, Send(n) PROVE UNCHANGED home
  BY <1>2 DEF Send, AcquireLock, AbortBatch, Signed, Accept, Rejected,
              AnswerLost, Acked
<1>3. ASSUME NEW r \in Reconcilers, ReconcilerStep(r) PROVE UNCHANGED home
  BY <1>3 DEF ReconcilerStep, RestAnswered, Reconcile, ReconcileWith,
              ReconcilerSend, ReconcilerDenied
<1>4. CASE \/ PacedPull \/ PacedDenied
           \/ \E o \in accepted : Execute(o)
           \/ \E d \in Cids : Fill(d)
           \/ \E refresh \in BOOLEAN : FeedLost(refresh)
           \/ FeedSubscribed \/ OnAccountOrders \/ ColdReconcile \/ UNCHANGED vars
  <2>1. UNCHANGED home
    BY <1>4 DEF PacedPull, PacedDenied, Execute, Fill, FeedLost,
                FeedSubscribed, OnAccountOrders, ColdReconcile, vars
  <2> QED BY <2>1
<1> QED
  BY <1>1, <1>2, <1>3, <1>4 DEF Next

\* A slot is marked as being placed by the create signed for it alone.
LEMMA PlacingMarked ==
    ASSUME TypeOK, Issued, [Next]_vars, NEW s \in Slots, status'[s] = "PLACING"
    PROVE  status[s] = "PLACING" \/ \E c \in Cids : home[c] = s
<1>1. \A id, st : RecStatus(id, st) = "PLACING" => st = "PLACING"
  BY DEF RecStatus
<1>2. HotStatus(s) = "PLACING" => status[s] = "PLACING"
  BY DEF HotStatus
<1>3. CASE HotTick
  BY <1>2, <1>3 DEF HotTick, Tick
<1>4. ASSUME NEW n, NEW ops, NEW box, EnterBatch(n, ops, box)
      PROVE  status[s] = "PLACING"
  BY <1>1, <1>2, <1>4, EnterBatchEffect DEF EnterEffect
<1>5. ASSUME NEW n \in Senders, Send(n)
      PROVE  status[s] = "PLACING" \/ \E c \in Cids : home[c] = s
  <2>1. CASE Signed(n)
    <3>1. PICK ops \in SUBSET batch[n] : status' = [t \in Slots |-> Marked(ops, t)]
      BY <2>1 DEF Signed
    <3>2. \A o \in ops : o.cid \in Cids /\ home[o.cid] = o.slot
      BY <3>1 DEF TypeOK, Op, Issued, IssuedOps
    <3> QED
      BY <3>1, <3>2 DEF Marked
  <2>2. CASE ~Signed(n)
    BY <1>5, <2>2 DEF Send, AcquireLock, AbortBatch, Accept, Rejected,
                      AnswerLost, Acked
  <2> QED BY <2>1, <2>2
<1>6. ASSUME NEW r \in Reconcilers, ReconcilerStep(r)
      PROVE  status[s] = "PLACING"
  BY <1>4, <1>6 DEF ReconcilerStep, RestAnswered, Reconcile, ReconcileWith,
                    ReconcilerSend, ReconcilerDenied
<1>7. CASE PacedPull
  BY <1>4, <1>7 DEF PacedPull
<1>8. CASE ColdReconcile
  BY <1>1, <1>8 DEF ColdReconcile
<1>9. CASE \/ PacedDenied
           \/ \E o \in accepted : Execute(o)
           \/ \E d \in Cids : Fill(d)
           \/ \E refresh \in BOOLEAN : FeedLost(refresh)
           \/ FeedSubscribed \/ OnAccountOrders \/ UNCHANGED vars
  BY <1>9 DEF PacedDenied, Execute, Fill, FeedLost, FeedSubscribed,
              OnAccountOrders, vars
<1> QED
  BY <1>3, <1>5, <1>6, <1>7, <1>8, <1>9 DEF Next

\* A step of the life cycle keeps issued what is being placed.
LEMMA PlacingStep ==
    ASSUME TypeOK, Issued, PlacingIssued, [Next]_vars PROVE PlacingIssued'
<1> SUFFICES ASSUME NEW s \in Slots, status'[s] = "PLACING"
             PROVE  \E c \in Cids : home'[c] = s
  BY DEF PlacingIssued
<1>1. PICK c \in Cids : home[c] = s
  BY PlacingMarked DEF PlacingIssued
<1> QED
  BY <1>1, HomeStays

BreakerTypes ==
    /\ pause \in {"off", "on", "over"} /\ cancelDone \in BOOLEAN
    /\ rejections \in 0..Threshold /\ reconOk \in BOOLEAN
    /\ loop \in {"check", "waiting"}
    /\ cleanup \in {"off", "scheduled", "cancelling", "verifying",
                    "answered", "ok", "failed"}
    /\ attempts \in 0..(ForceAfter + 1)

\* What a forced clear names was issued for its slot.
LEMMA ForcedIssued ==
    ASSUME TypeOK, PlacingIssued, NEW n, NEW s \in Forced(n)
    PROVE  LET e == Clear(CHOOSE c \in Cids : home[c] = s)
           IN  e \in Event /\ home[e.cid] = s
<1>1. PICK c \in Cids : home[c] = s
  BY DEF Forced, PlacingIssued
<1> QED
  BY <1>1 DEF Clear, Event

\* The cancels of the cleaner are for orders where they were issued.
LEMMA CancelOpsIssued ==
    ASSUME TypeOK, Issued
    PROVE  CancelOps \subseteq Op /\ \A o \in CancelOps : home[o.cid] = o.slot
<1>1. \A s \in Slots : tracked[s] \in idMap => tracked[s] \in Cids /\ home[tracked[s]] = s
  BY DEF TypeOK, Issued, IssuedSlots
<1> QED
  BY <1>1 DEF CancelOps, Op

\* The cleanup begins.
LEMMA BeginKeeps ==
    ASSUME TypeOK, Issued, PlacingIssued, CleanupBegin
    PROVE  TypeOK' /\ Issued' /\ PlacingIssued'
<1>1. \A s \in Slots : events[s] \in Seq(Event)
  BY DEF TypeOK
<1>2. ASSUME NEW s \in Slots
      PROVE  /\ events'[s] \in Seq(Event)
             /\ \A i \in DOMAIN events'[s] : home[events'[s][i].cid] = s
  <2>1. CASE events'[s] = events[s]
    BY <1>1, <2>1 DEF Issued, IssuedSlots
  <2>2. CASE events'[s] # events[s]
    <3>1. PICK n : s \in Forced(n) /\
              events'[s] = Append(events[s], Clear(CHOOSE c \in Cids : home[c] = s))
      BY <2>2 DEF CleanupBegin
    <3> DEFINE e == Clear(CHOOSE c \in Cids : home[c] = s)
    <3>2. e \in Event /\ home[e.cid] = s
      BY <3>1, ForcedIssued
    <3>3. events'[s] = Append(events[s], e)
      BY <3>1
    <3>4. \A i \in DOMAIN events[s] : home[events[s][i].cid] = s
      BY DEF Issued, IssuedSlots
    <3> HIDE DEF e
    <3>5. /\ Append(events[s], e) \in Seq(Event)
          /\ \A i \in DOMAIN Append(events[s], e) :
                \/ Append(events[s], e)[i] = e
                \/ i \in DOMAIN events[s] /\ Append(events[s], e)[i] = events[s][i]
      BY <1>1, <3>2, AppendFacts
    <3> QED
      BY <3>2, <3>3, <3>4, <3>5
  <2> QED BY <2>1, <2>2
<1>3. events' \in [Slots -> Seq(Event)]
  BY <1>2 DEF CleanupBegin
<1>4. UNCHANGED <<tracked, status, latestRec, idMap, mailbox, mailStale, restSnap,
                  wsUp, wsReady, feed, exch, accepted, home, faults, orphaned>>
  BY DEF CleanupBegin, feedVars, exchange
<1>5. /\ pc' \in [Senders -> PC] /\ batch' \in [Senders -> SUBSET Op]
      /\ \A n \in Senders : \A o \in batch'[n] : home[o.cid] = o.slot
  <2>1. CASE UNCHANGED <<pc, batch>>
    BY <2>1 DEF TypeOK, Issued, IssuedOps
  <2>2. CASE pc' = [pc EXCEPT ![Cleaner] = "gate"]
             /\ batch' = [batch EXCEPT ![Cleaner] = CancelOps]
    BY <2>2, CancelOpsIssued DEF TypeOK, Issued, IssuedOps
  <2> QED
    BY <2>1, <2>2 DEF CleanupBegin
<1>6. TypeOK'
  BY <1>3, <1>4, <1>5 DEF TypeOK
<1>7. Issued'
  BY <1>2, <1>4, <1>5 DEF Issued, IssuedSlots, IssuedOps, IssuedOrders
<1> QED
  BY <1>4, <1>6, <1>7 DEF PlacingIssued

\* The orders to cancel could not be fetched.
LEMMA FetchFailedKeeps ==
    ASSUME TypeOK, Issued, PlacingIssued, CleanupFetchFailed
    PROVE  TypeOK' /\ Issued' /\ PlacingIssued'
<1>1. UNCHANGED <<tracked, status, events, latestRec, idMap, mailbox, pc, batch,
                  mailStale, restSnap, wsUp, wsReady, feed, exch, accepted,
                  home, orphaned>>
  BY DEF CleanupFetchFailed, local, sending, feedVars, exchange
<1>2. faults' \in 0..MaxFaults
  BY DEF CleanupFetchFailed, Fault, TypeOK
<1>3. TypeOK'
  BY <1>1, <1>2 DEF TypeOK
<1>4. Issued'
  BY <1>1 DEF Issued, IssuedSlots, IssuedOps, IssuedOrders
<1> QED
  BY <1>1, <1>3, <1>4 DEF PlacingIssued

\* The types of the breaker at the start.
LEMMA BreakerInit == PauseInit => BreakerTypes
<1>1. 0 \in 0..Threshold /\ 0 \in 0..(ForceAfter + 1)
  BY LimitAssumption
<1> QED
  BY <1>1 DEF PauseInit, BreakerTypes

\* Every step keeps the types of the breaker.
LEMMA BreakerStep ==
    ASSUME TypeOK, BreakerTypes, [PauseNext]_allVars PROVE BreakerTypes'
<1> USE DEF BreakerTypes
<1>0. 0 \in 0..Threshold /\ 0 \in 0..(ForceAfter + 1)
  BY LimitAssumption
<1>1. ASSUME RecordRejection \/ RecordSuccess \/ UNCHANGED breaker,
             UNCHANGED <<reconOk, loop, cleaning>>
      PROVE  BreakerTypes'
  <2>1. (IF rejections < Threshold THEN rejections + 1 ELSE rejections) \in 0..Threshold
    BY LimitAssumption
  <2>2. rejections' \in 0..Threshold
    BY <1>0, <1>1, <2>1 DEF RecordRejection, RecordSuccess, breaker
  <2>3. pause' \in {"off", "on", "over"} /\ cancelDone' \in BOOLEAN
    BY <1>1 DEF RecordRejection, RecordSuccess, TriggerPause, breaker
  <2> QED
    BY <1>1, <2>2, <2>3 DEF cleaning
<1>2. CASE Trip \/ CooldownOver \/ PausedCheck \/ OpenCheck \/ PauseTick
  BY <1>0, <1>2 DEF Trip, TriggerPause, CooldownOver, PausedCheck, OpenCheck,
                    PauseTick, breaker, cleaning
<1>3. CASE CleanupBegin
  <2>1. (IF attempts > ForceAfter THEN attempts ELSE attempts + 1) \in 0..(ForceAfter + 1)
    BY LimitAssumption
  <2>2. attempts' \in 0..(ForceAfter + 1)
    BY <1>3, <2>1 DEF CleanupBegin
  <2>3. UNCHANGED <<pause, cancelDone, rejections, reconOk, loop>>
        /\ cleanup' \in {"verifying", "cancelling"}
    BY <1>3 DEF CleanupBegin
  <2> QED
    BY <2>2, <2>3
<1>4. CASE CleanupFetch \/ CleanupFetchFailed
  <2>1. wsReady \in BOOLEAN
    BY DEF TypeOK
  <2> QED
    BY <1>4, <2>1 DEF CleanupFetch, CleanupFetchFailed, breaker
<1>5. CASE CleanupReconcile \/ CleanupEnd
  BY <1>0, <1>5 DEF CleanupReconcile, CleanupEnd, InOrder, breaker
<1>6. ASSUME NEW n \in Senders, Refused(n) \/ Succeeded(n) PROVE BreakerTypes'
  BY <1>1, <1>6 DEF Refused, Succeeded
<1>7. CASE OrdersMessage
  <2>1. reconOk' \in BOOLEAN
    BY <1>7 DEF OrdersMessage, TypeOK
  <2>2. UNCHANGED <<breaker, loop, cleaning>>
    BY <1>7 DEF OrdersMessage
  <2> QED
    BY <2>1, <2>2 DEF breaker, cleaning
<1>8. ASSUME NEW r \in Reconcilers, PollerAnswered(r) \/ PollerReconciles(r)
      PROVE  BreakerTypes'
  BY <1>8 DEF PollerAnswered, PollerReconciles, InOrder, risk, breaker, cleaning
<1>9. CASE Untouched \/ UNCHANGED allVars
  BY <1>9 DEF Untouched, allVars, risk, breaker, cleaning
<1> QED
  BY <1>2, <1>3, <1>4, <1>5, <1>6, <1>7, <1>8, <1>9 DEF PauseNext

PauseInv == TypeOK /\ Issued /\ PlacingIssued /\ BreakerTypes

\* The invariant holds at the start.
LEMMA PauseInvInit == PauseInit => PauseInv
BY TypeInit, IssuedInit, BreakerInit DEF PauseInit, Init, PauseInv, PlacingIssued

\* Every step keeps the invariant.
LEMMA PauseInvStep == PauseInv /\ [PauseNext]_allVars => PauseInv'
<1> SUFFICES ASSUME PauseInv, [PauseNext]_allVars PROVE PauseInv'
  OBVIOUS
<1>1. TypeOK /\ Issued /\ PlacingIssued /\ BreakerTypes
  BY DEF PauseInv
<1>2. [Next]_vars \/ CleanupBegin \/ CleanupFetchFailed
  BY OrderPathSteps DEF allVars
<1>3. CASE [Next]_vars
  BY <1>1, <1>3, TypeStep, IssuedStep, PlacingStep, BreakerStep DEF PauseInv
<1>4. CASE CleanupBegin \/ CleanupFetchFailed
  BY <1>1, <1>4, BeginKeeps, FetchFailedKeeps, BreakerStep DEF PauseInv
<1> QED
  BY <1>2, <1>3, <1>4

\* The order path keeps its types under the breaker, and so does the breaker.
THEOREM PauseTypeCorrect == PauseSpec => []PauseTypeOK
<1>1. PauseInv => PauseTypeOK
  BY DEF PauseInv, PauseTypeOK, BreakerTypes
<1> QED
  BY <1>1, PauseInvInit, PauseInvStep, PTL DEF PauseSpec

\* With the cleanup as one more writer, and any number of pollers, two tasks
\* are still never both between taking and releasing _sdk_write_lock.
THEOREM PauseWritersExclusive == PauseSpec => []OneWriter
<1>1. PauseInit => OneWriter
  BY DEF PauseInit, Init, OneWriter, HoldsLock
<1>2. ASSUME TypeOK, OneWriter, TypeOK', [PauseNext]_allVars PROVE OneWriter'
  <2>1. CASE CleanupBegin
    <3>1. UNCHANGED pc \/ pc' = [pc EXCEPT ![Cleaner] = "gate"]
      BY <2>1 DEF CleanupBegin
    <3> QED
      BY <1>2, <3>1, CleanerSends DEF OneWriter, HoldsLock, TypeOK
  <2>2. CASE CleanupFetchFailed
    BY <1>2, <2>2 DEF CleanupFetchFailed, sending, OneWriter, HoldsLock
  <2>3. CASE [Next]_vars
    BY <1>2, <2>3, OneWriterStep
  <2> QED
    BY <1>2, <2>1, <2>2, <2>3, OrderPathSteps DEF allVars
<1>3. PauseTypeOK => TypeOK
  BY DEF PauseTypeOK
<1> QED
  BY <1>1, <1>2, <1>3, PauseTypeCorrect, PTL DEF PauseSpec

\* The cleanup of a pause never overlaps an earlier one: when it is off, or
\* scheduled and not begun, none of its cancels or answers is under way
\* (_pause_cleanup_running against _pause_cleanup_task).
THEOREM CleanupsAreAlone == PauseSpec => []CleanupAlone
<1>1. Alone => CleanupAlone
  BY DEF Alone, CleanupAlone
<1> QED
  BY <1>1, AloneInit, AloneStep, PTL DEF PauseSpec
=============================================================================
