------------------------ MODULE OrderLifecycleProofs ------------------------
(***************************************************************************)
(* Theorems about OrderLifecycle for any set of slots, order indices and   *)
(* reconcilers, any number of failures and any feed length.                *)
(*                                                                         *)
(* The inductive invariant has these parts.                                *)
(*   Issued    an order index is used nowhere before it is issued, and     *)
(*             only for the slot it was issued for;                        *)
(*   SlotInv   while a batch creates an order the slot is empty with no    *)
(*             event pending; while one moves an order, the slot and its   *)
(*             events are about that order or nothing.  This is what the   *)
(*             mailbox, the single sender and the stale-create guard are   *)
(*             for, and it makes the events of a slot agree.               *)
(*   Fate      a create is executed at most once, dead orders stay dead    *)
(*             and only dead orders are reported dead;                     *)
(*   Claimed   an open order the bot was not made to lose is the one its   *)
(*             slot will track once its events are drained, or is in an    *)
(*             acknowledged batch.                                         *)
(***************************************************************************)
EXTENDS OrderLifecycle, TLAPS

OneOpPerSlot(ops) == \A o, p \in ops : o.slot = p.slot => o = p

IssuedSlots ==
    /\ \A s \in Slots : tracked[s] # None => home[tracked[s]] = s
    /\ \A s \in Slots : \A i \in DOMAIN events[s] : home[events[s][i].cid] = s

IssuedOps ==
    /\ \A o \in mailbox : home[o.cid] = o.slot
    /\ \A n \in Senders : \A o \in batch[n] : home[o.cid] = o.slot
    /\ \A o \in accepted : home[o.cid] = o.slot

IssuedOrders ==
    /\ \A c \in Cids : exch[c] # "none" => home[c] \in Slots
    /\ \A r \in Reconcilers : \A snap \in restSnap[r] :
           \A c \in snap : home[c] \in Slots

Issued == IssuedSlots /\ IssuedOps /\ IssuedOrders

\* Reconcilers only ever cancel; the paced sender has ops while it sends.
ReconcilersCancel ==
    \A r \in Reconcilers : \A o \in batch[r] : o.act = "cancel"

BatchInHand == pc[Paced] \in {"idle", "gate"} => batch[Paced] = {}

OneOpEach == OneOpPerSlot(mailbox) /\ OneOpPerSlot(batch[Paced])

\* While an order is being created its slot is empty, with no event pending.
CreatesIntoEmpty ==
    \A o \in batch[Paced] : o.act = "create" =>
        tracked[o.slot] = None /\ events[o.slot] = <<>>

\* While an order is being moved its slot is about that order, or empty.
MovesItsOrder ==
    \A o \in mailbox \union batch[Paced] : o.act = "modify" =>
        /\ tracked[o.slot] \in {None, o.cid}
        /\ \A i \in DOMAIN events[o.slot] : events[o.slot][i].cid = o.cid

\* The next move of a slot is for the order the batch in hand leaves there.
MailboxFitsBatch ==
    \A o \in mailbox, p \in batch[Paced] :
        o.slot = p.slot /\ o.act = "modify" =>
            p.act # "create" /\ (p.act = "modify" => p.cid = o.cid)

Owned ==
    /\ ReconcilersCancel /\ BatchInHand /\ OneOpEach
    /\ CreatesIntoEmpty /\ MovesItsOrder /\ MailboxFitsBatch

\* The events of a slot are about one order, the one it tracks if any.
SameOrder ==
    \A s \in Slots : \A i \in DOMAIN events[s] :
        /\ tracked[s] # None => events[s][i].cid = tracked[s]
        /\ \A j \in DOMAIN events[s] : events[s][i].cid = events[s][j].cid

PlacingIsEmpty ==
    \A s \in Slots : status[s] = "PLACING" => tracked[s] = None

SlotInv == Owned /\ SameOrder /\ PlacingIsEmpty

-----------------------------------------------------------------------------
(* What the operators of the model return. *)

USE NoneAssumption, PacedAssumption, BoundAssumption, ConfigAssumption,
    DecisionAssumption

\* The last of a sequence is one of its elements.
LEMMA LastInSeq ==
    ASSUME NEW S, NEW q \in Seq(S), q # <<>>
    PROVE  /\ Last(q) \in S
           /\ Len(q) \in DOMAIN q /\ Last(q) = q[Len(q)]
BY DEF Last

\* A sequence with one more element.
LEMMA AppendFacts ==
    ASSUME NEW S, NEW q \in Seq(S), NEW e \in S
    PROVE  /\ Append(q, e) \in Seq(S) /\ Append(q, e) # <<>>
           /\ Last(Append(q, e)) = e
           /\ \A i \in DOMAIN Append(q, e) :
                  Append(q, e)[i] = e \/ (i \in DOMAIN q /\ Append(q, e)[i] = q[i])
           /\ \A i \in DOMAIN q : i \in DOMAIN Append(q, e)
                                  /\ Append(q, e)[i] = q[i]
BY DEF Last

\* A sequence without its first element.
LEMMA TailFacts ==
    ASSUME NEW S, NEW q \in Seq(S), q # <<>>
    PROVE  /\ Head(q) \in S /\ Tail(q) \in Seq(S)
           /\ 1 \in DOMAIN q /\ Head(q) = q[1]
           /\ \A i \in DOMAIN Tail(q) : i + 1 \in DOMAIN q /\ Tail(q)[i] = q[i + 1]
OBVIOUS

\* A drained slot tracks an order index or nothing, and has a status.
LEMMA HotTypes ==
    ASSUME TypeOK, NEW s \in Slots
    PROVE  HotTracked(s) \in Cids \union {None} /\ HotStatus(s) \in Status
<1>1. CASE events[s] = <<>>
  BY <1>1 DEF HotTracked, HotStatus, TypeOK
<1>2. CASE events[s] # <<>>
  <2>1. events[s] \in Seq(Event)
    BY DEF TypeOK
  <2>2. Last(events[s]) \in Event
    BY <2>1, <1>2, LastInSeq
  <2>3. QED
    BY <1>2, <2>2 DEF HotTracked, HotStatus, Event, Status
<1>3. QED
  BY <1>1, <1>2

\* What a reconcile makes of a slot.
LEMMA RecTypes ==
    ASSUME NEW id \in Cids \union {None}, NEW st \in Status
    PROVE  /\ RecTracked(id) \in {id, None} /\ RecTracked(id) \in Cids \union {None}
           /\ RecStatus(id, st) \in Status
BY DEF RecTracked, RecStatus, Missing, Status

\* What the entry of sign_and_send_batch does, without its free-slot choice.
EnterEffect(n, ops, box, safe) ==
    /\ safe \subseteq ops
    /\ \A o \in safe : o.act = "create" => RecTracked(HotTracked(o.slot)) = None
    /\ tracked' = [s \in Slots |-> RecTracked(HotTracked(s))]
    /\ status' = [s \in Slots |-> RecStatus(HotTracked(s), HotStatus(s))]
    /\ events' = [s \in Slots |-> <<>>]
    /\ latestRec' = {}
    /\ idMap' = idMap \union UNION latestRec
    /\ orphaned' = orphaned
         \union LostToSnapshot({HotTracked(s) : s \in Slots} \ {None})
    /\ batch' = [batch EXCEPT ![n] = safe]
    /\ \E q \in {"idle", "gate", "signing", "waiting"} :
         /\ pc' = [pc EXCEPT ![n] = q]
         /\ q \in {"idle", "gate"} => safe = {}
         /\ q = "signing" => LockFree

\* A batch that enters the sender has the effect of EnterEffect.
LEMMA EnterBatchEffect ==
    ASSUME NEW n, NEW ops, NEW box, EnterBatch(n, ops, box)
    PROVE  \E safe : EnterEffect(n, ops, box, safe)
<1>1. PICK kept \in {ops} \union FreeSlotPicks(ops) :
        LET held(s) == RecTracked(HotTracked(s))
            safe == {o \in kept : ~StaleCreate(o, held(o.slot))}
        IN  /\ tracked' = [s \in Slots |-> held(s)]
            /\ status' = [s \in Slots |-> RecStatus(HotTracked(s), HotStatus(s))]
            /\ events' = [s \in Slots |-> <<>>]
            /\ latestRec' = {}
            /\ idMap' = idMap \union UNION latestRec
            /\ orphaned' = orphaned
                 \union LostToSnapshot({HotTracked(s) : s \in Slots} \ {None})
            /\ batch' = [batch EXCEPT ![n] = safe]
            /\ pc' = [pc EXCEPT ![n] = IF safe = {} THEN Returned(n, box)
                                       ELSE IF LockFreeNow THEN "signing"
                                       ELSE "waiting"]
  BY DEF EnterBatch
<1> DEFINE safe == {o \in kept : ~StaleCreate(o, RecTracked(HotTracked(o.slot)))}
<1>2. kept \subseteq ops
  BY DEF FreeSlotPicks
<1>3. \A o \in safe : o.act = "create" => RecTracked(HotTracked(o.slot)) = None
  BY DEF StaleCreate
<1>4. Returned(n, box) \in {"idle", "gate"}
  BY DEF Returned
<1>5. EnterEffect(n, ops, box, safe)
  BY <1>1, <1>2, <1>3, <1>4 DEF EnterEffect, LockFreeNow
<1>6. QED
  BY <1>5

-----------------------------------------------------------------------------
(* Types. *)

\* The types at the start.
LEMMA TypeInit == Init => TypeOK
<1> SUFFICES ASSUME Init PROVE TypeOK
  OBVIOUS
<1>1. feed \in Seq(Message)
  BY DEF Init, Message
<1>2. /\ wsUp \in BOOLEAN /\ wsReady \in BOOLEAN /\ mailStale \in BOOLEAN
  BY DEF Init
<1>3. /\ events \in [Slots -> Seq(Event)]
      /\ faults \in 0..MaxFaults
  BY DEF Init
<1>4. /\ tracked \in [Slots -> Cids \union {None}]
      /\ status \in [Slots -> Status]
      /\ pc \in [Senders -> PC]
      /\ batch \in [Senders -> SUBSET Op]
      /\ restSnap \in [Reconcilers -> SUBSET SUBSET Cids]
      /\ exch \in [Cids -> {"none", "live", "dead"}]
      /\ home \in [Cids -> Slots \union {None}]
  BY DEF Init, Status, PC
<1>5. /\ latestRec \in SUBSET SUBSET Cids /\ idMap \in SUBSET Cids
      /\ mailbox \in SUBSET Op /\ accepted \in SUBSET Op
      /\ orphaned \in SUBSET Cids
  BY DEF Init
<1>6. QED
  BY <1>1, <1>2, <1>3, <1>4, <1>5 DEF TypeOK

\* A batch that enters keeps the types.
LEMMA EnterTypes ==
    ASSUME TypeOK, NEW n \in Senders, NEW ops \in SUBSET Op, NEW box, NEW safe,
           EnterEffect(n, ops, box, safe)
    PROVE  /\ tracked' \in [Slots -> Cids \union {None}]
           /\ status' \in [Slots -> Status]
           /\ events' \in [Slots -> Seq(Event)]
           /\ latestRec' \in SUBSET SUBSET Cids
           /\ idMap' \in SUBSET Cids /\ orphaned' \in SUBSET Cids
           /\ batch' \in [Senders -> SUBSET Op]
           /\ pc' \in [Senders -> PC]
<1>1. \A s \in Slots : /\ HotTracked(s) \in Cids \union {None}
                       /\ HotStatus(s) \in Status
  BY HotTypes
<1>2. \A s \in Slots : /\ RecTracked(HotTracked(s)) \in Cids \union {None}
                       /\ RecStatus(HotTracked(s), HotStatus(s)) \in Status
  BY <1>1, RecTypes
<1>3. LostToSnapshot({HotTracked(s) : s \in Slots} \ {None}) \in SUBSET Cids
  BY <1>1 DEF LostToSnapshot
<1>4. tracked' \in [Slots -> Cids \union {None}] /\ status' \in [Slots -> Status]
  BY <1>2 DEF EnterEffect
<1>5. events' \in [Slots -> Seq(Event)]
  BY DEF EnterEffect
<1>6. latestRec' \in SUBSET SUBSET Cids /\ idMap' \in SUBSET Cids
  BY DEF EnterEffect, TypeOK
<1>7. orphaned' \in SUBSET Cids
  BY <1>3 DEF EnterEffect, TypeOK
<1>8. batch' \in [Senders -> SUBSET Op]
  BY DEF EnterEffect, TypeOK
<1>9. pc' \in [Senders -> PC]
  BY DEF EnterEffect, TypeOK, PC
<1>10. QED
  BY <1>4, <1>5, <1>6, <1>7, <1>8, <1>9

\* Every step keeps the types.
LEMMA TypeStep ==
    ASSUME TypeOK, Issued, [Next]_vars
    PROVE  TypeOK'
<1> USE DEF TypeOK
<1>1. CASE HotTick
  <2>1. PICK want \in Wants : \E new \in Injection(EmptyQuoted(want), Fresh) :
          Tick(want, new)
    BY <1>1 DEF HotTick
  <2>a. PICK new \in Injection(EmptyQuoted(want), Fresh) : Tick(want, new)
    BY <2>1
  <2>2. \A s \in Slots : HotTracked(s) \in Cids \union {None}
                         /\ HotStatus(s) \in Status
    BY HotTypes
  <2>3. /\ EmptyQuoted(want) \subseteq Slots
        /\ \A s \in EmptyQuoted(want) : new[s] \in Cids
    BY DEF EmptyQuoted, Injection, Fresh
  <2>4. \A c \in Cids : (\E s \in EmptyQuoted(want) : new[s] = c) =>
           (CHOOSE s \in EmptyQuoted(want) : new[s] = c) \in Slots
    BY <2>3
  <2>5. CollectOps(want, new) \in SUBSET Op
    BY <2>2, <2>3 DEF CollectOps, Addressed, Op
  <2>6. home' \in [Cids -> Slots \union {None}]
    BY <2>a, <2>4 DEF Tick
  <2>7. mailStale' \in BOOLEAN /\ mailbox' \in SUBSET Op
    BY <2>a, <2>5 DEF Tick
  <2>8. pc' \in [Senders -> PC]
    BY <2>a DEF Tick, Senders, PC
  <2>9. QED
    BY <2>a, <2>2, <2>6, <2>7, <2>8 DEF Tick
<1>2. CASE PacedPull
  <2>1. PICK safe : EnterEffect(Paced, mailbox, {}, safe)
    BY <1>2, EnterBatchEffect DEF PacedPull
  <2>2. Paced \in Senders /\ mailbox \in SUBSET Op
    BY DEF Senders
  <2>3. QED
    BY <1>2, <2>1, <2>2, EnterTypes DEF PacedPull
<1>3. CASE PacedDenied
  <2>1. pc' \in [Senders -> PC]
    BY <1>3 DEF PacedDenied, PC
  <2>2. faults' \in 0..MaxFaults
    BY <1>3 DEF PacedDenied, Fault
  <2>3. mailStale' \in BOOLEAN
    BY <1>3 DEF PacedDenied
  <2>4. mailbox' \in SUBSET Op
    BY <1>3 DEF PacedDenied
  <2>5. QED
    BY <1>3, <2>1, <2>2, <2>3, <2>4 DEF PacedDenied
<1>4. ASSUME NEW n \in Senders, Send(n) PROVE TypeOK'
  <2>1. \A m \in Senders : \A box : Returned(m, box) \in PC
    BY DEF Returned, PC
  <2>2. CASE AcquireLock(n)
    BY <2>2 DEF AcquireLock, PC
  <2>3. CASE AbortBatch(n)
    BY <2>1, <2>3 DEF AbortBatch, GiveUp, Fault
  <2>4. CASE Signed(n)
    <3>1. \A ops, s : s \in Slots => Marked(ops, s) \in Status
      BY DEF Marked, Status
    <3>2. QED
      BY <2>4, <3>1 DEF Signed, Fault, PC
  <2>5. CASE Accept(n)
    BY <2>5 DEF Accept, PC
  <2>6. CASE Rejected(n)
    BY <2>1, <2>6 DEF Rejected, GiveUp, Fault
  <2>7. CASE AnswerLost(n)
    <3>1. CidsOf(Creates(batch[n])) \in SUBSET Cids
      BY DEF CidsOf, Creates, Op
    <3>2. QED
      BY <2>1, <2>7, <3>1 DEF AnswerLost, GiveUp, Fault
  <2>8. CASE Acked(n)
    <3> DEFINE sent(s) == CHOOSE o \in batch[n] : o.slot = s /\ o.act # "cancel"
    <3>1. ASSUME NEW s \in Slots,
                 \E o \in batch[n] : o.slot = s /\ o.act # "cancel"
          PROVE  Append(events[s], Bind(sent(s).cid)) \in Seq(Event)
      <4>1. sent(s) \in batch[n]
        BY <3>1
      <4>2. Bind(sent(s).cid) \in Event
        BY <4>1 DEF Bind, Event, Op
      <4>3. QED
        BY <4>2, AppendFacts
    <3>2. events' \in [Slots -> Seq(Event)]
      BY <2>8, <3>1 DEF Acked
    <3>3. QED
      BY <2>1, <2>8, <3>2 DEF Acked, GiveUp
  <2>9. QED
    BY <1>4, <2>2, <2>3, <2>4, <2>5, <2>6, <2>7, <2>8 DEF Send
<1>5. ASSUME NEW o \in accepted, Execute(o) PROVE TypeOK'
  <2>1. Opened(o.cid) \in Message /\ Closed(o.cid) \in Message
    BY DEF Opened, Closed, Message, Op
  <2>2. feed' \in Seq(Message)
    <3>1. feed' \in {feed, Append(feed, Opened(o.cid)), Append(feed, Closed(o.cid))}
      BY <1>5 DEF Execute, Announce
    <3>2. /\ feed \in Seq(Message)
          /\ Append(feed, Opened(o.cid)) \in Seq(Message)
          /\ Append(feed, Closed(o.cid)) \in Seq(Message)
      BY <2>1
    <3>3. QED
      BY <3>1, <3>2
  <2>3. exch' \in [Cids -> {"none", "live", "dead"}]
    BY <1>5 DEF Execute
  <2>4. QED
    BY <1>5, <2>2, <2>3 DEF Execute
<1>6. ASSUME NEW c \in Cids, Fill(c) PROVE TypeOK'
  <2>1. Closed(c) \in Message
    BY DEF Closed, Message
  <2>2. QED
    BY <1>6, <2>1 DEF Fill, Announce
<1>7. ASSUME NEW refresh \in BOOLEAN, FeedLost(refresh) PROVE TypeOK'
  <2>1. faults' \in 0..MaxFaults
    BY <1>7 DEF FeedLost, Fault
  <2>2. wsUp' \in BOOLEAN /\ wsReady' \in BOOLEAN
    BY <1>7, Zenon DEF FeedLost
  <2>3. feed' \in Seq(Message)
    BY <1>7 DEF FeedLost
  <2>4. QED
    BY <1>7, <2>1, <2>2, <2>3 DEF FeedLost
<1>8. CASE FeedSubscribed
  <2>1. <<[live |-> Live, dead |-> {}]>> \in Seq(Message)
    BY DEF Message, Live
  <2>2. QED
    BY <1>8, <2>1 DEF FeedSubscribed
<1>9. CASE OnAccountOrders
  <2>1. Head(feed) \in Message /\ Tail(feed) \in Seq(Message)
    BY <1>9, TailFacts DEF OnAccountOrders
  <2>2. ASSUME NEW s \in Slots PROVE
          /\ DeadFor(s, Head(feed)) # {} =>
               Append(events[s], Clear(CHOOSE c \in DeadFor(s, Head(feed)) : TRUE))
                 \in Seq(Event)
          /\ tracked[s] \in Head(feed).live =>
               Append(events[s], Bind(tracked[s])) \in Seq(Event)
    <3>1. Head(feed).dead \subseteq Cids /\ Head(feed).live \subseteq Cids
      BY <2>1 DEF Message
    <3>2. DeadFor(s, Head(feed)) # {} =>
            Clear(CHOOSE c \in DeadFor(s, Head(feed)) : TRUE) \in Event
      BY <3>1 DEF DeadFor, Clear, Event
    <3>3. tracked[s] \in Head(feed).live => Bind(tracked[s]) \in Event
      BY <3>1 DEF Bind, Event
    <3>4. QED
      BY <3>2, <3>3, AppendFacts
  <2>3. events' \in [Slots -> Seq(Event)]
    <3>1. CASE wsReady
      <4> DEFINE after(s) ==
            IF DeadFor(s, Head(feed)) # {}
            THEN Append(events[s], Clear(CHOOSE c \in DeadFor(s, Head(feed)) : TRUE))
            ELSE IF tracked[s] \in Head(feed).live
            THEN Append(events[s], Bind(tracked[s]))
            ELSE events[s]
      <4>1. events' = [s \in Slots |-> after(s)]
        BY <1>9, <3>1 DEF OnAccountOrders
      <4>2. \A s \in Slots : after(s) \in Seq(Event)
        BY <2>2
      <4>3. QED
        BY <4>1, <4>2
    <3>2. CASE ~wsReady
      BY <1>9, <3>2 DEF OnAccountOrders
    <3>3. QED
      BY <3>1, <3>2
  <2>4. latestRec' \in SUBSET SUBSET Cids /\ idMap' \in SUBSET Cids
    BY <1>9, <2>1 DEF OnAccountOrders, Message
  <2>5. wsReady' \in BOOLEAN /\ feed' \in Seq(Message)
    BY <1>9, <2>1 DEF OnAccountOrders
  <2>6. QED
    BY <1>9, <2>3, <2>4, <2>5 DEF OnAccountOrders
<1>10. ASSUME NEW r \in Reconcilers, ReconcilerStep(r) PROVE TypeOK'
  <2>1. CASE RestAnswered(r)
    BY <2>1 DEF RestAnswered, Live
  <2>2. CASE Reconcile(r)
    <3>1. PICK snap \in restSnap[r] : \E surplus \in SUBSET Surplus(snap) :
            ReconcileWith(r, snap, surplus)
      BY <2>2 DEF Reconcile
    <3>a. PICK surplus \in SUBSET Surplus(snap) : ReconcileWith(r, snap, surplus)
      BY <3>1
    <3> DEFINE cancels == Unknown(snap) \union surplus
    <3>2. snap \subseteq Cids /\ cancels \subseteq snap
      BY DEF Unknown, Surplus
    <3>3. \A c \in cancels : home[c] \in Slots
      BY <3>2 DEF Issued, IssuedOrders
    <3>4. {[act |-> "cancel", slot |-> home[c], cid |-> c] : c \in cancels}
            \in SUBSET Op
      BY <3>2, <3>3 DEF Op
    <3>5. pc' \in [Senders -> PC] /\ batch' \in [Senders -> SUBSET Op]
      <4>1. CASE cancels = {}
        BY <3>a, <4>1 DEF ReconcileWith
      <4>2. CASE cancels # {}
        <5>1. pc' = [pc EXCEPT ![r] = "gate"]
          BY <3>a, <4>2 DEF ReconcileWith
        <5>2. batch' = [batch EXCEPT ![r] =
                {[act |-> "cancel", slot |-> home[c], cid |-> c] : c \in cancels}]
          BY <3>a, <4>2 DEF ReconcileWith
        <5>3. QED
          BY <3>4, <5>1, <5>2 DEF PC
      <4>3. QED
        BY <4>1, <4>2
    <3>6. QED
      BY <3>a, <3>2, <3>5 DEF ReconcileWith
  <2>3. CASE ReconcilerSend(r)
    <3>1. PICK safe : EnterEffect(r, batch[r], mailbox, safe)
      BY <2>3, EnterBatchEffect DEF ReconcilerSend
    <3>2. r \in Senders /\ batch[r] \in SUBSET Op
      BY DEF Senders
    <3>3. /\ tracked' \in [Slots -> Cids \union {None}]
          /\ status' \in [Slots -> Status] /\ events' \in [Slots -> Seq(Event)]
          /\ latestRec' \in SUBSET SUBSET Cids
          /\ idMap' \in SUBSET Cids /\ orphaned' \in SUBSET Cids
          /\ batch' \in [Senders -> SUBSET Op] /\ pc' \in [Senders -> PC]
      <4> HIDE DEF TypeOK
      <4>1. QED
        BY <3>1, <3>2, EnterTypes
    <3>4. QED
      BY <2>3, <3>3 DEF ReconcilerSend
  <2>4. CASE ReconcilerDenied(r)
    BY <2>4 DEF ReconcilerDenied, GiveUp, Returned, Fault, PC, Senders
  <2>5. QED
    BY <1>10, <2>1, <2>2, <2>3, <2>4 DEF ReconcilerStep
<1>11. CASE ColdReconcile
  <2>1. \A s \in Slots : /\ RecTracked(tracked[s]) \in Cids \union {None}
                         /\ RecStatus(tracked[s], status[s]) \in Status
    <3>1. ASSUME NEW s \in Slots
          PROVE  tracked[s] \in Cids \union {None} /\ status[s] \in Status
      OBVIOUS
    <3>2. QED
      BY <3>1, RecTypes
  <2>2. LostToSnapshot(TrackedIds) \in SUBSET Cids
    BY DEF LostToSnapshot, TrackedIds
  <2>3. QED
    BY <1>11, <2>1, <2>2 DEF ColdReconcile
<1>12. CASE UNCHANGED vars
  BY <1>12 DEF vars
<1>13. QED
  BY <1>1, <1>2, <1>3, <1>4, <1>5, <1>6, <1>7, <1>8, <1>9, <1>10, <1>11, <1>12
     DEF Next

-----------------------------------------------------------------------------
(* Where an order index may occur. *)

\* The order a slot shows to the tick was issued for it.
LEMMA HotIssued ==
    ASSUME TypeOK, IssuedSlots, NEW s \in Slots, HotTracked(s) # None
    PROVE  HotTracked(s) \in Cids /\ home[HotTracked(s)] = s
<1>1. HotTracked(s) \in Cids
  BY HotTypes
<1>2. CASE events[s] = <<>>
  BY <1>1, <1>2 DEF HotTracked, IssuedSlots
<1>3. CASE events[s] # <<>>
  <2>1. events[s] \in Seq(Event)
    BY DEF TypeOK
  <2>2. Len(events[s]) \in DOMAIN events[s] /\ Last(events[s]) = events[s][Len(events[s])]
    BY <2>1, <1>3, LastInSeq
  <2>3. HotTracked(s) = Last(events[s]).cid
    BY <1>3 DEF HotTracked
  <2>4. QED
    BY <1>1, <2>2, <2>3 DEF IssuedSlots
<1>4. QED
  BY <1>2, <1>3

\* What a tick puts in the mailbox.
LEMMA TickOps ==
    ASSUME TypeOK, NEW want \in Wants,
           NEW new \in Injection(EmptyQuoted(want), Fresh)
    PROVE  /\ EmptyQuoted(want) \subseteq Slots
           /\ \A s \in EmptyQuoted(want) : new[s] \in Fresh /\ HotTracked(s) = None
           /\ \A s, u \in EmptyQuoted(want) : new[s] = new[u] => s = u
           /\ \A o \in CollectOps(want, new) :
                \/ /\ o.act = "create" /\ o.slot \in EmptyQuoted(want)
                   /\ o.cid = new[o.slot]
                \/ /\ o.act \in {"modify", "cancel"} /\ o.slot \in Slots
                   /\ o.cid = HotTracked(o.slot) /\ o.cid \in Cids
                   /\ want[o.slot] = IF o.act = "modify" THEN "move" ELSE "pull"
<1>1. /\ EmptyQuoted(want) \subseteq Slots
      /\ \A s \in EmptyQuoted(want) : new[s] \in Fresh /\ HotTracked(s) = None
      /\ \A s, u \in EmptyQuoted(want) : new[s] = new[u] => s = u
  BY DEF EmptyQuoted, Injection, IsInjective
<1>2. idMap \subseteq Cids
  BY DEF TypeOK
<1>3. QED
  BY <1>1, <1>2 DEF CollectOps, Addressed

\* A tick issues fresh indices and no other.
LEMMA TickHome ==
    ASSUME TypeOK, NEW want \in Wants,
           NEW new \in Injection(EmptyQuoted(want), Fresh), Tick(want, new)
    PROVE  /\ \A c \in Cids : home[c] # None => home'[c] = home[c]
           /\ \A s \in EmptyQuoted(want) : home'[new[s]] = s
<1>1. /\ \A s \in EmptyQuoted(want) : new[s] \in Cids /\ home[new[s]] = None
      /\ \A s, u \in EmptyQuoted(want) : new[s] = new[u] => s = u
  BY TickOps DEF Fresh
<1>2. \A s \in EmptyQuoted(want) :
         (CHOOSE u \in EmptyQuoted(want) : new[u] = new[s]) = s
  BY <1>1
<1>3. \A c \in Cids : home'[c] = IF \E s \in EmptyQuoted(want) : new[s] = c
                                 THEN CHOOSE s \in EmptyQuoted(want) : new[s] = c
                                 ELSE home[c]
  BY DEF Tick
<1>4. \A s \in EmptyQuoted(want) : home'[new[s]] = s
  BY <1>1, <1>2, <1>3
<1>5. \A c \in Cids : home[c] # None => home'[c] = home[c]
  BY <1>1, <1>3
<1>6. QED
  BY <1>4, <1>5

\* The events the feed adds to a slot are about the order it tracks.
LEMMA FeedEvents ==
    ASSUME TypeOK, OnAccountOrders, NEW s \in Slots
    PROVE  \/ events'[s] = events[s]
           \/ \E e \in Event :
                /\ events'[s] = Append(events[s], e)
                /\ e.cid = tracked[s] /\ e.cid \in Cids
                /\ \A i \in DOMAIN events'[s] :
                      \/ events'[s][i] = e
                      \/ i \in DOMAIN events[s] /\ events'[s][i] = events[s][i]
<1>1. Head(feed) \in Message
  BY TailFacts DEF OnAccountOrders, TypeOK
<1>2. Head(feed).dead \subseteq Cids /\ Head(feed).live \subseteq Cids
  BY <1>1 DEF Message
<1>3. events[s] \in Seq(Event)
  BY DEF TypeOK
<1>4. ASSUME NEW e \in Event, events'[s] = Append(events[s], e)
      PROVE  \A i \in DOMAIN events'[s] :
               \/ events'[s][i] = e
               \/ i \in DOMAIN events[s] /\ events'[s][i] = events[s][i]
  BY <1>3, <1>4, AppendFacts
<1>5. CASE ~wsReady \/ (DeadFor(s, Head(feed)) = {} /\ tracked[s] \notin Head(feed).live)
  BY <1>5 DEF OnAccountOrders
<1>6. CASE wsReady /\ DeadFor(s, Head(feed)) # {}
  <2> DEFINE c == CHOOSE d \in DeadFor(s, Head(feed)) : TRUE
  <2>1. c = tracked[s] /\ c \in Cids
    BY <1>2, <1>6 DEF DeadFor
  <2>2. Clear(c) \in Event /\ Clear(c).cid = c
    BY <2>1 DEF Clear, Event
  <2>3. events'[s] = Append(events[s], Clear(c))
    BY <1>6 DEF OnAccountOrders
  <2>4. QED
    BY <1>4, <2>1, <2>2, <2>3
<1>7. CASE wsReady /\ DeadFor(s, Head(feed)) = {} /\ tracked[s] \in Head(feed).live
  <2>1. Bind(tracked[s]) \in Event /\ Bind(tracked[s]).cid = tracked[s]
        /\ tracked[s] \in Cids
    BY <1>2, <1>7 DEF Bind, Event
  <2>2. events'[s] = Append(events[s], Bind(tracked[s]))
    BY <1>7 DEF OnAccountOrders
  <2>3. QED
    BY <1>4, <2>1, <2>2
<1>8. QED
  BY <1>5, <1>6, <1>7

\* No id was issued at the start.
LEMMA IssuedInit == Init => Issued
BY DEF Init, Issued, IssuedSlots, IssuedOps, IssuedOrders

\* A batch that enters holds ids where they were issued.
LEMMA EnterIssued ==
    ASSUME TypeOK, Issued, NEW n \in Senders, NEW ops,
           \A o \in ops : home[o.cid] = o.slot,
           NEW safe, EnterEffect(n, ops, {}, safe) \/ EnterEffect(n, ops, mailbox, safe),
           UNCHANGED <<home, accepted, exch, restSnap>>,
           mailbox' \in {mailbox, {}}
    PROVE  Issued'
<1>1. \A s \in Slots : HotTracked(s) # None => home[HotTracked(s)] = s
  BY HotIssued DEF Issued
<1>2. \A s \in Slots : tracked'[s] \in {HotTracked(s), None} /\ events'[s] = <<>>
  BY DEF EnterEffect, RecTracked
<1>3. IssuedSlots'
  BY <1>1, <1>2 DEF IssuedSlots
<1>4. safe \subseteq ops /\ batch' = [batch EXCEPT ![n] = safe]
  BY DEF EnterEffect
<1>5. IssuedOps'
  BY <1>4 DEF Issued, IssuedOps, TypeOK
<1>6. IssuedOrders'
  BY DEF Issued, IssuedOrders
<1>7. QED
  BY <1>3, <1>5, <1>6 DEF Issued

\* Every step leaves ids where they were issued.
LEMMA IssuedStep ==
    ASSUME TypeOK, Issued, TypeOK', [Next]_vars
    PROVE  Issued'
<1> USE DEF Issued
<1>1. CASE HotTick
  <2>1. PICK want \in Wants : \E new \in Injection(EmptyQuoted(want), Fresh) :
          Tick(want, new)
    BY <1>1 DEF HotTick
  <2>2. PICK new \in Injection(EmptyQuoted(want), Fresh) : Tick(want, new)
    BY <2>1
  <2>3. \A c \in Cids : home[c] # None => home'[c] = home[c]
    BY <2>2, TickHome
  <2>4. \A s \in Slots : HotTracked(s) # None =>
           HotTracked(s) \in Cids /\ home[HotTracked(s)] = s
    BY HotIssued
  <2>5. IssuedSlots'
    BY SMTT(30), <2>2, <2>3, <2>4 DEF Tick, IssuedSlots
  <2>6. \A o \in CollectOps(want, new) : home'[o.cid] = o.slot
    <3>1. \A s \in EmptyQuoted(want) : home'[new[s]] = s
      BY <2>2, TickHome
    <3>2. ASSUME NEW o \in CollectOps(want, new) PROVE home'[o.cid] = o.slot
      <4>1. CASE o.slot \in EmptyQuoted(want) /\ o.cid = new[o.slot]
        BY <3>1, <4>1
      <4>2. CASE o.slot \in Slots /\ o.cid = HotTracked(o.slot) /\ o.cid \in Cids
        BY <2>3, <2>4, <4>2
      <4>3. QED
        BY <4>1, <4>2, TickOps
    <3>3. QED
      BY <3>2
  <2>7. \A o \in Op : home[o.cid] = o.slot => home'[o.cid] = o.slot
    BY <2>3 DEF Op
  <2>8. IssuedOps'
    BY <2>2, <2>6, <2>7 DEF Tick, IssuedOps, TypeOK
  <2>9. IssuedOrders'
    <3>1. UNCHANGED <<exch, restSnap>>
      BY <2>2 DEF Tick
    <3>2. QED
      <4>1. \A c \in Cids : exch[c] # "none" => home[c] \in Slots /\ home[c] # None
        BY DEF IssuedOrders
      <4>2. \A r \in Reconcilers : \A snap \in restSnap[r] : \A c \in snap :
               c \in Cids /\ home[c] \in Slots /\ home[c] # None
        BY DEF IssuedOrders, TypeOK
      <4>3. QED
        BY <2>3, <3>1, <4>1, <4>2 DEF IssuedOrders
  <2>10. QED
    BY <2>5, <2>8, <2>9
<1>2. CASE PacedPull
  <2>1. PICK safe : EnterEffect(Paced, mailbox, {}, safe)
    BY <1>2, EnterBatchEffect DEF PacedPull
  <2>2. Paced \in Senders /\ \A o \in mailbox : home[o.cid] = o.slot
    BY DEF Senders, IssuedOps
  <2>3. UNCHANGED <<home, accepted, exch, restSnap>> /\ mailbox' = {}
    BY <1>2 DEF PacedPull
  <2>4. QED
    BY <2>1, <2>2, <2>3, EnterIssued
<1>3. CASE PacedDenied
  BY <1>3 DEF PacedDenied, IssuedSlots, IssuedOps, IssuedOrders
<1>4. ASSUME NEW n \in Senders, Send(n) PROVE Issued'
  <2>1. ASSUME UNCHANGED <<tracked, events, home>> PROVE IssuedSlots'
    BY <2>1 DEF IssuedSlots
  <2>2. ASSUME UNCHANGED <<mailbox, accepted, home>>,
               \A m \in Senders : batch'[m] \subseteq batch[m]
        PROVE  IssuedOps'
    BY <2>2 DEF IssuedOps
  <2>3. IssuedOrders'
    BY <1>4 DEF Send, AcquireLock, AbortBatch, Signed, Accept, Rejected,
                AnswerLost, Acked, IssuedOrders
  <2>4. CASE AcquireLock(n)
    BY <2>1, <2>2, <2>3, <2>4 DEF AcquireLock
  <2>5. CASE AbortBatch(n) \/ Rejected(n) \/ AnswerLost(n)
    <3>1. /\ UNCHANGED <<tracked, events, home, mailbox, accepted>>
          /\ batch' = [batch EXCEPT ![n] = {}]
      BY <2>5 DEF AbortBatch, Rejected, AnswerLost, GiveUp
    <3>2. \A m \in Senders : batch'[m] \subseteq batch[m]
      BY <3>1 DEF TypeOK
    <3>3. QED
      BY <2>1, <2>2, <2>3, <3>1, <3>2
  <2>6. CASE Signed(n)
    <3>1. \A m \in Senders : batch'[m] \subseteq batch[m]
      BY <2>6 DEF Signed, TypeOK
    <3>2. UNCHANGED <<tracked, events, home, mailbox, accepted>>
      BY <2>6 DEF Signed
    <3>3. QED
      BY <2>1, <2>2, <2>3, <3>1, <3>2
  <2>7. CASE Accept(n)
    <3>1. IssuedOps'
      BY <2>7 DEF Accept, IssuedOps
    <3>2. QED
      BY <2>1, <2>3, <2>7, <3>1 DEF Accept
  <2>8. CASE Acked(n)
    <3> DEFINE sent(s) == CHOOSE o \in batch[n] : o.slot = s /\ o.act # "cancel"
    <3>1. IssuedOps'
      BY <2>2, <2>8 DEF Acked, GiveUp, TypeOK
    <3>2. ASSUME NEW s \in Slots, NEW i \in DOMAIN events'[s]
          PROVE  home'[events'[s][i].cid] = s
      <4>1. CASE ~\E o \in batch[n] : o.slot = s /\ o.act # "cancel"
        BY <2>8, <4>1, <3>2 DEF Acked, IssuedSlots
      <4>2. CASE \E o \in batch[n] : o.slot = s /\ o.act # "cancel"
        <5>1. sent(s) \in batch[n] /\ sent(s).slot = s
          BY <4>2
        <5>2. Bind(sent(s).cid) \in Event /\ home[Bind(sent(s).cid).cid] = s
          BY <5>1 DEF Bind, Event, TypeOK, Op, IssuedOps
        <5>3. events'[s] = Append(events[s], Bind(sent(s).cid)) /\ home' = home
          BY <2>8, <4>2 DEF Acked
        <5>4. events[s] \in Seq(Event)
          BY DEF TypeOK
        <5>5. \/ events'[s][i] = Bind(sent(s).cid)
              \/ i \in DOMAIN events[s] /\ events'[s][i] = events[s][i]
          BY <3>2, <5>2, <5>3, <5>4, AppendFacts
        <5>6. QED
          BY <5>2, <5>3, <5>5 DEF IssuedSlots
      <4>3. QED
        BY <4>1, <4>2
    <3>3. IssuedSlots'
      BY <2>8, <3>2 DEF Acked, IssuedSlots
    <3>4. QED
      BY <2>3, <3>1, <3>3
  <2>9. QED
    BY <1>4, <2>4, <2>5, <2>6, <2>7, <2>8 DEF Send
<1>5. ASSUME NEW o \in accepted, Execute(o) PROVE Issued'
  <2>1. IssuedSlots' /\ IssuedOps'
    BY <1>5 DEF Execute, IssuedSlots, IssuedOps
  <2>2. o.cid \in Cids /\ home[o.cid] \in Slots
    BY DEF TypeOK, Op, IssuedOps
  <2>3. IssuedOrders'
    BY <1>5, <2>2 DEF Execute, IssuedOrders, TypeOK
  <2>4. QED
    BY <2>1, <2>3
<1>6. ASSUME NEW c \in Cids, Fill(c) PROVE Issued'
  <2>1. IssuedSlots' /\ IssuedOps'
    BY <1>6 DEF Fill, IssuedSlots, IssuedOps
  <2>2. IssuedOrders'
    BY <1>6 DEF Fill, IssuedOrders, TypeOK
  <2>3. QED
    BY <2>1, <2>2
<1>7. ASSUME NEW refresh \in BOOLEAN, FeedLost(refresh) PROVE Issued'
  BY <1>7 DEF FeedLost, IssuedSlots, IssuedOps, IssuedOrders
<1>8. CASE FeedSubscribed
  BY <1>8 DEF FeedSubscribed, IssuedSlots, IssuedOps, IssuedOrders
<1>9. CASE OnAccountOrders
  <2>1. IssuedOps' /\ IssuedOrders'
    BY <1>9 DEF OnAccountOrders, IssuedOps, IssuedOrders
  <2>2. ASSUME NEW s \in Slots, NEW i \in DOMAIN events'[s]
        PROVE  home'[events'[s][i].cid] = s
    <3>1. home' = home
      BY <1>9 DEF OnAccountOrders
    <3>2. CASE events'[s] = events[s]
      BY <2>2, <3>1, <3>2 DEF IssuedSlots
    <3>3. CASE \E e \in Event :
                 /\ e.cid = tracked[s] /\ e.cid \in Cids
                 /\ \/ events'[s][i] = e
                    \/ i \in DOMAIN events[s] /\ events'[s][i] = events[s][i]
      BY <3>1, <3>3 DEF IssuedSlots
    <3>4. QED
      BY <1>9, <2>2, <3>2, <3>3, FeedEvents
  <2>3. IssuedSlots'
    BY <1>9, <2>2 DEF OnAccountOrders, IssuedSlots
  <2>4. QED
    BY <2>1, <2>3
<1>10. ASSUME NEW r \in Reconcilers, ReconcilerStep(r) PROVE Issued'
  <2>1. CASE RestAnswered(r)
    <3>1. IssuedSlots' /\ IssuedOps'
      BY <2>1 DEF RestAnswered, IssuedSlots, IssuedOps
    <3>2. IssuedOrders'
      BY <2>1 DEF RestAnswered, IssuedOrders, TypeOK, Live
    <3>3. QED
      BY <3>1, <3>2
  <2>2. CASE Reconcile(r)
    <3>1. PICK snap \in restSnap[r] : \E surplus \in SUBSET Surplus(snap) :
            ReconcileWith(r, snap, surplus)
      BY <2>2 DEF Reconcile
    <3>2. PICK surplus \in SUBSET Surplus(snap) : ReconcileWith(r, snap, surplus)
      BY <3>1
    <3> DEFINE cancels == Unknown(snap) \union surplus
               ops == {[act |-> "cancel", slot |-> home[c], cid |-> c] : c \in cancels}
    <3>3. IssuedSlots'
      BY <3>2 DEF ReconcileWith, IssuedSlots
    <3>4. IssuedOrders'
      BY <3>2 DEF ReconcileWith, IssuedOrders, TypeOK
    <3>5. \A o \in ops : home[o.cid] = o.slot
      OBVIOUS
    <3>6. batch' \in {batch, [batch EXCEPT ![r] = ops]}
      BY <3>2 DEF ReconcileWith
    <3>7. UNCHANGED <<home, mailbox, accepted>>
      BY <3>2 DEF ReconcileWith
    <3> HIDE DEF ops
    <3>8. IssuedOps'
      <4>1. \A m \in Senders : batch'[m] \in {batch[m], ops}
        BY <3>6 DEF TypeOK
      <4>2. QED
        BY <3>5, <3>7, <4>1 DEF IssuedOps
    <3>9. QED
      BY <3>3, <3>4, <3>8
  <2>3. CASE ReconcilerSend(r)
    <3>1. PICK safe : EnterEffect(r, batch[r], mailbox, safe)
      BY <2>3, EnterBatchEffect DEF ReconcilerSend
    <3>2. r \in Senders /\ \A o \in batch[r] : home[o.cid] = o.slot
      BY DEF Senders, IssuedOps
    <3>3. UNCHANGED <<home, accepted, exch, restSnap, mailbox>>
      BY <2>3 DEF ReconcilerSend
    <3>4. QED
      BY <3>1, <3>2, <3>3, EnterIssued
  <2>4. CASE ReconcilerDenied(r)
    <3>1. r \in Senders
      BY DEF Senders
    <3>2. QED
      BY <2>4, <3>1 DEF ReconcilerDenied, GiveUp, IssuedSlots, IssuedOps,
                        IssuedOrders, TypeOK
  <2>5. QED
    BY <1>10, <2>1, <2>2, <2>3, <2>4 DEF ReconcilerStep
<1>11. CASE ColdReconcile
  <2>1. \A s \in Slots : tracked'[s] \in {tracked[s], None}
    BY <1>11 DEF ColdReconcile, RecTracked
  <2>2. IssuedSlots'
    BY <1>11, <2>1 DEF ColdReconcile, IssuedSlots
  <2>3. IssuedOps' /\ IssuedOrders'
    BY <1>11 DEF ColdReconcile, IssuedOps, IssuedOrders
  <2>4. QED
    BY <2>2, <2>3
<1>12. CASE UNCHANGED vars
  BY <1>12 DEF vars, IssuedSlots, IssuedOps, IssuedOrders
<1>13. QED
  BY <1>1, <1>2, <1>3, <1>4, <1>5, <1>6, <1>7, <1>8, <1>9, <1>10, <1>11, <1>12
     DEF Next

-----------------------------------------------------------------------------
(* What a slot and its events are about. *)

\* A slot whose order and events are all of one id shows that id.
LEMMA HotSame ==
    ASSUME TypeOK, NEW s \in Slots, NEW c \in Cids, tracked[s] \in {None, c},
           \A i \in DOMAIN events[s] : events[s][i].cid = c
    PROVE  HotTracked(s) \in {None, c}
<1>1. CASE events[s] = <<>>
  BY <1>1 DEF HotTracked
<1>2. CASE events[s] # <<>>
  <2>1. events[s] \in Seq(Event)
    BY DEF TypeOK
  <2>2. Last(events[s]).cid = c
    BY <1>2, <2>1, LastInSeq
  <2>3. QED
    BY <1>2, <2>2 DEF HotTracked
<1>3. QED
  BY <1>1, <1>2

\* A slot that is placing shows no order.
LEMMA HotPlacing ==
    ASSUME PlacingIsEmpty, NEW s \in Slots, HotStatus(s) = "PLACING"
    PROVE  HotTracked(s) = None
<1>1. events[s] = <<>> /\ status[s] = "PLACING"
  BY DEF HotStatus
<1>2. QED
  BY <1>1 DEF HotTracked, PlacingIsEmpty

\* Draining the events of the slots disturbs neither the batch in hand nor
\* the mailbox.
LEMMA DrainKeeps ==
    ASSUME TypeOK, Owned,
           \A s \in Slots : tracked'[s] \in {HotTracked(s), None} /\ events'[s] = <<>>
    PROVE  /\ \A o \in batch[Paced] : o.act = "create" =>
                HotTracked(o.slot) = None
                /\ tracked'[o.slot] = None /\ events'[o.slot] = <<>>
           /\ \A o \in mailbox \union batch[Paced] : o.act = "modify" =>
                /\ HotTracked(o.slot) \in {None, o.cid}
                /\ tracked'[o.slot] \in {None, o.cid}
                /\ \A i \in DOMAIN events'[o.slot] : events'[o.slot][i].cid = o.cid
           /\ SameOrder'
<1>1. \A o \in mailbox \union batch[Paced] : o.slot \in Slots
  BY DEF TypeOK, Op, Senders
<1>2. ASSUME NEW o \in batch[Paced], o.act = "create"
      PROVE  HotTracked(o.slot) = None
             /\ tracked'[o.slot] = None /\ events'[o.slot] = <<>>
  <2>1. HotTracked(o.slot) = None
    BY <1>2 DEF HotTracked, Owned, CreatesIntoEmpty
  <2>2. QED
    BY <1>1, <2>1
<1>3. ASSUME NEW o \in mailbox \union batch[Paced], o.act = "modify"
      PROVE  /\ HotTracked(o.slot) \in {None, o.cid}
             /\ tracked'[o.slot] \in {None, o.cid}
             /\ \A i \in DOMAIN events'[o.slot] : events'[o.slot][i].cid = o.cid
  <2>1. HotTracked(o.slot) \in {None, o.cid}
    <3>1. /\ o.slot \in Slots /\ o.cid \in Cids
          /\ tracked[o.slot] \in {None, o.cid}
          /\ \A i \in DOMAIN events[o.slot] : events[o.slot][i].cid = o.cid
      BY <1>1, <1>3 DEF Owned, MovesItsOrder, TypeOK, Op, Senders
    <3>2. QED
      BY <3>1, HotSame
  <2>2. QED
    BY <1>1, <2>1
<1>4. SameOrder'
  BY DEF SameOrder
<1>5. QED
  BY <1>2, <1>3, <1>4

\* No slot is in use at the start.
LEMMA SlotInit == Init => SlotInv
BY DEF Init, SlotInv, Owned, ReconcilersCancel, BatchInHand, OneOpEach,
       OneOpPerSlot, CreatesIntoEmpty, MovesItsOrder, MailboxFitsBatch,
       SameOrder, PlacingIsEmpty, Senders

\* Steps that leave the slots, the mailbox and the ops in hand alone, but
\* for ops that are dropped or handed to a reconciler to cancel.
LEMMA SlotFrame ==
    ASSUME TypeOK, SlotInv,
           UNCHANGED <<tracked, status, events>>,
           mailbox' \subseteq mailbox,
           batch'[Paced] \subseteq batch[Paced],
           \A r \in Reconcilers : \A o \in batch'[r] :
               o \in batch[r] \/ o.act = "cancel",
           pc'[Paced] \in {"idle", "gate"} => batch'[Paced] = {}
    PROVE  SlotInv'
<1> USE DEF SlotInv, Owned
<1>1. ReconcilersCancel' /\ BatchInHand'
  BY DEF ReconcilersCancel, BatchInHand
<1>2. OneOpEach'
  BY DEF OneOpEach, OneOpPerSlot
<1>3. CreatesIntoEmpty' /\ MovesItsOrder' /\ MailboxFitsBatch'
  BY DEF CreatesIntoEmpty, MovesItsOrder, MailboxFitsBatch
<1>4. SameOrder' /\ PlacingIsEmpty'
  BY DEF SameOrder, PlacingIsEmpty
<1>5. QED
  BY <1>1, <1>2, <1>3, <1>4

\* Entering sign_and_send_batch, as the paced sender or as a reconciler.
LEMMA EnterSlots ==
    ASSUME TypeOK, SlotInv, NEW n \in Senders, NEW ops, NEW box, NEW safe,
           EnterEffect(n, ops, box, safe),
           \/ n = Paced /\ ops = mailbox /\ mailbox' = {}
           \/ n \in Reconcilers /\ ops = batch[n] /\ mailbox' = mailbox
    PROVE  SlotInv'
<1> USE DEF SlotInv, Owned
<1>1. \A s \in Slots : /\ tracked'[s] = RecTracked(HotTracked(s))
                       /\ tracked'[s] \in {HotTracked(s), None}
                       /\ events'[s] = <<>>
  BY DEF EnterEffect, RecTracked
<1>2. SameOrder'
  BY <1>1, DrainKeeps
<1>3. PlacingIsEmpty'
  <2>1. ASSUME NEW s \in Slots, status'[s] = "PLACING" PROVE tracked'[s] = None
    <3>1. HotStatus(s) = "PLACING"
      BY <2>1 DEF EnterEffect, RecStatus
    <3>2. QED
      BY <1>1, <3>1, HotPlacing
  <2>2. QED
    BY <2>1 DEF PlacingIsEmpty
<1>4. /\ safe \subseteq ops /\ batch' = [batch EXCEPT ![n] = safe]
      /\ batch'[n] = safe
      /\ \A m \in Senders : m # n => batch'[m] = batch[m]
      /\ \A o \in safe : o.act = "create" => RecTracked(HotTracked(o.slot)) = None
  BY DEF EnterEffect, TypeOK
<1>5. pc'[n] \in {"idle", "gate"} => safe = {}
  BY DEF EnterEffect, TypeOK
<1>6. \A m \in Senders : m # n => pc'[m] = pc[m]
  BY DEF EnterEffect, TypeOK
<1>7. Paced \in Senders /\ Reconcilers \subseteq Senders /\ Paced \notin Reconcilers
  BY DEF Senders
<1>8. CASE n = Paced
  <2>1. safe \subseteq mailbox /\ mailbox' = {}
    BY <1>4, <1>7, <1>8
  <2>2. \A o \in safe : o.slot \in Slots
    BY <2>1 DEF TypeOK, Op
  <2>3. ReconcilersCancel' /\ BatchInHand'
    BY <1>4, <1>5, <1>7, <1>8 DEF ReconcilersCancel, BatchInHand
  <2>4. OneOpEach' /\ MailboxFitsBatch'
    BY <1>4, <1>8, <2>1 DEF OneOpEach, OneOpPerSlot, MailboxFitsBatch
  <2>5. CreatesIntoEmpty'
    BY <1>1, <1>4, <1>8, <2>2 DEF CreatesIntoEmpty
  <2>6. MovesItsOrder'
    BY <1>1, <1>4, <1>8, <2>1, DrainKeeps DEF MovesItsOrder
  <2>7. QED
    BY <1>2, <1>3, <2>3, <2>4, <2>5, <2>6
<1>9. CASE n \in Reconcilers
  <2>1. safe \subseteq batch[n] /\ mailbox' = mailbox /\ batch'[Paced] = batch[Paced]
        /\ pc'[Paced] = pc[Paced]
    BY <1>4, <1>6, <1>7, <1>9
  <2>2. ReconcilersCancel' /\ BatchInHand'
    BY <1>4, <1>7, <1>9, <2>1 DEF ReconcilersCancel, BatchInHand
  <2>3. OneOpEach' /\ MailboxFitsBatch'
    BY <2>1 DEF OneOpEach, OneOpPerSlot, MailboxFitsBatch
  <2>4. CreatesIntoEmpty'
    BY <1>1, <2>1, DrainKeeps DEF CreatesIntoEmpty
  <2>5. MovesItsOrder'
    BY <1>1, <2>1, DrainKeeps DEF MovesItsOrder
  <2>6. QED
    BY <1>2, <1>3, <2>2, <2>3, <2>4, <2>5
<1>10. QED
  BY <1>7, <1>8, <1>9 DEF Senders

\* Every step keeps what is true of a slot.
LEMMA SlotStep ==
    ASSUME TypeOK, Issued, SlotInv, TypeOK', [Next]_vars
    PROVE  SlotInv'
<1> USE DEF SlotInv, Owned
<1>p. Paced \in Senders /\ Reconcilers \subseteq Senders /\ Paced \notin Reconcilers
  BY DEF Senders
<1>1. CASE HotTick
  <2>1. PICK want \in Wants : \E new \in Injection(EmptyQuoted(want), Fresh) :
          Tick(want, new)
    BY <1>1 DEF HotTick
  <2>2. PICK new \in Injection(EmptyQuoted(want), Fresh) : Tick(want, new)
    BY <2>1
  <2>3. /\ \A s \in Slots : tracked'[s] = HotTracked(s) /\ events'[s] = <<>>
        /\ batch' = batch /\ mailbox' \in {mailbox, CollectOps(want, new)}
        /\ \A s \in Slots : status'[s] = HotStatus(s)
    BY <2>2 DEF Tick
  <2>4. /\ \A o \in batch[Paced] : o.act = "create" =>
               HotTracked(o.slot) = None
               /\ tracked'[o.slot] = None /\ events'[o.slot] = <<>>
        /\ \A o \in mailbox \union batch[Paced] : o.act = "modify" =>
               /\ HotTracked(o.slot) \in {None, o.cid}
               /\ tracked'[o.slot] \in {None, o.cid}
               /\ \A i \in DOMAIN events'[o.slot] : events'[o.slot][i].cid = o.cid
        /\ SameOrder'
    BY <2>3, DrainKeeps
  <2>5. \A o \in CollectOps(want, new) :
          \/ o.act = "create" /\ o.slot \in EmptyQuoted(want)
             /\ o.cid = new[o.slot]
          \/ /\ o.act \in {"modify", "cancel"} /\ o.slot \in Slots
             /\ o.cid = HotTracked(o.slot) /\ o.cid \in Cids
             /\ want[o.slot] = IF o.act = "modify" THEN "move" ELSE "pull"
    BY TickOps
  <2>6. \A s \in EmptyQuoted(want) : s \in Slots /\ HotTracked(s) = None
    BY TickOps
  <2>7. ReconcilersCancel'
    BY <2>3 DEF ReconcilersCancel
  <2>8. BatchInHand'
    BY <2>2, <1>p DEF Tick, BatchInHand, TypeOK
  <2>9. OneOpEach'
    <3>1. OneOpPerSlot(CollectOps(want, new))
      BY DEF OneOpPerSlot, CollectOps, EmptyQuoted, Addressed, TypeOK
    <3>2. QED
      BY <2>3, <3>1 DEF OneOpEach, OneOpPerSlot
  <2>10. CreatesIntoEmpty'
    BY <2>3, <2>4 DEF CreatesIntoEmpty
  <2>11. MovesItsOrder'
    BY <2>3, <2>4, <2>5 DEF MovesItsOrder
  <2>12. MailboxFitsBatch'
    BY <2>3, <2>4, <2>5 DEF MailboxFitsBatch
  <2>13. PlacingIsEmpty'
    BY <2>3, HotPlacing DEF PlacingIsEmpty
  <2>14. QED
    BY <2>4, <2>7, <2>8, <2>9, <2>10, <2>11, <2>12, <2>13
<1>2. CASE PacedPull
  <2>1. PICK safe : EnterEffect(Paced, mailbox, {}, safe)
    BY <1>2, EnterBatchEffect DEF PacedPull
  <2>2. mailbox' = {}
    BY <1>2 DEF PacedPull
  <2>3. QED
    BY <1>p, <2>1, <2>2, EnterSlots
<1>3. CASE PacedDenied
  <2>1. batch[Paced] = {}
    BY <1>3 DEF PacedDenied, BatchInHand
  <2>2. QED
    BY <1>3, <2>1, SlotFrame DEF PacedDenied
<1>4. ASSUME NEW n \in Senders, Send(n) PROVE SlotInv'
  <2>1. CASE AcquireLock(n)
    <3>1. pc'[Paced] \in {"idle", "gate"} => batch'[Paced] = {}
      BY <1>p, <2>1 DEF AcquireLock, BatchInHand, TypeOK
    <3>2. QED
      BY <2>1, <3>1, SlotFrame DEF AcquireLock
  <2>2. CASE AbortBatch(n) \/ Rejected(n) \/ AnswerLost(n)
    <3>1. GiveUp(n) /\ UNCHANGED <<tracked, status, events, mailbox>>
      BY <2>2 DEF AbortBatch, Rejected, AnswerLost
    <3>2. /\ pc'[Paced] \in {"idle", "gate"} => batch'[Paced] = {}
          /\ \A m \in Senders : batch'[m] \subseteq batch[m]
      BY <1>p, <3>1 DEF GiveUp, BatchInHand, TypeOK
    <3>3. QED
      BY <1>p, <3>1, <3>2, SlotFrame
  <2>3. CASE Signed(n)
    <3>1. /\ UNCHANGED <<tracked, events, mailbox>>
          /\ \A m \in Senders : batch'[m] \subseteq batch[m]
          /\ pc' = [pc EXCEPT ![n] = "inflight"]
      BY <2>3 DEF Signed, TypeOK
    <3>2. ReconcilersCancel' /\ OneOpEach'
      BY <1>p, <3>1 DEF ReconcilersCancel, OneOpEach, OneOpPerSlot
    <3>3. BatchInHand'
      BY <1>p, <3>1 DEF BatchInHand, TypeOK
    <3>4. CreatesIntoEmpty' /\ MovesItsOrder' /\ MailboxFitsBatch'
      BY <1>p, <3>1 DEF CreatesIntoEmpty, MovesItsOrder, MailboxFitsBatch
    <3>5. SameOrder'
      BY <3>1 DEF SameOrder
    <3>6. ASSUME NEW s \in Slots, status'[s] = "PLACING" PROVE tracked'[s] = None
      <4>1. status[s] = "PLACING" \/ \E o \in batch[n] : o.slot = s /\ o.act = "create"
        BY <2>3, <3>6 DEF Signed, Marked
      <4>2. CASE status[s] = "PLACING"
        BY <3>1, <4>2 DEF PlacingIsEmpty
      <4>3. CASE \E o \in batch[n] : o.slot = s /\ o.act = "create"
        <5>1. n = Paced
          BY <4>3 DEF Senders, ReconcilersCancel
        <5>2. QED
          BY <3>1, <4>3, <5>1 DEF CreatesIntoEmpty
      <4>4. QED
        BY <4>1, <4>2, <4>3
    <3>7. QED
      BY <3>2, <3>3, <3>4, <3>5, <3>6 DEF PlacingIsEmpty
  <2>4. CASE Accept(n)
    <3>1. pc'[Paced] \in {"idle", "gate"} => batch'[Paced] = {}
      BY <1>p, <2>4 DEF Accept, BatchInHand, TypeOK
    <3>2. QED
      BY <2>4, <3>1, SlotFrame DEF Accept
  <2>5. CASE Acked(n)
    <3>1. /\ UNCHANGED <<tracked, status, mailbox>>
          /\ batch' = [batch EXCEPT ![n] = {}]
          /\ pc' = [pc EXCEPT ![n] = Returned(n, mailbox)]
      BY <2>5 DEF Acked, GiveUp
    <3>2. ReconcilersCancel' /\ BatchInHand' /\ OneOpEach'
      BY <1>p, <3>1 DEF ReconcilersCancel, BatchInHand, OneOpEach, OneOpPerSlot, TypeOK
    <3>3. PlacingIsEmpty'
      BY <3>1 DEF PlacingIsEmpty
    <3>4. CASE n \in Reconcilers
      <4>1. events' = events
        <5>1. \A o \in batch[n] : o.act = "cancel"
          BY <3>4 DEF ReconcilersCancel
        <5>2. events' = [s \in Slots |-> events[s]]
          BY <2>5, <5>1 DEF Acked
        <5>3. QED
          BY <5>2 DEF TypeOK
      <4>2. batch'[Paced] = batch[Paced]
        BY <1>p, <3>1, <3>4 DEF TypeOK
      <4>3. CreatesIntoEmpty' /\ MovesItsOrder' /\ MailboxFitsBatch' /\ SameOrder'
        BY <3>1, <4>1, <4>2 DEF CreatesIntoEmpty, MovesItsOrder,
                                MailboxFitsBatch, SameOrder
      <4>4. QED
        BY <3>2, <3>3, <4>3
    <3>5. CASE n = Paced
      <4>1. batch'[Paced] = {}
        BY <1>p, <3>1, <3>5 DEF TypeOK
      <4>2. CreatesIntoEmpty' /\ MailboxFitsBatch'
        BY <4>1 DEF CreatesIntoEmpty, MailboxFitsBatch
      <4>3. ASSUME NEW s \in Slots
            PROVE  \/ events'[s] = events[s]
                   \/ \E o \in batch[Paced] :
                        /\ o.slot = s /\ o.act \in {"create", "modify"}
                        /\ tracked[s] \in {None, o.cid}
                        /\ \A i \in DOMAIN events'[s] : events'[s][i].cid = o.cid
        <5>1. CASE ~\E o \in batch[Paced] : o.slot = s /\ o.act # "cancel"
          BY <2>5, <3>5, <5>1 DEF Acked
        <5>2. CASE \E o \in batch[Paced] : o.slot = s /\ o.act # "cancel"
          <6> DEFINE o == CHOOSE o \in batch[Paced] : o.slot = s /\ o.act # "cancel"
          <6>1. o \in batch[Paced] /\ o.slot = s /\ o.act # "cancel"
            BY <5>2
          <6>2. o \in Op
            BY <1>p, <6>1 DEF TypeOK
          <6>3. o.act \in {"create", "modify"} /\ Bind(o.cid) \in Event
                /\ Bind(o.cid).cid = o.cid
            BY <6>1, <6>2 DEF Op, Bind, Event
          <6>4. events'[s] = Append(events[s], Bind(o.cid))
            BY <2>5, <3>5, <5>2 DEF Acked
          <6>5. events[s] \in Seq(Event)
            BY DEF TypeOK
          <6> HIDE DEF o
          <6>6. \A i \in DOMAIN events'[s] :
                  \/ events'[s][i] = Bind(o.cid)
                  \/ i \in DOMAIN events[s] /\ events'[s][i] = events[s][i]
            BY <6>3, <6>4, <6>5, AppendFacts
          <6>7. tracked[s] \in {None, o.cid}
                /\ \A i \in DOMAIN events[s] : events[s][i].cid = o.cid
            BY <6>1, <6>3 DEF CreatesIntoEmpty, MovesItsOrder
          <6>8. QED
            BY <6>1, <6>3, <6>6, <6>7
        <5>3. QED
          BY <5>1, <5>2
      <4>4. SameOrder'
        BY <3>1, <4>3 DEF SameOrder
      <4>5. MovesItsOrder'
        <5>1. ASSUME NEW o \in mailbox, o.act = "modify"
              PROVE  /\ tracked[o.slot] \in {None, o.cid}
                     /\ \A i \in DOMAIN events'[o.slot] : events'[o.slot][i].cid = o.cid
          <6>1. o.slot \in Slots
            BY DEF TypeOK, Op
          <6>2. tracked[o.slot] \in {None, o.cid}
                /\ \A i \in DOMAIN events[o.slot] : events[o.slot][i].cid = o.cid
            BY <5>1 DEF MovesItsOrder
          <6>3. CASE events'[o.slot] = events[o.slot]
            BY <6>2, <6>3
          <6>4. CASE \E p \in batch[Paced] :
                       /\ p.slot = o.slot /\ p.act \in {"create", "modify"}
                       /\ \A i \in DOMAIN events'[o.slot] : events'[o.slot][i].cid = p.cid
            BY <5>1, <6>2, <6>4 DEF MailboxFitsBatch
          <6>5. QED
            BY <4>3, <6>1, <6>2, <6>3, <6>4
        <5>2. QED
          BY <3>1, <4>1, <5>1 DEF MovesItsOrder
      <4>6. QED
        BY <3>2, <3>3, <4>2, <4>4, <4>5
    <3>6. QED
      BY <3>4, <3>5 DEF Senders
  <2>6. QED
    BY <1>4, <2>1, <2>2, <2>3, <2>4, <2>5 DEF Send
<1>5. ASSUME NEW o \in accepted, Execute(o) PROVE SlotInv'
  <2>1. UNCHANGED <<tracked, status, events, mailbox, batch, pc>>
    BY <1>5 DEF Execute
  <2>2. QED
    BY <2>1, SlotFrame DEF BatchInHand
<1>6. ASSUME NEW c \in Cids, Fill(c) PROVE SlotInv'
  <2>1. UNCHANGED <<tracked, status, events, mailbox, batch, pc>>
    BY <1>6 DEF Fill
  <2>2. QED
    BY <2>1, SlotFrame DEF BatchInHand
<1>7. ASSUME NEW refresh \in BOOLEAN, FeedLost(refresh) PROVE SlotInv'
  <2>1. UNCHANGED <<tracked, status, events, mailbox, batch, pc>>
    BY <1>7 DEF FeedLost
  <2>2. QED
    BY <2>1, SlotFrame DEF BatchInHand
<1>8. CASE FeedSubscribed
  <2>1. UNCHANGED <<tracked, status, events, mailbox, batch, pc>>
    BY <1>8 DEF FeedSubscribed
  <2>2. QED
    BY <2>1, SlotFrame DEF BatchInHand
<1>9. CASE OnAccountOrders
  <2>1. UNCHANGED <<tracked, status, mailbox, batch, pc>>
    BY <1>9 DEF OnAccountOrders
  <2>2. ReconcilersCancel' /\ BatchInHand' /\ OneOpEach' /\ MailboxFitsBatch'
        /\ PlacingIsEmpty'
    BY <2>1 DEF ReconcilersCancel, BatchInHand, OneOpEach, OneOpPerSlot,
                MailboxFitsBatch, PlacingIsEmpty
  <2>3. ASSUME NEW s \in Slots
        PROVE  \/ events'[s] = events[s]
               \/ /\ tracked[s] # None
                  /\ \A i \in DOMAIN events'[s] :
                       \/ events'[s][i].cid = tracked[s]
                       \/ i \in DOMAIN events[s] /\ events'[s][i] = events[s][i]
    BY <1>9, FeedEvents
  <2>4. \A o \in mailbox \union batch[Paced] : o.slot \in Slots
    BY <1>p DEF TypeOK, Op
  <2>5. CreatesIntoEmpty'
    BY <2>1, <2>3, <2>4 DEF CreatesIntoEmpty
  <2>6. MovesItsOrder'
    <3>1. ASSUME NEW o \in mailbox \union batch[Paced], o.act = "modify",
                 NEW i \in DOMAIN events'[o.slot]
          PROVE  events'[o.slot][i].cid = o.cid
      BY <2>3, <2>4, <3>1 DEF MovesItsOrder
    <3>2. QED
      BY <2>1, <3>1 DEF MovesItsOrder
  <2>7. SameOrder'
    <3>1. ASSUME NEW s \in Slots, NEW i \in DOMAIN events'[s],
                 events'[s] # events[s]
          PROVE  events'[s][i].cid = tracked[s]
      BY <2>3, <3>1 DEF SameOrder
    <3>2. QED
      BY <2>1, <3>1 DEF SameOrder
  <2>8. QED
    BY <2>2, <2>5, <2>6, <2>7
<1>10. ASSUME NEW r \in Reconcilers, ReconcilerStep(r) PROVE SlotInv'
  <2>1. CASE RestAnswered(r)
    <3>1. UNCHANGED <<tracked, status, events, mailbox, batch, pc>>
      BY <2>1 DEF RestAnswered
    <3>2. QED
      BY <3>1, SlotFrame DEF BatchInHand
  <2>2. CASE Reconcile(r)
    <3>1. PICK snap \in restSnap[r] : \E surplus \in SUBSET Surplus(snap) :
            ReconcileWith(r, snap, surplus)
      BY <2>2 DEF Reconcile
    <3>2. PICK surplus \in SUBSET Surplus(snap) : ReconcileWith(r, snap, surplus)
      BY <3>1
    <3> DEFINE ops == {[act |-> "cancel", slot |-> home[c], cid |-> c] :
                          c \in Unknown(snap) \union surplus}
    <3>3. UNCHANGED <<tracked, status, events, mailbox>>
          /\ batch' \in {batch, [batch EXCEPT ![r] = ops]}
          /\ pc' \in {pc, [pc EXCEPT ![r] = "gate"]}
      BY <3>2 DEF ReconcileWith
    <3>4. \A o \in ops : o.act = "cancel"
      OBVIOUS
    <3> HIDE DEF ops
    <3>5. batch'[Paced] = batch[Paced] /\ pc'[Paced] = pc[Paced]
      BY <1>p, <3>3 DEF TypeOK
    <3>6. \A q \in Reconcilers : \A o \in batch'[q] :
             o \in batch[q] \/ o.act = "cancel"
      <4>1. CASE batch' = batch
        BY <4>1
      <4>2. CASE batch' = [batch EXCEPT ![r] = ops]
        <5>1. \A q \in Reconcilers : batch'[q] \in {batch[q], ops}
          BY <1>p, <4>2 DEF TypeOK
        <5>2. QED
          BY <3>4, <5>1
      <4>3. QED
        BY <3>3, <4>1, <4>2
    <3>7. QED
      BY <3>3, <3>5, <3>6, SlotFrame DEF BatchInHand
  <2>3. CASE ReconcilerSend(r)
    <3>1. PICK safe : EnterEffect(r, batch[r], mailbox, safe)
      BY <2>3, EnterBatchEffect DEF ReconcilerSend
    <3>2. mailbox' = mailbox
      BY <2>3 DEF ReconcilerSend
    <3>3. QED
      BY <1>p, <3>1, <3>2, EnterSlots
  <2>4. CASE ReconcilerDenied(r)
    <3>1. GiveUp(r) /\ UNCHANGED <<tracked, status, events, mailbox>>
      BY <2>4 DEF ReconcilerDenied
    <3>2. /\ pc'[Paced] = pc[Paced] /\ batch'[Paced] = batch[Paced]
          /\ \A m \in Senders : batch'[m] \subseteq batch[m]
      BY <1>p, <3>1 DEF GiveUp, TypeOK
    <3>3. QED
      BY <1>p, <3>1, <3>2, SlotFrame DEF BatchInHand
  <2>5. QED
    BY <1>10, <2>1, <2>2, <2>3, <2>4 DEF ReconcilerStep
<1>11. CASE ColdReconcile
  <2>1. UNCHANGED <<events, mailbox, batch, pc>>
        /\ \A s \in Slots : tracked'[s] \in {tracked[s], None}
    BY <1>11 DEF ColdReconcile, RecTracked
  <2>2. \A o \in mailbox \union batch[Paced] : o.slot \in Slots
    BY <1>p DEF TypeOK, Op
  <2>3. ReconcilersCancel' /\ BatchInHand' /\ OneOpEach' /\ MailboxFitsBatch'
    BY <2>1 DEF ReconcilersCancel, BatchInHand, OneOpEach, OneOpPerSlot,
                MailboxFitsBatch
  <2>4. CreatesIntoEmpty' /\ MovesItsOrder'
    BY <2>1, <2>2 DEF CreatesIntoEmpty, MovesItsOrder
  <2>5. SameOrder'
    BY <2>1 DEF SameOrder
  <2>6. PlacingIsEmpty'
    BY <1>11 DEF ColdReconcile, RecTracked, RecStatus, PlacingIsEmpty
  <2>7. QED
    BY <2>3, <2>4, <2>5, <2>6
<1>12. CASE UNCHANGED vars
  BY <1>12, SlotFrame DEF vars, BatchInHand
<1>13. QED
  BY <1>1, <1>2, <1>3, <1>4, <1>5, <1>6, <1>7, <1>8, <1>9, <1>10, <1>11, <1>12
     DEF Next

-----------------------------------------------------------------------------
(* The write lock. *)

\* Every step leaves one sender with a batch.
LEMMA OneWriterStep ==
    ASSUME TypeOK, OneWriter, TypeOK', [Next]_vars
    PROVE  OneWriter'
<1>p. Paced \in Senders /\ Reconcilers \subseteq Senders
  BY DEF Senders
<1>1. ASSUME NEW n \in Senders, NEW q \in PC, pc' = [pc EXCEPT ![n] = q],
             q \in {"signing", "inflight", "acked"} => HoldsLock(n) \/ LockFree
      PROVE  OneWriter'
  <2>1. \A m \in Senders : HoldsLock(m)' =>
           \/ m # n /\ HoldsLock(m)
           \/ m = n /\ (HoldsLock(n) \/ LockFree)
    BY <1>1 DEF HoldsLock, TypeOK
  <2>2. QED
    BY <2>1 DEF OneWriter, LockFree
<1>2. ASSUME UNCHANGED pc PROVE OneWriter'
  BY <1>2 DEF OneWriter, HoldsLock
<1>3. CASE HotTick
  <2>1. UNCHANGED pc \/ pc' = [pc EXCEPT ![Paced] = "gate"]
    BY <1>3 DEF HotTick, Tick
  <2>2. QED
    BY <1>1, <1>2, <1>p, <2>1 DEF PC
<1>4. CASE PacedPull
  <2>1. PICK safe : EnterEffect(Paced, mailbox, {}, safe)
    BY <1>4, EnterBatchEffect DEF PacedPull
  <2>2. QED
    BY <1>1, <1>p, <2>1 DEF EnterEffect, PC
<1>5. CASE PacedDenied
  BY <1>1, <1>p, <1>5 DEF PacedDenied, PC
<1>6. ASSUME NEW n \in Senders, Send(n) PROVE OneWriter'
  <2>1. \A box : Returned(n, box) \in {"idle", "gate"}
    BY DEF Returned
  <2>2. CASE AcquireLock(n)
    BY <1>1, <2>2 DEF AcquireLock, PC
  <2>3. CASE AbortBatch(n) \/ Rejected(n) \/ AnswerLost(n) \/ Acked(n)
    <3>1. pc' = [pc EXCEPT ![n] = Returned(n, mailbox)]
      BY <2>3 DEF AbortBatch, Rejected, AnswerLost, Acked, GiveUp
    <3>2. QED
      BY <1>1, <2>1, <3>1 DEF PC
  <2>4. CASE Signed(n)
    BY <1>1, <2>4 DEF Signed, HoldsLock, PC
  <2>5. CASE Accept(n)
    BY <1>1, <2>5 DEF Accept, HoldsLock, PC
  <2>6. QED
    BY <1>6, <2>2, <2>3, <2>4, <2>5 DEF Send
<1>7. ASSUME NEW r \in Reconcilers, ReconcilerStep(r) PROVE OneWriter'
  <2>1. CASE RestAnswered(r)
    BY <1>2, <2>1 DEF RestAnswered
  <2>2. CASE Reconcile(r)
    <3>1. UNCHANGED pc \/ pc' = [pc EXCEPT ![r] = "gate"]
      BY <2>2 DEF Reconcile, ReconcileWith
    <3>2. QED
      BY <1>1, <1>2, <1>p, <3>1 DEF PC
  <2>3. CASE ReconcilerSend(r)
    <3>1. PICK safe : EnterEffect(r, batch[r], mailbox, safe)
      BY <2>3, EnterBatchEffect DEF ReconcilerSend
    <3>2. QED
      BY <1>1, <1>p, <3>1 DEF EnterEffect, PC
  <2>4. CASE ReconcilerDenied(r)
    BY <1>1, <1>p, <2>4 DEF ReconcilerDenied, GiveUp, Returned, PC
  <2>5. QED
    BY <1>7, <2>1, <2>2, <2>3, <2>4 DEF ReconcilerStep
<1>8. CASE \/ \E o \in accepted : Execute(o)
           \/ \E c \in Cids : Fill(c)
           \/ \E refresh \in BOOLEAN : FeedLost(refresh)
           \/ FeedSubscribed \/ OnAccountOrders \/ ColdReconcile \/ UNCHANGED vars
  <2>1. UNCHANGED pc
    BY <1>8 DEF Execute, Fill, FeedLost, FeedSubscribed, OnAccountOrders,
                ColdReconcile, vars
  <2>2. QED
    BY <1>2, <2>1
<1>9. QED
  BY <1>3, <1>4, <1>5, <1>6, <1>7, <1>8 DEF Next

-----------------------------------------------------------------------------
(* The theorems. *)

\* Every variable keeps its type, and no slot, event or op ever names an order
\* index that was issued for another slot.
THEOREM TypeCorrect == Spec => [](TypeOK /\ Issued)
<1>1. Init => TypeOK /\ Issued
  BY TypeInit, IssuedInit
<1>2. TypeOK /\ Issued /\ [Next]_vars => (TypeOK /\ Issued)'
  BY TypeStep, IssuedStep
<1>3. QED
  BY <1>1, <1>2, PTL DEF Spec

\* What the slots, the mailbox and the batch in hand of the paced sender have
\* to do with each other holds in every reachable state.
THEOREM SlotsInductive == Spec => [](TypeOK /\ SlotInv)
<1>1. Init => SlotInv
  BY SlotInit
<1>2. TypeOK /\ Issued /\ SlotInv /\ TypeOK' /\ [Next]_vars => SlotInv'
  BY SlotStep
<1>3. QED
  BY <1>1, <1>2, TypeCorrect, PTL DEF Spec

\* Two tasks are never both between taking and releasing _sdk_write_lock,
\* however the waiters of the lock interleave with tasks that find it free.
THEOREM WritersExclusive == Spec => []OneWriter
<1>1. Init => OneWriter
  BY DEF Init, OneWriter, HoldsLock
<1>2. TypeOK /\ OneWriter /\ TypeOK' /\ [Next]_vars => OneWriter'
  BY OneWriterStep
<1>3. QED
  BY <1>1, <1>2, TypeCorrect, PTL DEF Spec

\* order_lifecycle_watchdog_loop never finds a slot to clear.
THEOREM WatchdogNeverDue == Spec => []WatchdogIdle
<1>1. SlotInv => WatchdogIdle
  BY DEF SlotInv, PlacingIsEmpty, WatchdogIdle, WatchdogDue
<1>2. QED
  BY <1>1, SlotsInductive, PTL

\* A CLEAR_LIVE event, which names only a slot, never clears an order other
\* than the one whose death was reported.
THEOREM ClearsHitTheirOrder == Spec => []ClearHitsItsOrder
<1>1. TypeOK /\ SlotInv => ClearHitsItsOrder
  <2>1. SUFFICES ASSUME TypeOK, SameOrder,
                        NEW s \in Slots, NEW i \in DOMAIN events[s],
                        i # 1
                 PROVE  i - 1 \in DOMAIN events[s]
                        /\ events[s][i-1].cid = events[s][i].cid
    BY DEF SlotInv, SameOrder, ClearHitsItsOrder
  <2>2. i - 1 \in DOMAIN events[s]
    BY <2>1 DEF TypeOK
  <2>3. QED
    BY <2>1, <2>2 DEF SameOrder
<1>2. QED
  BY <1>1, SlotsInductive, PTL

\* No step binds a slot in use to another order.
LEMMA RebindStep ==
    ASSUME TypeOK, SlotInv, [Next]_vars, NEW s \in Slots, tracked[s] # None
    PROVE  tracked'[s] \in {tracked[s], None}
<1>1. HotTracked(s) \in {None, tracked[s]}
  <2>1. tracked[s] \in Cids /\ \A i \in DOMAIN events[s] : events[s][i].cid = tracked[s]
    BY DEF TypeOK, SlotInv, SameOrder
  <2>2. QED
    BY <2>1, HotSame
<1>2. \A id : RecTracked(id) \in {id, None}
  BY DEF RecTracked
<1>3. CASE HotTick
  BY <1>1, <1>3 DEF HotTick, Tick
<1>4. ASSUME NEW n, NEW ops, NEW box, EnterBatch(n, ops, box)
      PROVE  tracked'[s] \in {tracked[s], None}
  BY <1>1, <1>2, <1>4, EnterBatchEffect DEF EnterEffect
<1>5. CASE PacedPull \/ \E r \in Reconcilers : ReconcilerSend(r)
  BY <1>4, <1>5 DEF PacedPull, ReconcilerSend
<1>6. CASE ColdReconcile
  BY <1>2, <1>6 DEF ColdReconcile
<1>7. ASSUME NEW n \in Senders, Send(n) PROVE UNCHANGED tracked
  BY <1>7 DEF Send, AcquireLock, AbortBatch, Signed, Accept, Rejected,
              AnswerLost, Acked
<1>8. ASSUME \/ PacedDenied \/ \E o \in accepted : Execute(o)
             \/ \E c \in Cids : Fill(c)
             \/ \E refresh \in BOOLEAN : FeedLost(refresh)
             \/ FeedSubscribed \/ OnAccountOrders \/ UNCHANGED vars
             \/ \E r \in Reconcilers :
                   RestAnswered(r) \/ Reconcile(r) \/ ReconcilerDenied(r)
      PROVE  UNCHANGED tracked
  BY <1>8 DEF PacedDenied, Execute, Fill, FeedLost, FeedSubscribed, vars,
              OnAccountOrders, RestAnswered, Reconcile, ReconcileWith,
              ReconcilerDenied
<1>9. QED
  BY <1>3, <1>5, <1>6, <1>7, <1>8 DEF Next, ReconcilerStep

\* No step replaces the order a slot tracks by another one: the slot lets go
\* of the first order before it takes the second.
THEOREM SlotsRebindEmpty == Spec => NoSilentRebind
<1>1. TypeOK /\ SlotInv /\ [Next]_vars =>
        [\A s \in Slots :
            tracked[s] # None /\ tracked'[s] # None => tracked'[s] = tracked[s]]_vars
  BY RebindStep
<1>2. QED
  BY <1>1, SlotsInductive, PTL DEF Spec, NoSilentRebind

-----------------------------------------------------------------------------
(* One quote per slot: what the slots know is tied to what the exchange    *)
(* holds.                                                                  *)

\* Orders the exchange will open once it gets to it.
Opening == {c \in Cids : \E o \in accepted : o.act = "create" /\ o.cid = c}

Unopened(c) == exch[c] = "none" /\ c \notin Opening

AcceptedAreNew == \A o \in accepted : o.act = "create" => exch[o.cid] = "none"

MailboxIsNew == \A o \in mailbox : o.act = "create" => Unopened(o.cid)

BatchIsNew ==
    pc[Paced] # "acked" =>
        \A o \in batch[Paced] : o.act = "create" => Unopened(o.cid)

CreatesDiffer ==
    \A o \in mailbox, p \in batch[Paced] :
        o.act = "create" /\ p.act = "create" => o.cid # p.cid

DeathsAreTrue == \A i \in DOMAIN feed : \A c \in feed[i].dead : exch[c] = "dead"

Fate == AcceptedAreNew /\ MailboxIsNew /\ BatchIsNew /\ CreatesDiffer /\ DeathsAreTrue

\* An acknowledged batch of the paced sender creates the order.
InAckedBatch(c) ==
    pc[Paced] = "acked" /\ \E o \in batch[Paced] : o.act = "create" /\ o.cid = c

Claimed ==
    \A c \in (Live \union Opening) \ orphaned :
        HotTracked(home[c]) = c \/ InAckedBatch(c)

USE NoneAssumption, PacedAssumption

-----------------------------------------------------------------------------
(* Fate. *)

\* Nothing is being created at the start.
LEMMA FateInit == Init => Fate
BY DEF Init, Fate, AcceptedAreNew, MailboxIsNew, BatchIsNew, CreatesDiffer,
       DeathsAreTrue, Senders

\* Steps of the bot that neither reach the exchange nor add a create to the
\* mailbox or to the batch of the paced sender.
LEMMA FateFrame ==
    ASSUME Fate, UNCHANGED <<exch, accepted>>,
           mailbox' \subseteq mailbox,
           batch'[Paced] \subseteq batch[Paced],
           pc[Paced] = "acked" /\ batch'[Paced] # {} => pc'[Paced] = "acked",
           \A i \in DOMAIN feed' : feed'[i].dead = {}
                                   \/ \E j \in DOMAIN feed : feed'[i] = feed[j]
    PROVE  Fate'
<1> USE DEF Fate
<1>1. \A c : Unopened(c) => Unopened(c)'
  BY DEF Unopened, Opening
<1>2. AcceptedAreNew' /\ CreatesDiffer' /\ MailboxIsNew'
  BY <1>1 DEF AcceptedAreNew, CreatesDiffer, MailboxIsNew
<1>3. BatchIsNew'
  BY <1>1 DEF BatchIsNew
<1>4. DeathsAreTrue'
  BY DEF DeathsAreTrue
<1>5. QED
  BY <1>2, <1>3, <1>4

\* A tick posts creates of orders that are new.
LEMMA TickFate ==
    ASSUME TypeOK, Issued, Fate, NEW want \in Wants,
           NEW new \in Injection(EmptyQuoted(want), Fresh), Tick(want, new)
    PROVE  Fate'
<1> USE DEF Fate
<1>p. Paced \in Senders
  BY DEF Senders
<1>1. /\ UNCHANGED <<exch, accepted, batch, feed>>
      /\ mailbox' \in {mailbox, CollectOps(want, new)}
      /\ pc[Paced] = "acked" => pc'[Paced] = "acked"
  BY <1>p DEF Tick, TypeOK
<1>2. \A c : Unopened(c) => Unopened(c)'
  BY <1>1 DEF Unopened, Opening
<1>3. \A o \in CollectOps(want, new) : o.act = "create" =>
         o.cid \in Cids /\ home[o.cid] = None
  BY TickOps DEF Fresh
<1>4. \A c \in Cids : home[c] = None => Unopened(c)
  BY DEF Unopened, Opening, Issued, IssuedOrders, IssuedOps, TypeOK, Op
<1>5. \A o \in batch[Paced] : home[o.cid] # None
  BY <1>p DEF Issued, IssuedOps, TypeOK, Op
<1>6. MailboxIsNew' /\ CreatesDiffer'
  BY <1>1, <1>2, <1>3, <1>4, <1>5 DEF MailboxIsNew, CreatesDiffer
<1>7. AcceptedAreNew' /\ DeathsAreTrue'
  BY <1>1 DEF AcceptedAreNew, DeathsAreTrue
<1>8. BatchIsNew'
  BY <1>1, <1>2 DEF BatchIsNew
<1>9. QED
  BY <1>6, <1>7, <1>8

\* Entering sign_and_send_batch moves creates from the mailbox to the batch.
LEMMA EnterFate ==
    ASSUME TypeOK, SlotInv, Fate, NEW n \in Senders, NEW ops, NEW box, NEW safe,
           EnterEffect(n, ops, box, safe), UNCHANGED <<exch, accepted, feed>>,
           \/ n = Paced /\ ops = mailbox /\ mailbox' = {}
           \/ n \in Reconcilers /\ ops = batch[n] /\ mailbox' = mailbox
    PROVE  Fate'
<1> USE DEF Fate
<1>p. Paced \in Senders /\ Paced \notin Reconcilers
  BY DEF Senders
<1>1. /\ safe \subseteq ops /\ batch'[n] = safe
      /\ \A m \in Senders : m # n => batch'[m] = batch[m] /\ pc'[m] = pc[m]
  BY DEF EnterEffect, TypeOK
<1>2. \A c : Unopened(c) => Unopened(c)'
  BY DEF Unopened, Opening
<1>3. AcceptedAreNew' /\ DeathsAreTrue'
  BY DEF AcceptedAreNew, DeathsAreTrue
<1>4. CASE n = Paced
  <2>1. MailboxIsNew' /\ CreatesDiffer'
    BY <1>p, <1>4 DEF MailboxIsNew, CreatesDiffer
  <2>2. BatchIsNew'
    BY <1>1, <1>2, <1>4, <1>p DEF BatchIsNew, MailboxIsNew
  <2>3. QED
    BY <1>3, <2>1, <2>2
<1>5. CASE n \in Reconcilers
  <2>1. batch'[Paced] = batch[Paced] /\ pc'[Paced] = pc[Paced] /\ mailbox' = mailbox
    BY <1>1, <1>5, <1>p
  <2>2. MailboxIsNew' /\ CreatesDiffer' /\ BatchIsNew'
    BY <1>2, <2>1 DEF MailboxIsNew, CreatesDiffer, BatchIsNew
  <2>3. QED
    BY <1>3, <2>2
<1>6. QED
  BY <1>4, <1>5

\* What an announcement adds to the feed.
LEMMA AnnounceDeaths ==
    ASSUME TypeOK, DeathsAreTrue, NEW m \in Message, Announce(m),
           \A c \in m.dead : exch'[c] = "dead",
           \A c \in Cids : exch[c] = "dead" => exch'[c] = "dead"
    PROVE  DeathsAreTrue'
<1>1. feed \in Seq(Message)
  BY DEF TypeOK
<1>2. ASSUME NEW i \in DOMAIN feed' PROVE feed'[i] = m \/ \E j \in DOMAIN feed : feed'[i] = feed[j]
  <2>1. CASE feed' = feed
    BY <1>2, <2>1
  <2>2. CASE feed' = Append(feed, m)
    BY <1>1, <1>2, <2>2, AppendFacts
  <2>3. QED
    BY <2>1, <2>2 DEF Announce
<1>3. \A j \in DOMAIN feed : feed[j].dead \subseteq Cids
  <2>1. \A j \in DOMAIN feed : feed[j] \in Message
    BY <1>1
  <2>2. QED
    BY <2>1 DEF Message
<1>4. QED
  BY <1>2, <1>3 DEF DeathsAreTrue

\* Every step leaves new what is to be created.
LEMMA FateStep ==
    ASSUME TypeOK, Issued, SlotInv, Fate, [Next]_vars
    PROVE  Fate'
<1> USE DEF Fate
<1>p. Paced \in Senders /\ Reconcilers \subseteq Senders /\ Paced \notin Reconcilers
  BY DEF Senders
<1>1. CASE HotTick
  <2>1. PICK want \in Wants : \E new \in Injection(EmptyQuoted(want), Fresh) :
          Tick(want, new)
    BY <1>1 DEF HotTick
  <2>2. QED
    BY <2>1, TickFate
<1>2. CASE PacedPull
  <2>1. PICK safe : EnterEffect(Paced, mailbox, {}, safe)
    BY <1>2, EnterBatchEffect DEF PacedPull
  <2>2. UNCHANGED <<exch, accepted, feed>> /\ mailbox' = {}
    BY <1>2 DEF PacedPull
  <2>3. QED
    BY <1>p, <2>1, <2>2, EnterFate
<1>3. CASE PacedDenied
  <2>1. UNCHANGED <<exch, accepted, feed, batch>> /\ mailbox' = {}
        /\ pc[Paced] # "acked"
    BY <1>3 DEF PacedDenied
  <2>2. QED
    BY <2>1, FateFrame
<1>4. ASSUME NEW n \in Senders, Send(n) PROVE Fate'
  <2>1. CASE AcquireLock(n) \/ Signed(n)
    <3>1. /\ UNCHANGED <<exch, accepted, feed, mailbox>> /\ pc[n] # "acked"
          /\ \A m \in Senders : /\ batch'[m] \subseteq batch[m]
                                /\ m # n => pc'[m] = pc[m]
      BY <2>1 DEF AcquireLock, Signed, TypeOK
    <3>2. pc[Paced] = "acked" /\ batch'[Paced] # {} => pc'[Paced] = "acked"
      BY <1>p, <3>1
    <3>3. QED
      BY <1>p, <3>1, <3>2, FateFrame
  <2>2. CASE AbortBatch(n) \/ Rejected(n) \/ AnswerLost(n) \/ Acked(n)
    <3>1. /\ UNCHANGED <<exch, accepted, feed, mailbox>> /\ GiveUp(n)
      BY <2>2 DEF AbortBatch, Rejected, AnswerLost, Acked
    <3>2. /\ batch'[n] = {}
          /\ \A m \in Senders : /\ batch'[m] \subseteq batch[m]
                                /\ m # n => pc'[m] = pc[m]
      BY <3>1 DEF GiveUp, TypeOK
    <3>3. pc[Paced] = "acked" /\ batch'[Paced] # {} => pc'[Paced] = "acked"
      BY <1>p, <3>2
    <3>4. QED
      BY <1>p, <3>1, <3>2, <3>3, FateFrame
  <2>3. CASE Accept(n)
    <3>1. /\ UNCHANGED <<exch, feed, mailbox, batch>>
          /\ accepted' = accepted \union batch[n]
          /\ pc[n] = "inflight" /\ pc' = [pc EXCEPT ![n] = "acked"]
      BY <2>3 DEF Accept
    <3>2. \A o \in batch[n] : o.act = "create" =>
             n = Paced /\ Unopened(o.cid)
      BY <1>p, <3>1 DEF Senders, SlotInv, Owned, ReconcilersCancel, BatchIsNew
    <3>3. AcceptedAreNew' /\ CreatesDiffer' /\ DeathsAreTrue'
      BY <3>1, <3>2 DEF AcceptedAreNew, CreatesDiffer, DeathsAreTrue, Unopened
    <3>4. MailboxIsNew'
      BY <3>1, <3>2 DEF MailboxIsNew, CreatesDiffer, Unopened, Opening
    <3>5. BatchIsNew'
      BY <1>p, <3>1, <3>2 DEF BatchIsNew, Unopened, Opening, TypeOK
    <3>6. QED
      BY <3>3, <3>4, <3>5
  <2>4. QED
    BY <1>4, <2>1, <2>2, <2>3 DEF Send
<1>5. ASSUME NEW o \in accepted, Execute(o) PROVE Fate'
  <2>1. /\ UNCHANGED <<mailbox, batch, pc>> /\ accepted' = accepted \ {o}
    BY <1>5 DEF Execute
  <2>2. o \in Op /\ o.cid \in Cids
    BY DEF TypeOK, Op
  <2>3. \A c \in Cids : exch'[c] = exch[c] \/
           /\ c = o.cid
           /\ o.act = "create" \/ exch[c] = "live"
    BY <1>5 DEF Execute, TypeOK
  <2>4. \A c \in Cids : Unopened(c) => Unopened(c)'
    BY <2>1, <2>3 DEF Unopened, Opening
  <2>5. \A p \in accepted : p.act = "create" /\ o.act = "create" /\ p.cid = o.cid => p = o
    <3>1. ASSUME NEW p \in accepted, p.act = o.act, p.cid = o.cid PROVE p = o
      <4>1. p \in Op /\ p.slot = o.slot
        BY <3>1 DEF Issued, IssuedOps, TypeOK
      <4>2. \A x \in Op : x = [act |-> x.act, slot |-> x.slot, cid |-> x.cid]
        BY DEF Op
      <4>3. QED
        BY <2>2, <3>1, <4>1, <4>2
    <3>2. QED
      BY <3>1
  <2>6. AcceptedAreNew'
    <3>1. ASSUME NEW p \in accepted, p # o, p.act = "create" PROVE exch'[p.cid] = "none"
      <4>1. p.cid \in Cids /\ exch[p.cid] = "none"
        BY <3>1 DEF TypeOK, Op, AcceptedAreNew
      <4>2. ~(p.cid = o.cid /\ o.act = "create")
        BY <2>5, <3>1
      <4>3. QED
        BY <2>3, <4>1, <4>2
    <3>2. QED
      BY <2>1, <3>1 DEF AcceptedAreNew
  <2>7. MailboxIsNew' /\ BatchIsNew' /\ CreatesDiffer'
    BY <1>p, <2>1, <2>4 DEF MailboxIsNew, BatchIsNew, CreatesDiffer, TypeOK, Op
  <2>8. DeathsAreTrue'
    <3>1. \A c \in Cids : exch[c] = "dead" => exch'[c] = "dead"
      BY <2>3 DEF AcceptedAreNew
    <3>2. /\ Opened(o.cid) \in Message /\ Opened(o.cid).dead = {}
          /\ Closed(o.cid) \in Message /\ Closed(o.cid).dead = {o.cid}
      BY <2>2 DEF Opened, Closed, Message
    <3>3. \/ Announce(Opened(o.cid))
          \/ Announce(Closed(o.cid)) /\ exch'[o.cid] = "dead"
          \/ UNCHANGED <<exch, feed>>
      BY <1>5, <2>2 DEF Execute, TypeOK
    <3>4. CASE Announce(Opened(o.cid))
      BY <3>1, <3>2, <3>4, AnnounceDeaths
    <3>5. CASE Announce(Closed(o.cid)) /\ exch'[o.cid] = "dead"
      BY <3>1, <3>2, <3>5, AnnounceDeaths
    <3>6. CASE UNCHANGED <<exch, feed>>
      BY <3>6 DEF DeathsAreTrue
    <3>7. QED
      BY <3>3, <3>4, <3>5, <3>6
  <2>9. QED
    BY <2>6, <2>7, <2>8
<1>6. ASSUME NEW c \in Cids, Fill(c) PROVE Fate'
  <2>1. /\ UNCHANGED <<mailbox, batch, pc, accepted>>
        /\ exch[c] = "live" /\ exch' = [exch EXCEPT ![c] = "dead"]
    BY <1>6 DEF Fill
  <2>2. \A d \in Cids : (Unopened(d) => Unopened(d)')
                        /\ (exch[d] = "none" => exch'[d] = "none")
    BY <2>1 DEF Unopened, Opening, TypeOK
  <2>3. AcceptedAreNew' /\ MailboxIsNew' /\ BatchIsNew' /\ CreatesDiffer'
    BY <1>p, <2>1, <2>2 DEF AcceptedAreNew, MailboxIsNew, BatchIsNew,
                            CreatesDiffer, TypeOK, Op
  <2>4. DeathsAreTrue'
    <3>1. Closed(c) \in Message /\ Closed(c).dead = {c} /\ exch'[c] = "dead"
      BY <2>1 DEF Closed, Message, TypeOK
    <3>2. \A d \in Cids : exch[d] = "dead" => exch'[d] = "dead"
      BY <2>1 DEF TypeOK
    <3>3. Announce(Closed(c))
      BY <1>6 DEF Fill
    <3>4. QED
      BY <3>1, <3>2, <3>3, AnnounceDeaths
  <2>5. QED
    BY <2>3, <2>4
<1>7. ASSUME NEW refresh \in BOOLEAN, FeedLost(refresh) PROVE Fate'
  BY <1>7, FateFrame DEF FeedLost
<1>8. CASE FeedSubscribed
  BY <1>8, FateFrame DEF FeedSubscribed
<1>9. CASE OnAccountOrders
  <2>1. UNCHANGED <<exch, accepted, mailbox, batch, pc>>
    BY <1>9 DEF OnAccountOrders
  <2>2. \A i \in DOMAIN feed' : \E j \in DOMAIN feed : feed'[i] = feed[j]
    BY <1>9, TailFacts DEF OnAccountOrders, TypeOK
  <2>3. QED
    BY <2>1, <2>2, FateFrame
<1>10. ASSUME NEW r \in Reconcilers, ReconcilerStep(r) PROVE Fate'
  <2>1. CASE RestAnswered(r)
    BY <2>1, FateFrame DEF RestAnswered
  <2>2. CASE Reconcile(r)
    <3>1. UNCHANGED <<exch, accepted, mailbox, feed>>
          /\ batch'[Paced] = batch[Paced] /\ pc'[Paced] = pc[Paced]
      BY <1>p, <2>2 DEF Reconcile, ReconcileWith, TypeOK
    <3>2. QED
      BY <3>1, FateFrame
  <2>3. CASE ReconcilerSend(r)
    <3>1. PICK safe : EnterEffect(r, batch[r], mailbox, safe)
      BY <2>3, EnterBatchEffect DEF ReconcilerSend
    <3>2. UNCHANGED <<exch, accepted, feed, mailbox>>
      BY <2>3 DEF ReconcilerSend
    <3>3. QED
      BY <1>p, <3>1, <3>2, EnterFate
  <2>4. CASE ReconcilerDenied(r)
    <3>1. UNCHANGED <<exch, accepted, mailbox, feed>>
          /\ batch'[Paced] = batch[Paced] /\ pc'[Paced] = pc[Paced]
      BY <1>p, <2>4 DEF ReconcilerDenied, GiveUp, TypeOK
    <3>2. QED
      BY <3>1, FateFrame
  <2>5. QED
    BY <1>10, <2>1, <2>2, <2>3, <2>4 DEF ReconcilerStep
<1>11. CASE ColdReconcile
  BY <1>11, FateFrame DEF ColdReconcile
<1>12. CASE UNCHANGED vars
  BY <1>12, FateFrame DEF vars
<1>13. QED
  BY <1>1, <1>2, <1>3, <1>4, <1>5, <1>6, <1>7, <1>8, <1>9, <1>10, <1>11, <1>12
     DEF Next

-----------------------------------------------------------------------------
(* Claims. *)

\* Nothing is claimed at the start.
LEMMA ClaimInit == Init => Claimed
BY DEF Init, Claimed, Live, Opening

\* An order the exchange holds or will hold has been issued for a slot and is
\* not dead.
LEMMA HeldOrder ==
    ASSUME TypeOK, Issued, Fate, NEW c \in Live \union Opening
    PROVE  c \in Cids /\ home[c] \in Slots /\ exch[c] # "dead"
<1>1. CASE c \in Live
  BY <1>1 DEF Live, Issued, IssuedOrders
<1>2. CASE c \in Opening
  BY <1>2 DEF Opening, Fate, AcceptedAreNew, Issued, IssuedOps, TypeOK, Op
<1>3. QED
  BY <1>1, <1>2

\* A step keeps every claim that it neither ends nor moves to another order.
LEMMA ClaimFrame ==
    ASSUME Claimed, (Live \union Opening)' \subseteq Live \union Opening,
           orphaned \subseteq orphaned',
           \A c \in (Live \union Opening) \ orphaned' :
               /\ home'[c] = home[c]
               /\ HotTracked(home[c]) = c => HotTracked(home[c])' = c
               /\ InAckedBatch(c) =>
                    InAckedBatch(c)' \/ HotTracked(home[c])' = c
    PROVE  Claimed'
BY DEF Claimed

\* What a slot shows is that of its order and its events.
LEMMA HotSteady ==
    ASSUME UNCHANGED <<tracked, events>>, NEW s
    PROVE  HotTracked(s)' = HotTracked(s)
BY DEF HotTracked

\* After every event of the slots is applied, a slot will track what it does.
LEMMA HotDrained ==
    ASSUME NEW s \in Slots, events'[s] = <<>>
    PROVE  HotTracked(s)' = tracked'[s]
BY DEF HotTracked

\* A slot and its events stay, or a live order is bound again.
LEMMA HotFeed ==
    ASSUME TypeOK, SlotInv, Fate, OnAccountOrders, NEW s \in Slots,
           NEW c \in Cids, HotTracked(s) = c, exch[c] # "dead"
    PROVE  HotTracked(s)' = c
<1>1. Head(feed) \in Message /\ Head(feed) = feed[1] /\ 1 \in DOMAIN feed
  BY TailFacts DEF OnAccountOrders, TypeOK
<1>2. \A d \in Head(feed).dead : exch[d] = "dead"
  BY <1>1 DEF Fate, DeathsAreTrue
<1>3. events[s] \in Seq(Event) /\ tracked[s] \in Cids \union {None}
      /\ tracked' = tracked
  BY DEF TypeOK, OnAccountOrders
<1>4. tracked[s] # None => tracked[s] = c
  <2>1. ASSUME tracked[s] # None PROVE HotTracked(s) \in {None, tracked[s]}
    <3>1. tracked[s] \in Cids
      BY <1>3, <2>1
    <3>2. \A i \in DOMAIN events[s] : events[s][i].cid = tracked[s]
      BY <2>1 DEF SlotInv, SameOrder
    <3>3. QED
      BY <3>1, <3>2, HotSame
  <2>2. QED
    BY <2>1
<1>5. CASE DeadFor(s, Head(feed)) # {}
  <2>1. PICK d \in Head(feed).dead : d = tracked[s]
    BY <1>5 DEF DeadFor
  <2>2. d \in Cids
    BY <1>1 DEF Message
  <2>3. QED
    BY <1>2, <1>4, <2>1, <2>2
<1>6. CASE /\ wsReady /\ DeadFor(s, Head(feed)) = {}
           /\ tracked[s] \in Head(feed).live
  <2>1. tracked[s] \in Cids /\ tracked[s] = c
    BY <1>1, <1>4, <1>6 DEF Message
  <2>2. Bind(c) \in Event /\ Bind(c).ev = "bind" /\ Bind(c).cid = c
    BY DEF Bind, Event
  <2>3. events'[s] = Append(events[s], Bind(c))
    BY <1>6, <2>1 DEF OnAccountOrders
  <2>4. events'[s] # <<>> /\ Last(events'[s]) = Bind(c)
    BY <1>3, <2>2, <2>3, AppendFacts
  <2>5. QED
    BY <2>2, <2>4 DEF HotTracked
<1>7. CASE \/ ~wsReady
           \/ DeadFor(s, Head(feed)) = {} /\ tracked[s] \notin Head(feed).live
  <2>1. events'[s] = events[s]
    BY <1>7 DEF OnAccountOrders
  <2>2. QED
    BY <1>3, <2>1 DEF HotTracked
<1>8. QED
  BY <1>5, <1>6, <1>7

\* Entering sign_and_send_batch: a claim is lost to a snapshot or kept.
LEMMA EnterClaims ==
    ASSUME TypeOK, Issued, Fate, Claimed, NEW n \in Senders, pc[n] = "gate",
           NEW ops, NEW box, NEW safe, EnterEffect(n, ops, box, safe),
           UNCHANGED <<exch, accepted, home>>
    PROVE  Claimed'
<1>1. (Live \union Opening)' = Live \union Opening
  BY DEF Live, Opening
<1>2. orphaned \subseteq orphaned'
  BY DEF EnterEffect
<1>3. ASSUME NEW c \in (Live \union Opening) \ orphaned'
      PROVE  /\ HotTracked(home[c]) = c => HotTracked(home[c])' = c
             /\ InAckedBatch(c) => InAckedBatch(c)'
  <2>1. c \in Cids /\ home[c] \in Slots /\ exch[c] # "dead"
    BY <1>3, HeldOrder
  <2>2. ASSUME HotTracked(home[c]) = c PROVE HotTracked(home[c])' = c
    <3>1. ~Missing(c)
      BY <1>3, <2>1, <2>2 DEF EnterEffect, LostToSnapshot
    <3>2. events'[home[c]] = <<>> /\ tracked'[home[c]] = c
      BY <2>1, <2>2, <3>1 DEF EnterEffect, RecTracked
    <3>3. QED
      BY <2>1, <3>2, HotDrained
  <2>3. ASSUME InAckedBatch(c) PROVE InAckedBatch(c)'
    <3>1. n # Paced
      BY <2>3 DEF InAckedBatch
    <3>2. pc'[Paced] = pc[Paced] /\ batch'[Paced] = batch[Paced]
      BY <3>1 DEF EnterEffect, TypeOK, Senders
    <3>3. QED
      BY <2>3, <3>2 DEF InAckedBatch
  <2>4. QED
    BY <2>2, <2>3
<1>4. QED
  BY <1>1, <1>2, <1>3, ClaimFrame

\* The answer to a batch of the paced sender turns its creates into events.
LEMMA AckedClaims ==
    ASSUME TypeOK, Issued, SlotInv, Fate, Claimed, Acked(Paced)
    PROVE  Claimed'
<1>1. /\ UNCHANGED <<tracked, exch, accepted, home, orphaned>>
      /\ (Live \union Opening)' = Live \union Opening
  BY DEF Acked, Live, Opening
<1>2. ASSUME NEW s \in Slots, NEW o \in batch[Paced], o.slot = s, o.act # "cancel"
      PROVE  HotTracked(s)' = o.cid
  <2> DEFINE sent == CHOOSE p \in batch[Paced] : p.slot = s /\ p.act # "cancel"
  <2>1. sent = o
    <3>1. sent \in batch[Paced] /\ sent.slot = s
      BY <1>2
    <3>2. QED
      BY <1>2, <3>1 DEF SlotInv, Owned, OneOpEach, OneOpPerSlot
  <2>2. events'[s] = Append(events[s], Bind(o.cid))
    BY <1>2, <2>1 DEF Acked
  <2>3. o.cid \in Cids /\ events[s] \in Seq(Event)
    BY <1>2 DEF TypeOK, Op, Senders
  <2>4. Bind(o.cid) \in Event /\ Bind(o.cid).ev = "bind" /\ Bind(o.cid).cid = o.cid
    BY <2>3 DEF Bind, Event
  <2>5. events'[s] # <<>> /\ Last(events'[s]) = Bind(o.cid)
    BY <2>2, <2>3, <2>4, AppendFacts
  <2>6. QED
    BY <2>4, <2>5 DEF HotTracked
<1>3. ASSUME NEW c \in (Live \union Opening) \ orphaned'
      PROVE  /\ HotTracked(home[c]) = c => HotTracked(home[c])' = c
             /\ InAckedBatch(c) => HotTracked(home[c])' = c
  <2>1. c \in Cids /\ home[c] \in Slots
    BY <1>3, HeldOrder
  <2>2. CASE ~\E o \in batch[Paced] : o.slot = home[c] /\ o.act # "cancel"
    <3>1. events'[home[c]] = events[home[c]]
      BY <2>1, <2>2 DEF Acked
    <3>2. ~InAckedBatch(c)
      <4>1. \A o \in batch[Paced] : home[o.cid] = o.slot
        BY DEF Issued, IssuedOps, Senders
      <4>2. QED
        BY <2>2, <4>1 DEF InAckedBatch
    <3>3. QED
      BY <1>1, <3>1, <3>2 DEF HotTracked
  <2>3. ASSUME NEW o \in batch[Paced], o.slot = home[c], o.act # "cancel"
        PROVE  /\ HotTracked(home[c]) = c => o.cid = c
               /\ InAckedBatch(c) => o.cid = c
    <3>1. o.act \in {"create", "modify"} /\ o.cid \in Cids
      BY <2>3 DEF TypeOK, Op, Senders
    <3>2. HotTracked(home[c]) \in {None, o.cid}
      <4>1. CASE o.act = "create"
        BY <2>1, <2>3, <4>1 DEF SlotInv, Owned, CreatesIntoEmpty, HotTracked
      <4>2. CASE o.act = "modify"
        <5>1. tracked[home[c]] \in {None, o.cid}
              /\ \A i \in DOMAIN events[home[c]] : events[home[c]][i].cid = o.cid
          BY <2>3, <4>2 DEF SlotInv, Owned, MovesItsOrder
        <5>2. QED
          BY <2>1, <3>1, <5>1, HotSame
      <4>3. QED
        BY <3>1, <4>1, <4>2
    <3>3. ASSUME InAckedBatch(c) PROVE o.cid = c
      <4>1. PICK p \in batch[Paced] : p.act = "create" /\ p.cid = c
        BY <3>3 DEF InAckedBatch
      <4>2. p.slot = home[c]
        BY <4>1 DEF Issued, IssuedOps, Senders
      <4>3. p = o
        BY <2>3, <4>1, <4>2 DEF SlotInv, Owned, OneOpEach, OneOpPerSlot
      <4>4. QED
        BY <4>1, <4>3
    <3>4. QED
      BY <2>1, <3>2, <3>3
  <2>4. CASE \E o \in batch[Paced] : o.slot = home[c] /\ o.act # "cancel"
    <3>1. PICK o \in batch[Paced] : o.slot = home[c] /\ o.act # "cancel"
      BY <2>4
    <3>2. HotTracked(home[c])' = o.cid
      <4>1. home'[c] = home[c]
        BY <1>1
      <4>2. QED
        BY <1>2, <2>1, <3>1, <4>1
    <3>3. QED
      BY <2>3, <3>1, <3>2
  <2>5. QED
    BY <2>2, <2>4
<1>4. QED
  BY <1>1, <1>3, ClaimFrame

\* Steps that leave the slots and the batch in hand alone.
LEMMA ClaimSteady ==
    ASSUME Claimed, UNCHANGED <<tracked, events, home>>,
           (Live \union Opening)' \subseteq Live \union Opening,
           orphaned \subseteq orphaned',
           pc[Paced] = "acked" => UNCHANGED <<pc[Paced], batch[Paced]>>
    PROVE  Claimed'
<1>1. \A c : HotTracked(home[c])' = HotTracked(home[c])
  BY HotSteady
<1>2. \A c : InAckedBatch(c) => InAckedBatch(c)'
  BY DEF InAckedBatch
<1>3. QED
  BY <1>1, <1>2, ClaimFrame

\* Every step keeps the claims.
LEMMA ClaimStep ==
    ASSUME TypeOK, Issued, SlotInv, Fate, Claimed, TypeOK', [Next]_vars
    PROVE  Claimed'
<1>p. Paced \in Senders /\ Reconcilers \subseteq Senders /\ Paced \notin Reconcilers
  BY DEF Senders
<1>s. ASSUME UNCHANGED <<exch, accepted>>
      PROVE  (Live \union Opening)' = Live \union Opening
  BY <1>s DEF Live, Opening
<1>1. CASE HotTick
  <2>1. PICK want \in Wants : \E new \in Injection(EmptyQuoted(want), Fresh) :
          Tick(want, new)
    BY <1>1 DEF HotTick
  <2>2. PICK new \in Injection(EmptyQuoted(want), Fresh) : Tick(want, new)
    BY <2>1
  <2>3. /\ UNCHANGED <<exch, accepted, batch, orphaned>>
        /\ pc[Paced] = "acked" => pc'[Paced] = "acked"
        /\ \A s \in Slots : tracked'[s] = HotTracked(s) /\ events'[s] = <<>>
    BY <1>p, <2>2 DEF Tick, TypeOK
  <2>4. ASSUME NEW c \in (Live \union Opening) \ orphaned'
        PROVE  /\ home'[c] = home[c]
               /\ HotTracked(home[c]) = c => HotTracked(home[c])' = c
               /\ InAckedBatch(c) => InAckedBatch(c)'
    <3>1. c \in Cids /\ home[c] \in Slots
      BY <2>4, HeldOrder
    <3>2. home'[c] = home[c]
      BY <2>2, <3>1, TickHome
    <3>3. HotTracked(home[c])' = HotTracked(home[c])
      BY <2>3, <3>1, <3>2, HotDrained
    <3>4. InAckedBatch(c) => InAckedBatch(c)'
      BY <2>3 DEF InAckedBatch
    <3>5. QED
      BY <3>2, <3>3, <3>4
  <2>5. QED
    BY <1>s, <2>3, <2>4, ClaimFrame
<1>2. CASE PacedPull
  <2>1. PICK safe : EnterEffect(Paced, mailbox, {}, safe)
    BY <1>2, EnterBatchEffect DEF PacedPull
  <2>2. UNCHANGED <<exch, accepted, home>> /\ pc[Paced] = "gate"
    BY <1>2 DEF PacedPull
  <2>3. QED
    BY <1>p, <2>1, <2>2, EnterClaims
<1>3. CASE PacedDenied
  <2>1. UNCHANGED <<exch, accepted, tracked, events, home, orphaned>>
        /\ pc[Paced] = "gate"
    BY <1>3 DEF PacedDenied
  <2>2. QED
    BY <1>s, <2>1, ClaimSteady
<1>4. ASSUME NEW n \in Senders, Send(n) PROVE Claimed'
  <2>1. CASE AcquireLock(n) \/ AbortBatch(n) \/ Signed(n) \/ Rejected(n)
    <3>1. /\ UNCHANGED <<exch, accepted, tracked, events, home, orphaned>>
          /\ pc[n] # "acked"
          /\ \A m \in Senders : m # n => batch'[m] = batch[m] /\ pc'[m] = pc[m]
      BY <2>1 DEF AcquireLock, AbortBatch, Signed, Rejected, GiveUp, TypeOK
    <3>2. pc[Paced] = "acked" => UNCHANGED <<pc[Paced], batch[Paced]>>
      BY <1>p, <3>1
    <3>3. QED
      BY <1>s, <3>1, <3>2, ClaimSteady
  <2>2. CASE Accept(n)
    <3>1. /\ UNCHANGED <<exch, tracked, events, home, orphaned, batch>>
          /\ accepted' = accepted \union batch[n]
          /\ pc[n] = "inflight" /\ pc' = [pc EXCEPT ![n] = "acked"]
      BY <2>2 DEF Accept
    <3>2. \A c : HotTracked(home[c])' = HotTracked(home[c])
      BY <3>1, HotSteady
    <3>3. \A c : InAckedBatch(c) => InAckedBatch(c)'
      BY <1>p, <3>1 DEF InAckedBatch, TypeOK
    <3>4. \A c \in (Live \union Opening)' : c \in Live \union Opening \/ InAckedBatch(c)'
      <4>1. \A o \in batch[n] : o.act = "create" => n = Paced
        BY DEF Senders, SlotInv, Owned, ReconcilersCancel
      <4>2. QED
        BY <1>p, <3>1, <4>1 DEF Live, Opening, InAckedBatch, TypeOK
    <3>5. QED
      BY <3>1, <3>2, <3>3, <3>4 DEF Claimed
  <2>3. CASE AnswerLost(n)
    <3>1. /\ UNCHANGED <<exch, accepted, tracked, events, home>>
          /\ orphaned' = orphaned \union CidsOf(Creates(batch[n]))
          /\ \A m \in Senders : m # n => batch'[m] = batch[m] /\ pc'[m] = pc[m]
      BY <2>3 DEF AnswerLost, GiveUp, TypeOK
    <3>2. \A c : HotTracked(home[c])' = HotTracked(home[c])
      BY <3>1, HotSteady
    <3>3. \A c : InAckedBatch(c) => InAckedBatch(c)' \/ c \in orphaned'
      BY <1>p, <3>1 DEF InAckedBatch, CidsOf, Creates
    <3>4. QED
      BY <1>s, <3>1, <3>2, <3>3, ClaimFrame
  <2>4. CASE Acked(n)
    <3>1. CASE n = Paced
      BY <2>4, <3>1, AckedClaims
    <3>2. CASE n \in Reconcilers
      <4>1. \A o \in batch[n] : o.act = "cancel"
        BY <3>2 DEF SlotInv, Owned, ReconcilersCancel
      <4>2. events' = [s \in Slots |-> events[s]]
        BY <2>4, <4>1 DEF Acked
      <4>3. /\ UNCHANGED <<exch, accepted, tracked, events, home, orphaned>>
            /\ UNCHANGED <<pc[Paced], batch[Paced]>>
        BY <1>p, <2>4, <3>2, <4>2 DEF Acked, GiveUp, TypeOK
      <4>4. QED
        BY <1>s, <4>3, ClaimSteady
    <3>3. QED
      BY <3>1, <3>2 DEF Senders
  <2>5. QED
    BY <1>4, <2>1, <2>2, <2>3, <2>4 DEF Send
<1>5. ASSUME NEW o \in accepted, Execute(o) PROVE Claimed'
  <2>1. /\ UNCHANGED <<tracked, events, home, orphaned, pc, batch>>
        /\ accepted' = accepted \ {o}
    BY <1>5 DEF Execute
  <2>2. o.cid \in Cids /\ (o.act = "create" => o.cid \in Opening)
    BY DEF TypeOK, Op, Opening
  <2>3. \A c \in Cids : exch'[c] = "live" => exch[c] = "live"
                                             \/ (c = o.cid /\ o.act = "create")
    BY <1>5 DEF Execute, TypeOK
  <2>4. (Live \union Opening)' \subseteq Live \union Opening
    BY <2>1, <2>2, <2>3 DEF Live, Opening
  <2>5. QED
    BY <2>1, <2>4, ClaimSteady
<1>6. ASSUME NEW c \in Cids, Fill(c) PROVE Claimed'
  <2>1. /\ UNCHANGED <<tracked, events, home, orphaned, pc, batch, accepted>>
        /\ exch' = [exch EXCEPT ![c] = "dead"]
    BY <1>6 DEF Fill
  <2>2. (Live \union Opening)' \subseteq Live \union Opening
    BY <2>1 DEF Live, Opening, TypeOK
  <2>3. QED
    BY <2>1, <2>2, ClaimSteady
<1>7. ASSUME NEW refresh \in BOOLEAN, FeedLost(refresh) PROVE Claimed'
  BY <1>7, <1>s, ClaimSteady DEF FeedLost
<1>8. CASE FeedSubscribed
  BY <1>8, <1>s, ClaimSteady DEF FeedSubscribed
<1>9. CASE OnAccountOrders
  <2>1. UNCHANGED <<exch, accepted, home, orphaned, pc, batch>>
    BY <1>9 DEF OnAccountOrders
  <2>2. ASSUME NEW c \in (Live \union Opening) \ orphaned'
        PROVE  /\ HotTracked(home[c]) = c => HotTracked(home[c])' = c
               /\ InAckedBatch(c) => InAckedBatch(c)'
    <3>1. c \in Cids /\ home[c] \in Slots /\ exch[c] # "dead"
      BY <2>2, HeldOrder
    <3>2. QED
      BY <1>9, <2>1, <3>1, HotFeed DEF InAckedBatch
  <2>3. QED
    BY <1>s, <2>1, <2>2, ClaimFrame
<1>10. ASSUME NEW r \in Reconcilers, ReconcilerStep(r) PROVE Claimed'
  <2>1. CASE RestAnswered(r)
    BY <1>s, <2>1, ClaimSteady DEF RestAnswered
  <2>2. CASE Reconcile(r) \/ ReconcilerDenied(r)
    <3>1. UNCHANGED <<exch, accepted, tracked, events, home, orphaned>>
          /\ UNCHANGED <<pc[Paced], batch[Paced]>>
      BY <1>p, <2>2 DEF Reconcile, ReconcileWith, ReconcilerDenied, GiveUp, TypeOK
    <3>2. QED
      BY <1>s, <3>1, ClaimSteady
  <2>3. CASE ReconcilerSend(r)
    <3>1. PICK safe : EnterEffect(r, batch[r], mailbox, safe)
      BY <2>3, EnterBatchEffect DEF ReconcilerSend
    <3>2. UNCHANGED <<exch, accepted, home>> /\ pc[r] = "gate"
      BY <2>3 DEF ReconcilerSend
    <3>3. QED
      BY <1>p, <3>1, <3>2, EnterClaims
  <2>4. QED
    BY <1>10, <2>1, <2>2, <2>3 DEF ReconcilerStep
<1>11. CASE ColdReconcile
  <2>1. /\ UNCHANGED <<exch, accepted, home, events, pc, batch>>
        /\ orphaned' = orphaned \union LostToSnapshot(TrackedIds)
        /\ \A s \in Slots : tracked'[s] = RecTracked(tracked[s])
    BY <1>11 DEF ColdReconcile
  <2>2. ASSUME NEW c \in (Live \union Opening) \ orphaned'
        PROVE  HotTracked(home[c]) = c => HotTracked(home[c])' = c
    <3>1. c \in Cids /\ home[c] \in Slots /\ exch[c] # "dead"
      BY <2>2, HeldOrder
    <3>2. CASE events[home[c]] # <<>>
      BY <2>1, <3>2 DEF HotTracked
    <3>3. CASE events[home[c]] = <<>> /\ tracked[home[c]] = c
      <4>1. c \in TrackedIds
        BY <3>1, <3>3 DEF TrackedIds
      <4>2. ~Missing(c)
        BY <2>1, <2>2, <3>1, <4>1 DEF LostToSnapshot
      <4>3. tracked'[home[c]] = c
        BY <2>1, <3>1, <3>3, <4>2 DEF RecTracked
      <4>4. QED
        BY <2>1, <3>3, <4>3 DEF HotTracked
    <3>4. QED
      BY <3>2, <3>3 DEF HotTracked
  <2>3. \A c : InAckedBatch(c) => InAckedBatch(c)'
    BY <2>1 DEF InAckedBatch
  <2>4. QED
    BY <1>s, <2>1, <2>2, <2>3, ClaimFrame
<1>12. CASE UNCHANGED vars
  BY <1>12, <1>s, ClaimSteady DEF vars
<1>13. QED
  BY <1>1, <1>2, <1>3, <1>4, <1>5, <1>6, <1>7, <1>8, <1>9, <1>10, <1>11, <1>12
     DEF Next

-----------------------------------------------------------------------------
(* The theorem. *)

\* Two quotes of a slot would both be its claim.
LEMMA ClaimedOnce ==
    ASSUME TypeOK, Issued, SlotInv, Fate, Claimed
    PROVE  OneQuotePerSlot
<1>1. SUFFICES ASSUME NEW c \in Live \ orphaned, NEW d \in Live \ orphaned,
                      home[c] = home[d]
               PROVE  c = d
  BY DEF OneQuotePerSlot
<1>2. /\ c \in Cids /\ d \in Cids /\ home[c] \in Slots
      /\ HotTracked(home[c]) = c \/ InAckedBatch(c)
      /\ HotTracked(home[d]) = d \/ InAckedBatch(d)
  BY HeldOrder DEF Claimed
<1>3. ASSUME NEW e \in Cids, InAckedBatch(e)
      PROVE  \E o \in batch[Paced] : /\ o.act = "create" /\ o.cid = e
                                     /\ o.slot = home[e]
                                     /\ HotTracked(o.slot) = None
  <2>1. PICK o \in batch[Paced] : o.act = "create" /\ o.cid = e
    BY <1>3 DEF InAckedBatch
  <2>2. o.slot = home[e]
    BY <2>1 DEF Issued, IssuedOps, Senders
  <2>3. HotTracked(o.slot) = None
    BY <2>1 DEF SlotInv, Owned, CreatesIntoEmpty, HotTracked
  <2>4. QED
    BY <2>1, <2>2, <2>3
<1>4. CASE InAckedBatch(c) /\ InAckedBatch(d)
  BY <1>1, <1>2, <1>3, <1>4 DEF SlotInv, Owned, OneOpEach, OneOpPerSlot
<1>5. CASE ~InAckedBatch(c) \/ ~InAckedBatch(d)
  BY <1>1, <1>2, <1>3, <1>5
<1>6. QED
  BY <1>4, <1>5

\* Two open orders are never quoted for one slot, but for orders the bot was
\* made to lose (the answer to a create lost, a snapshot older than the order).
THEOREM OneQuoteForEachSlot == Spec => []OneQuotePerSlot
<1>1. Init => Fate /\ Claimed
  BY FateInit, ClaimInit
<1>2. /\ TypeOK /\ Issued /\ SlotInv /\ TypeOK'
      /\ Fate /\ Claimed /\ [Next]_vars
      => Fate' /\ Claimed'
  BY FateStep, ClaimStep
<1>3. TypeOK /\ Issued /\ SlotInv /\ Fate /\ Claimed => OneQuotePerSlot
  BY ClaimedOnce
<1>4. QED
  BY <1>1, <1>2, <1>3, TypeCorrect, SlotsInductive, PTL DEF Spec
=============================================================================
