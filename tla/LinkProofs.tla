----------------------------- MODULE LinkProofs -----------------------------
(***************************************************************************)
(* Proofs about the links to the exchanges: the two books that are kept in *)
(* step with their streams, both of which implement BookReplica, the       *)
(* channel that sends batches, and the feed of the account's orders.       *)
(* MCExchangeLinks runs the same modules on a small instance.              *)
(***************************************************************************)
EXTENDS BinanceDepth, BookFeed, TxChannel, AccountFeed, Induction

-----------------------------------------------------------------------------
(* The content of a book. *)

\* The last of some changes is one of them, and none of them comes after it.
LEMMA LastOfSome ==
    ASSUME NEW ids, ids \subseteq Nat, ids # {}, NEW n \in Nat, \A i \in ids : i <= n
    PROVE  Max(ids) \in ids /\ \A i \in ids : i <= Max(ids)
<1>1. \E m \in ids : \A i \in ids : i <= m
  BY LargestOf
<1>2. \E m \in ids : \A i \in ids : m >= i
  BY <1>1
<1>3. Max(ids) \in ids /\ \A i \in ids : Max(ids) >= i
  BY <1>2 DEF Max
<1>. QED BY <1>3

\* What a book holds after the first n changes: on each side the last of them that
\* is on it, and nothing when there is none.
LEMMA BookHolds ==
    ASSUME NEW log, NEW n \in Nat, NEW s \in Sides
    PROVE  /\ BookAt(log, n)[s] \in 0..n
           /\ BookAt(log, n)[s] # 0 => log[BookAt(log, n)[s]] = s
           /\ \A i \in 1..n : log[i] = s => i <= BookAt(log, n)[s]
           /\ BookAt(log, n)[s] = 0 => \A i \in 1..n : log[i] # s
<1>. DEFINE hits == {i \in 1..n : log[i] = s}
<1>1. BookAt(log, n)[s] = IF hits = {} THEN 0 ELSE Max(hits)
  BY DEF BookAt, Overwrite, Empty
<1>2. CASE hits = {}
  BY <1>1, <1>2
<1>3. CASE hits # {}
  <2>1. hits \subseteq Nat /\ \A i \in hits : i <= n
    OBVIOUS
  <2>. HIDE DEF hits
  <2>2. Max(hits) \in hits /\ \A i \in hits : i <= Max(hits)
    BY <1>3, <2>1, LastOfSome
  <2>. QED BY <1>1, <1>3, <2>2 DEF hits
<1>. QED BY <1>2, <1>3

\* And it is the only number with these properties.
LEMMA BookIs ==
    ASSUME NEW log, NEW n \in Nat, NEW s \in Sides, NEW v \in 0..n, v # 0 => log[v] = s,
           \A i \in 1..n : log[i] = s => i <= v
    PROVE  BookAt(log, n)[s] = v
<1>. DEFINE w == BookAt(log, n)[s]
<1>1. w \in 0..n /\ (w # 0 => log[w] = s) /\ \A i \in 1..n : log[i] = s => i <= w
  BY BookHolds
<1>. HIDE DEF w
<1>2. w <= v
  <2>1. CASE w = 0
    BY <2>1
  <2>2. CASE w # 0
    BY <1>1, <2>2
  <2>. QED BY <2>1, <2>2
<1>3. v <= w
  <2>1. CASE v = 0
    BY <1>1, <2>1
  <2>2. CASE v # 0
    BY <1>1, <2>2
  <2>. QED BY <2>1, <2>2
<1>4. w = v
  BY <1>1, <1>2, <1>3
<1>. QED BY <1>4 DEF w

\* An unbroken run of changes that begins no later than the one after moment n, and
\* ends at moment k or after n, brings the book of n to k, whatever older changes it
\* repeats.
LEMMA BookMoves ==
    ASSUME NEW log, NEW n \in Nat, NEW k \in Nat, n <= k,
           NEW a \in 1..(n + 1)
    PROVE  Overwrite(BookAt(log, n), log, a..k) = BookAt(log, k)
<1>. DEFINE ids == a..k
            old == BookAt(log, n)
            new == Overwrite(old, log, ids)
<1>1. ASSUME NEW s \in Sides
      PROVE  new[s] = BookAt(log, k)[s]
  <2>. DEFINE hits == {i \in ids : log[i] = s}
  <2>1. new[s] = IF hits = {} THEN old[s] ELSE Max(hits)
    BY DEF Overwrite
  <2>2. old[s] \in 0..n /\ (old[s] # 0 => log[old[s]] = s)
    BY BookHolds
  <2>3. \A i \in 1..n : log[i] = s => i <= old[s]
    BY BookHolds
  <2>. HIDE DEF old, new
  <2>4. CASE hits = {}
    <3>1. \A i \in 1..k : log[i] = s => i \in 1..n
      BY <2>4
    <3>2. \A i \in 1..k : log[i] = s => i <= old[s]
      BY <2>3, <3>1
    <3>3. BookAt(log, k)[s] = old[s]
      BY <2>2, <3>2, BookIs
    <3>. QED BY <2>1, <2>4, <3>3
  <2>5. CASE hits # {}
    <3>1. hits \subseteq Nat /\ \A i \in hits : i <= k
      <4>1. ids \subseteq Nat /\ \A i \in ids : i <= k
        OBVIOUS
      <4>. HIDE DEF ids
      <4>. QED BY <4>1
    <3>2. Max(hits) \in hits /\ \A i \in hits : i <= Max(hits)
      <4>. HIDE DEF hits
      <4>. QED BY <2>5, <3>1, LastOfSome
    <3>3. ASSUME NEW i \in 1..k, log[i] = s
          PROVE  i <= Max(hits)
      <4>1. CASE i \in ids
        BY <3>2, <3>3, <4>1
      <4>2. CASE i \notin ids
        <5>1. i < a
          BY <4>2
        <5>2. Max(hits) \in Int /\ Max(hits) >= a
          BY <3>2
        <5>. QED BY <5>1, <5>2
      <4>. QED BY <4>1, <4>2
    <3>4. Max(hits) \in 1..k /\ log[Max(hits)] = s
      BY <3>2
    <3>5. BookAt(log, k)[s] = Max(hits)
      <4>. DEFINE m == Max(hits)
      <4>1. m \in 0..k /\ log[m] = s /\ \A i \in 1..k : log[i] = s => i <= m
        BY <3>3, <3>4
      <4>. HIDE DEF m
      <4>2. BookAt(log, k)[s] = m
        BY <4>1, BookIs
      <4>. QED BY <4>2 DEF m
    <3>. QED BY <2>1, <2>5, <3>5
  <2>. QED BY <2>4, <2>5
<1>2. new = [s \in Sides |-> new[s]]
  BY DEF Overwrite
<1>3. BookAt(log, k) = [s \in Sides |-> BookAt(log, k)[s]]
  BY DEF BookAt, Overwrite
<1>. HIDE DEF new
<1>4. new = BookAt(log, k)
  BY <1>1, <1>2, <1>3
<1>. QED BY <1>4 DEF new

\* What has been written does not depend on changes that come later.
LEMMA WrittenStays ==
    ASSUME NEW log, NEW longer, NEW ids, \A i \in ids : longer[i] = log[i], NEW base
    PROVE  Overwrite(base, longer, ids) = Overwrite(base, log, ids)
<1>1. \A s \in Sides : {i \in ids : longer[i] = s} = {i \in ids : log[i] = s}
  OBVIOUS
<1>. QED BY <1>1 DEF Overwrite

-----------------------------------------------------------------------------
(* The Lighter order book. *)

Messages == [snap : BOOLEAN, from : Nat \ {0}, off : Nat]

FeedTypes ==
    /\ flog \in Seq(Sides) /\ fwire \in Seq(Messages)
    /\ \A i \in 1..Len(fwire) : fwire[i].off <= Len(flog) /\ (fwire[i].snap => fwire[i].from = 1)
    /\ {up, mid, healthy, missed} \subseteq BOOLEAN
    /\ ob = [init |-> ob.init, off |-> ob.off, sides |-> ob.sides]
    /\ ob.init \in BOOLEAN /\ ob.off \in NoOffset..Len(flog)
    /\ ob.sides = [s \in Sides |-> ob.sides[s]]

\* Without a connection there is no book, and a mid price is that of a book with two
\* sides, unless a message broke it and the handler said so.
MidOfBook ==
    /\ ~up => ob = NoBook /\ ~mid /\ ~missed /\ fwire = <<>>
    /\ mid => up /\ ob.init /\ (healthy => TwoSided(ob.sides))

\* A snapshot is never behind another message, nor behind the book it will replace.
SnapshotFirst ==
    \A i \in 1..Len(fwire) : fwire[i].snap => i = 1 /\ fwire[i].off >= ob.off

\* A book to which nothing is missing is the exchange's at its offset.
BookOfOffset ==
    ~missed => IF ob.init THEN ob.off # NoOffset /\ ob.sides = BookAt(flog, ob.off)
               ELSE ob.off = NoOffset

FeedInv == FeedTypes /\ MidOfBook /\ SnapshotFirst /\ BookOfOffset

\* No book is quoted from at the start.
LEMMA FeedStarts == FeedInit => FeedInv
<1>. SUFFICES ASSUME FeedInit PROVE FeedInv
  OBVIOUS
<1>1. FeedTypes
  <2>1. flog \in Seq(Sides) /\ fwire \in Seq(Messages) /\ Len(flog) = 0 /\ Len(fwire) = 0
    BY DEF FeedInit
  <2>2. ob = [init |-> FALSE, off |-> -1, sides |-> [s \in Sides |-> 0]]
    BY DEF FeedInit, NoBook, NoOffset, Empty
  <2>3. {up, mid, healthy, missed} \subseteq BOOLEAN
    BY DEF FeedInit
  <2>. QED BY <2>1, <2>2, <2>3 DEF FeedTypes, NoOffset
<1>2. MidOfBook
  BY DEF FeedInit, MidOfBook
<1>3. SnapshotFirst
  BY DEF FeedInit, SnapshotFirst
<1>4. BookOfOffset
  BY DEF FeedInit, BookOfOffset, NoBook
<1>. QED BY <1>1, <1>2, <1>3, <1>4 DEF FeedInv

\* A step that leaves the exchange, the wire and the book alone, and sets healthy to
\* no more than it was, keeps the invariant.
LEMMA FeedIdles ==
    ASSUME FeedInv, UNCHANGED <<flog, fwire, up, ob, mid, missed, healthy>>
    PROVE  FeedInv'
BY DEF FeedInv, FeedTypes, MidOfBook, SnapshotFirst, BookOfOffset

\* A change of the exchange leaves the book at its offset what it is.
LEMMA LogGrows ==
    ASSUME FeedInv, NEW s \in Sides, flog' = Append(flog, s)
    PROVE  /\ flog' \in Seq(Sides) /\ Len(flog') = Len(flog) + 1
           /\ \A n \in 0..Len(flog) : BookAt(flog', n) = BookAt(flog, n)
<1>1. flog \in Seq(Sides)
  BY DEF FeedInv, FeedTypes
<1>2. ASSUME NEW n \in 0..Len(flog)
      PROVE  BookAt(flog', n) = BookAt(flog, n)
  <2>1. \A i \in 1..n : flog'[i] = flog[i]
    BY <1>1
  <2>2. Overwrite(Empty, flog', 1..n) = Overwrite(Empty, flog, 1..n)
    <3>. DEFINE later == flog'
    <3>1. \A i \in 1..n : later[i] = flog[i]
      BY <2>1
    <3>. HIDE DEF later
    <3>2. Overwrite(Empty, later, 1..n) = Overwrite(Empty, flog, 1..n)
      BY <3>1, WrittenStays
    <3>. QED BY <3>2 DEF later
  <2>. QED BY <2>2 DEF BookAt
<1>. QED BY <1>1, <1>2

\* A change of the book at the exchange.
LEMMA PublishKeeps ==
    ASSUME FeedInv, NEW s \in Sides, NEW lost \in BOOLEAN, FeedPublish(s, lost)
    PROVE  FeedInv'
<1>. USE DEF FeedInv
<1>1. flog' = Append(flog, s) /\ UNCHANGED <<up, ob, mid, healthy, missed>>
  BY DEF FeedPublish, feedBook
<1>2. /\ flog' \in Seq(Sides) /\ Len(flog') = Len(flog) + 1 /\ Len(flog) \in Nat
      /\ \A n \in 0..Len(flog) : BookAt(flog', n) = BookAt(flog, n)
  BY <1>1, LogGrows DEF FeedTypes
<1>3. fwire' = fwire \/ (up /\ fwire' = Append(fwire, Delta(Len(flog) + 1, Len(flog) + 1)))
  BY DEF FeedPublish
<1>4. fwire \in Seq(Messages) /\ fwire' \in Seq(Messages)
  <2>1. Delta(Len(flog) + 1, Len(flog) + 1) \in Messages
    BY <1>2 DEF Delta, Messages
  <2>. QED BY SMTT(30), <1>3, <2>1 DEF FeedTypes
<1>5. /\ Len(fwire') >= Len(fwire) /\ Len(fwire) \in Nat /\ Len(fwire') \in Nat
      /\ \A i \in 1..Len(fwire) : fwire'[i] = fwire[i]
      /\ \A i \in 1..Len(fwire') : i > Len(fwire) => ~fwire'[i].snap /\ fwire'[i].off = Len(flog) + 1
  BY <1>3, <1>4 DEF Delta
<1>6. FeedTypes'
  <2>1. \A i \in 1..Len(fwire') : fwire'[i].off <= Len(flog') /\ (fwire'[i].snap => fwire'[i].from = 1)
    <3>. TAKE i \in 1..Len(fwire')
    <3>1. CASE i \in 1..Len(fwire)
      <4>1. fwire'[i] = fwire[i] /\ fwire[i] \in Messages /\ fwire[i].off <= Len(flog)
        BY <1>4, <1>5, <3>1 DEF FeedTypes
      <4>2. fwire[i].off \in Nat
        BY <4>1 DEF Messages
      <4>. QED BY <1>2, <3>1, <4>1, <4>2 DEF FeedTypes
    <3>2. CASE i \notin 1..Len(fwire)
      BY <1>2, <1>5, <3>2
    <3>. QED BY <3>1, <3>2
  <2>2. ob.off \in NoOffset..Len(flog')
    BY <1>2 DEF FeedTypes, NoOffset
  <2>. QED BY <1>1, <1>2, <1>4, <2>1, <2>2 DEF FeedTypes
<1>7. MidOfBook'
  BY <1>1, <1>3 DEF MidOfBook
<1>8. SnapshotFirst'
  BY <1>1, <1>5 DEF SnapshotFirst
<1>9. BookOfOffset'
  BY <1>1, <1>2 DEF BookOfOffset, FeedTypes, NoOffset
<1>. QED BY <1>6, <1>7, <1>8, <1>9

\* A connection that ends, for whatever reason.
LEMMA DisconnectKeeps ==
    ASSUME FeedInv, Disconnect, flog' = flog
    PROVE  FeedInv'
<1>1. FeedTypes'
  <2>1. flog' \in Seq(Sides) /\ fwire' \in Seq(Messages) /\ Len(flog') \in Nat /\ Len(fwire') = 0
    BY DEF FeedInv, FeedTypes, Disconnect
  <2>2. ob' = [init |-> FALSE, off |-> -1, sides |-> [s \in Sides |-> 0]]
    BY DEF Disconnect, NoBook, NoOffset, Empty
  <2>3. {up', mid', healthy', missed'} \subseteq BOOLEAN
    BY DEF Disconnect, MidDropped
  <2>. QED BY <2>1, <2>2, <2>3 DEF FeedTypes, NoOffset
<1>2. MidOfBook'
  BY DEF Disconnect, MidOfBook, MidDropped
<1>3. SnapshotFirst'
  BY DEF Disconnect, SnapshotFirst
<1>4. BookOfOffset'
  BY DEF Disconnect, BookOfOffset, NoBook
<1>. QED BY <1>1, <1>2, <1>3, <1>4 DEF FeedInv

\* What is left on the wire when its first message is taken.
LEMMA WireShrinks ==
    ASSUME FeedInv, fwire # <<>>, fwire' = Tail(fwire), flog' = flog
    PROVE  /\ Head(fwire) = fwire[1] /\ 1 \in 1..Len(fwire) /\ Head(fwire) \in Messages
           /\ fwire' \in Seq(Messages)
           /\ \A i \in 1..Len(fwire') : /\ fwire'[i].off <= Len(flog)
                                        /\ ~fwire'[i].snap
<1>. fwire \in Seq(Messages)
  BY DEF FeedInv, FeedTypes
<1>1. /\ Head(fwire) = fwire[1] /\ 1 \in 1..Len(fwire) /\ Head(fwire) \in Messages
      /\ fwire' \in Seq(Messages) /\ Len(fwire') = Len(fwire) - 1 /\ Len(fwire) \in Nat
      /\ \A i \in 1..Len(fwire') : fwire'[i] = fwire[i + 1]
  OBVIOUS
<1>2. \A i \in 1..Len(fwire') : i + 1 \in 1..Len(fwire) /\ i + 1 # 1
  BY <1>1
<1>3. \A i \in 1..Len(fwire') : fwire'[i].off <= Len(flog) /\ ~fwire'[i].snap
  BY <1>1, <1>2 DEF FeedInv, FeedTypes, SnapshotFirst
<1>. QED BY <1>1, <1>3

\* What a message that is applied makes of a book to which nothing is missing: the
\* exchange's book at the message's offset.  A delta that does not join on, and a first
\* message that is not a snapshot, leave something missing.
LEMMA AppliedIsBook ==
    ASSUME FeedInv, NEW m \in Messages, m.off <= Len(flog), m.snap => m.from = 1,
           ~Old(m), Updated(m), ~missed'
    PROVE  ob'.sides = BookAt(flog, m.off)
<1>. USE DEF FeedInv
<1>. m.off \in Nat /\ m.from \in Nat \ {0} /\ m.snap \in BOOLEAN
  BY DEF Messages
<1>1. ob'.sides = Applied(m) /\ (m.snap \/ (~missed /\ ~(m.from > ob.off + 1)))
  <2>1. ob' = [init |-> TRUE, off |-> NewOffset(m), sides |-> Applied(m)]
    BY DEF Updated
  <2>2. missed' = (~m.snap /\ (missed \/ m.from > ob.off + 1))
    BY DEF Updated
  <2>. QED BY <2>1, <2>2
<1>2. CASE m.snap
  BY <1>1, <1>2 DEF Applied, BookAt
<1>3. CASE ~m.snap
  <2>1. ob.off \in Nat \cup {-1} /\ ob.init \in BOOLEAN
    BY DEF FeedTypes, NoOffset
  <2>2. ob.init /\ ob.off # NoOffset /\ ob.sides = BookAt(flog, ob.off)
    BY <1>1, <1>3, <2>1 DEF BookOfOffset, NoOffset
  <2>3. ob.off < m.off /\ ob.off \in Nat /\ m.from \in 1..(ob.off + 1)
    BY <1>1, <1>3, <2>1, <2>2 DEF Old, NoOffset
  <2>4. Applied(m) = Overwrite(BookAt(flog, ob.off), flog, m.from..m.off)
    BY <1>3, <2>2 DEF Applied
  <2>. HIDE DEF FeedInv
  <2>5. Overwrite(BookAt(flog, ob.off), flog, m.from..m.off) = BookAt(flog, m.off)
    <3>. DEFINE n == ob.off  k == m.off  a == m.from
    <3>1. n \in Nat /\ k \in Nat /\ n <= k /\ a \in 1..(n + 1)
      BY <2>3
    <3>. HIDE DEF n, k, a
    <3>2. Overwrite(BookAt(flog, n), flog, a..k) = BookAt(flog, k)
      BY <3>1, BookMoves
    <3>. QED BY <3>2 DEF n, k, a
  <2>. QED BY <1>1, <2>4, <2>5
<1>. QED BY <1>2, <1>3

\* A message that is taken over into the book.
LEMMA UpdatedKeeps ==
    ASSUME FeedInv, fwire # <<>>, fwire' = Tail(fwire), UNCHANGED <<flog, up>>, up,
           Updated(Head(fwire))
    PROVE  FeedInv'
<1>. DEFINE m == Head(fwire)
<1>1. /\ m = fwire[1] /\ 1 \in 1..Len(fwire) /\ m \in Messages
      /\ fwire' \in Seq(Messages)
      /\ \A i \in 1..Len(fwire') : fwire'[i].off <= Len(flog) /\ ~fwire'[i].snap
  BY WireShrinks
<1>2. m.off <= Len(flog) /\ (m.snap => m.from = 1)
  BY <1>1 DEF FeedInv, FeedTypes
<1>3. m.off \in Nat /\ Updated(m)
  BY <1>1 DEF Messages
<1>. HIDE DEF m
<1>. SnapshotFirst'
  BY <1>1 DEF SnapshotFirst
<1>4. CASE Old(m)
  <2>1. UNCHANGED <<ob, mid, healthy, missed>>
    BY <1>3, <1>4 DEF Updated, feedBook
  <2>2. FeedTypes'
    BY <1>1, <2>1 DEF FeedInv, FeedTypes
  <2>. QED BY <2>1, <2>2 DEF FeedInv, MidOfBook, BookOfOffset
<1>5. CASE ~Old(m)
  <2>1. /\ ob' = [init |-> TRUE, off |-> m.off, sides |-> Applied(m)]
        /\ mid' = TwoSided(ob'.sides) /\ healthy' = TRUE
        /\ missed' = (~m.snap /\ (missed \/ m.from > ob.off + 1))
    BY <1>3, <1>5 DEF Updated, NewOffset
  <2>2. Applied(m) = [s \in Sides |-> Applied(m)[s]]
    BY DEF Applied, Overwrite
  <2>3. FeedTypes'
    <3>1. ob'.off \in NoOffset..Len(flog)
      BY <1>2, <1>3, <2>1 DEF FeedInv, FeedTypes, NoOffset
    <3>2. missed' \in BOOLEAN /\ mid' \in BOOLEAN
      BY <2>1 DEF TwoSided
    <3>3. ob' = [init |-> ob'.init, off |-> ob'.off, sides |-> ob'.sides] /\ ob'.init \in BOOLEAN
      BY <2>1
    <3>4. ob'.sides = [s \in Sides |-> ob'.sides[s]]
      BY <2>1, <2>2
    <3>. QED BY <1>1, <2>1, <3>1, <3>2, <3>3, <3>4 DEF FeedInv, FeedTypes
  <2>4. MidOfBook'
    BY <2>1 DEF MidOfBook
  <2>5. BookOfOffset'
    <3>1. ~missed' => ob'.sides = BookAt(flog, m.off)
      BY <1>1, <1>2, <1>3, <1>5, AppliedIsBook
    <3>. QED BY <1>3, <2>1, <3>1 DEF BookOfOffset, NoOffset
  <2>. QED BY <2>3, <2>4, <2>5 DEF FeedInv
<1>. QED BY <1>4, <1>5

\* A message with a level that does not parse.
LEMMA MalformedKeeps ==
    ASSUME FeedInv, fwire # <<>>, fwire' = Tail(fwire), UNCHANGED <<flog, up>>, up,
           NEW s \in Sides, Malformed(Head(fwire), s)
    PROVE  FeedInv'
<1>. DEFINE m == Head(fwire)
<1>1. /\ m = fwire[1] /\ 1 \in 1..Len(fwire) /\ m \in Messages
      /\ fwire' \in Seq(Messages)
      /\ \A i \in 1..Len(fwire') : fwire'[i].off <= Len(flog) /\ ~fwire'[i].snap
  BY WireShrinks
<1>2. m.off <= Len(flog) /\ m.off \in Nat /\ Malformed(m, s)
  BY <1>1 DEF FeedInv, FeedTypes, Messages
<1>. HIDE DEF m
<1>3. ob = [init |-> ob.init, off |-> ob.off, sides |-> ob.sides]
  BY DEF FeedInv, FeedTypes
<1>4. /\ ob' = [init |-> ob.init, off |-> IF Old(m) THEN ob.off ELSE m.off,
                sides |-> [ob.sides EXCEPT ![s] = IF Old(m) THEN @ ELSE Applied(m)[s]]]
      /\ healthy' = (healthy /\ Old(m)) /\ missed' = (missed \/ ~Old(m)) /\ UNCHANGED mid
  BY <1>2, <1>3 DEF Malformed
<1>5. Old(m) \in BOOLEAN /\ {healthy, missed} \subseteq BOOLEAN
  BY DEF Old, FeedInv, FeedTypes
<1>6. FeedTypes'
  <2>1. ob'.off \in NoOffset..Len(flog)
    BY <1>2, <1>4 DEF FeedInv, FeedTypes, NoOffset
  <2>2. ob'.sides = [t \in Sides |-> ob'.sides[t]]
    BY <1>4 DEF FeedInv, FeedTypes
  <2>3. healthy' \in BOOLEAN /\ missed' \in BOOLEAN
    BY <1>4, <1>5
  <2>. QED BY <1>1, <1>4, <2>1, <2>2, <2>3 DEF FeedInv, FeedTypes
<1>7. SnapshotFirst'
  BY <1>1 DEF SnapshotFirst
<1>8. CASE Old(m)
  <2>1. ob.sides = [t \in Sides |-> ob.sides[t]]
    BY DEF FeedInv, FeedTypes
  <2>2. ob' = ob /\ healthy' = healthy /\ missed' = missed
    BY <1>3, <1>4, <1>5, <1>8, <2>1
  <2>. QED BY <1>4, <1>6, <1>7, <2>2 DEF FeedInv, MidOfBook, BookOfOffset
<1>9. CASE ~Old(m)
  <2>1. missed' /\ ~healthy' /\ ob'.init = ob.init
    BY <1>4, <1>9
  <2>. QED BY <1>4, <1>6, <1>7, <2>1 DEF FeedInv, MidOfBook, BookOfOffset
<1>. QED BY <1>8, <1>9

\* Every step keeps the invariant.
LEMMA FeedKeeps == FeedInv /\ [FeedNext]_feedVars => FeedInv'
<1>. SUFFICES ASSUME FeedInv, [FeedNext]_feedVars PROVE FeedInv'
  OBVIOUS
<1>1. ASSUME NEW s \in Sides, NEW lost \in BOOLEAN, FeedPublish(s, lost) PROVE FeedInv'
  BY <1>1, PublishKeeps
<1>2. CASE Refresh
  <2>1. UNCHANGED <<flog, up, ob, mid, missed, healthy>> /\ up /\ fwire' = <<Snapshot(Len(flog))>>
    BY <1>2 DEF Refresh, feedBook
  <2>2. Len(flog) \in Nat
    BY DEF FeedInv, FeedTypes
  <2>3. Snapshot(Len(flog)) \in Messages
    BY <2>2 DEF Snapshot, Messages
  <2>4. /\ fwire' \in Seq(Messages) /\ Len(fwire') = 1 /\ fwire'[1].off = Len(flog)
        /\ fwire'[1].from = 1
    BY <2>1, <2>3 DEF Snapshot
  <2>5. FeedTypes'
    BY <2>1, <2>2, <2>4 DEF FeedInv, FeedTypes
  <2>6. SnapshotFirst'
    BY <2>1, <2>2, <2>4 DEF FeedInv, FeedTypes, SnapshotFirst, NoOffset
  <2>. QED BY <2>1, <2>5, <2>6 DEF FeedInv, MidOfBook, BookOfOffset
<1>3. CASE Ticker \/ TickerSilent
  BY <1>3, FeedIdles DEF Ticker, TickerSilent, feedLink, feedBook
<1>4. ASSUME NEW n \in 1..MaxFeedChanges, Repeat(n) PROVE FeedInv'
  <2>1. /\ UNCHANGED <<flog, up, ob, mid, missed, healthy>> /\ up
        /\ fwire' = Append(fwire, Delta(n, n)) /\ n \in 1..Len(flog)
    BY <1>4 DEF Repeat, feedBook
  <2>2. Len(flog) \in Nat /\ fwire \in Seq(Messages)
    BY DEF FeedInv, FeedTypes
  <2>3. Delta(n, n) \in Messages /\ Delta(n, n).off = n /\ ~Delta(n, n).snap
    BY <2>1, <2>2 DEF Delta, Messages
  <2>4. /\ fwire' \in Seq(Messages)
        /\ \A i \in 1..Len(fwire') : \/ i \in 1..Len(fwire) /\ fwire'[i] = fwire[i]
                                     \/ fwire'[i] = Delta(n, n)
    BY <2>1, <2>2, <2>3
  <2>5. FeedTypes'
    BY <2>1, <2>2, <2>3, <2>4 DEF FeedInv, FeedTypes
  <2>6. SnapshotFirst'
    BY <2>1, <2>3, <2>4 DEF FeedInv, SnapshotFirst
  <2>. QED BY <2>1, <2>5, <2>6 DEF FeedInv, MidOfBook, BookOfOffset
<1>5. CASE FeedConnect
  <2>1. /\ UNCHANGED <<flog, ob, mid, missed>> /\ ~up /\ up' = TRUE /\ healthy' = TRUE
        /\ fwire' = <<Snapshot(Len(flog))>>
    BY <1>5 DEF FeedConnect
  <2>2. Len(flog) \in Nat /\ ob = NoBook /\ ~mid
    BY <2>1 DEF FeedInv, FeedTypes, MidOfBook
  <2>3. Snapshot(Len(flog)) \in Messages
    BY <2>2 DEF Snapshot, Messages
  <2>4. /\ fwire' \in Seq(Messages) /\ Len(fwire') = 1 /\ fwire'[1].off = Len(flog)
        /\ fwire'[1].from = 1
    BY <2>1, <2>3 DEF Snapshot
  <2>5. FeedTypes'
    BY <2>1, <2>2, <2>4 DEF FeedInv, FeedTypes
  <2>6. SnapshotFirst'
    BY <2>1, <2>2, <2>4 DEF FeedInv, FeedTypes, SnapshotFirst, NoOffset
  <2>. QED BY <2>1, <2>2, <2>5, <2>6 DEF FeedInv, MidOfBook, BookOfOffset
<1>6. CASE FeedReceive
  <2>1. CASE Served
    <3>1. Disconnect /\ flog' = flog
      BY <1>6, <2>1 DEF FeedReceive
    <3>. QED BY <3>1, DisconnectKeeps
  <2>2. CASE ~Served
    <3>1. up /\ fwire # <<>> /\ fwire' = Tail(fwire) /\ UNCHANGED <<flog, up>>
      BY <1>6, <2>2 DEF FeedReceive
    <3>2. Updated(Head(fwire)) \/ \E s \in Sides : Malformed(Head(fwire), s)
      BY <1>6, <2>2 DEF FeedReceive
    <3>. QED BY <3>1, <3>2, UpdatedKeeps, MalformedKeeps
  <2>. QED BY <2>1, <2>2
<1>7. CASE FeedPing
  <2>1. CASE Served
    <3>1. Disconnect /\ flog' = flog
      BY <1>7, <2>1 DEF FeedPing
    <3>. QED BY <3>1, DisconnectKeeps
  <2>2. CASE ~Served
    BY <1>7, <2>2, FeedIdles DEF FeedPing, feedBook
  <2>. QED BY <2>1, <2>2
<1>8. CASE FeedDown
  BY <1>8, DisconnectKeeps DEF FeedDown
<1>9. CASE GraceOver \/ BookAges \/ HealthCheck
  BY <1>9, FeedIdles DEF GraceOver, BookAges, HealthCheck, feedLink, feedBook
<1>10. CASE SanityByTicker \/ SanityFetch \/ SanityAnswered \/ SanityFetchFailed
  BY <1>10, FeedIdles
     DEF SanityByTicker, SanityFetch, SanityAnswered, SanityFetchFailed, feedLink, feedBook
<1>11. CASE UNCHANGED feedVars
  BY <1>11, FeedIdles DEF feedVars
<1>. QED BY <1>1, <1>2, <1>3, <1>4, <1>5, <1>6, <1>7, <1>8, <1>9, <1>10, <1>11 DEF FeedNext

\* The invariant holds throughout.
LEMMA FeedIsInv == FeedSpec => []FeedInv
BY FeedStarts, FeedKeeps, PTL DEF FeedSpec

\* Whatever messages are lost, do not parse or end the connection, the quoting loop
\* never finds the feed in order with a book that is empty, one-sided or of a connection
\* that is gone.
THEOREM QuotedBook == FeedSpec => []QuotedBookIsThere
<1>1. FeedInv => QuotedBookIsThere
  BY DEF FeedInv, MidOfBook, QuotedBookIsThere, Quotable
<1>. QED BY <1>1, FeedIsInv, PTL

-----------------------------------------------------------------------------
(* The Lighter order book implements BookReplica. *)

\* The replica reads the same book from the same log.
LEMMA FeedReplicaBook ==
    /\ FeedReplica!Empty = Empty
    /\ \A log, n : FeedReplica!BookAt(log, n) = BookAt(log, n)
BY DEF FeedReplica!BookAt, FeedReplica!Overwrite, FeedReplica!Empty, FeedReplica!Max,
       BookAt, Overwrite, Empty, Max

\* The replica starts where the feed does.
LEMMA FeedReplicaStarts == FeedInit => FeedReplica!Init
BY FeedReplicaBook DEF FeedInit, FeedReplica!Init, FeedUsed, NoBook

\* While the exchange's book stands still, a step is one of the replica as long as it
\* does not take a book that stays in use back.
LEMMA CopyMoves ==
    ASSUME FeedInv, FeedInv', flog' = flog, FeedUsed /\ FeedUsed' => ob.off <= ob'.off
    PROVE  [FeedReplica!Next]_FeedReplica!vars
<1>. FeedUsed \in BOOLEAN /\ FeedUsed' \in BOOLEAN
  BY DEF FeedInv, FeedTypes, FeedUsed
<1>1. CASE FeedUsed'
  <2>1. ob'.off \in 0..Len(flog) /\ ob'.sides = BookAt(flog, ob'.off)
    BY <1>1 DEF FeedInv, FeedTypes, BookOfOffset, FeedUsed, NoOffset
  <2>2. FeedUsed => ob.off \in 0..Len(flog)
    BY DEF FeedInv, FeedTypes, BookOfOffset, FeedUsed, NoOffset
  <2>3. ob'.off \in (IF FeedUsed THEN (IF FeedUsed THEN ob.off ELSE 0) ELSE 0)..Len(flog)
    BY <1>1, <2>1, <2>2
  <2>. QED BY <1>1, <2>1, <2>3, FeedReplicaBook DEF FeedReplica!Next, FeedReplica!Hold
<1>2. CASE FeedUsed /\ ~FeedUsed'
  BY <1>2, FeedReplicaBook DEF FeedReplica!Next, FeedReplica!Drop
<1>3. CASE ~FeedUsed /\ ~FeedUsed'
  BY <1>3 DEF FeedReplica!vars
<1>. QED BY <1>1, <1>2, <1>3

\* Every step of the feed is a step of the replica or none.
LEMMA FeedReplicaMoves ==
    FeedInv /\ FeedInv' /\ [FeedNext]_feedVars => [FeedReplica!Next]_FeedReplica!vars
<1>. SUFFICES ASSUME FeedInv, FeedInv', [FeedNext]_feedVars
              PROVE  [FeedReplica!Next]_FeedReplica!vars
  OBVIOUS
<1>1. ASSUME NEW s \in Sides, NEW lost \in BOOLEAN, FeedPublish(s, lost)
      PROVE  [FeedReplica!Next]_FeedReplica!vars
  <2>1. flog' = Append(flog, s) /\ UNCHANGED <<ob, missed>> /\ flog \in Seq(Sides)
    BY <1>1 DEF FeedPublish, feedBook, FeedInv, FeedTypes
  <2>2. Len(flog') >= Len(flog) /\ SubSeq(flog', 1, Len(flog)) = flog
    BY <2>1
  <2>. QED BY <2>1, <2>2 DEF FeedReplica!Next, FeedReplica!Change, FeedUsed
<1>2. CASE flog' = flog /\ ob' = ob
  <2>1. ob.off <= ob'.off
    BY <1>2 DEF FeedInv, FeedTypes, NoOffset
  <2>. QED BY <1>2, <2>1, CopyMoves
<1>3. CASE flog' = flog /\ Disconnect
  <2>1. ~FeedUsed'
    BY <1>3 DEF Disconnect, NoBook, FeedUsed
  <2>. QED BY <1>3, <2>1, CopyMoves
<1>4. CASE FeedReceive /\ ~Served
  <2>1. fwire # <<>> /\ fwire' = Tail(fwire) /\ flog' = flog
    BY <1>4 DEF FeedReceive
  <2>2. /\ Head(fwire) = fwire[1] /\ 1 \in 1..Len(fwire) /\ Head(fwire) \in Messages
    BY <2>1, WireShrinks
  <2>. DEFINE m == Head(fwire)
  <2>3. m.off \in Nat /\ ob.off \in Nat \cup {-1} /\ (m.snap => ob.off <= m.off)
    <3>1. m.off \in Nat
      BY <2>2 DEF Messages
    <3>2. ob.off \in Nat \cup {-1}
      BY DEF FeedInv, FeedTypes, NoOffset
    <3>3. m.snap => m.off >= ob.off
      BY <2>2 DEF FeedInv, SnapshotFirst
    <3>. QED BY <3>1, <3>2, <3>3
  <2>4. Updated(m) \/ \E s \in Sides : Malformed(m, s)
    BY <1>4 DEF FeedReceive
  <2>. HIDE DEF m
  <2>5. FeedUsed /\ FeedUsed' => ob.off <= ob'.off
    <3>1. CASE Updated(m) /\ Old(m)
      BY <2>3, <3>1 DEF Updated, feedBook
    <3>2. CASE Updated(m) /\ ~Old(m)
      <4>1. ob'.off = m.off
        BY <3>2 DEF Updated, NewOffset
      <4>2. CASE m.snap
        BY <2>3, <4>1, <4>2
      <4>3. CASE ~m.snap
        <5>1. FeedUsed => ob.off = -1 \/ ~(m.off <= ob.off)
          BY <3>2, <4>3 DEF Old, FeedUsed, NoOffset
        <5>. QED BY <2>3, <4>1, <5>1
      <4>. QED BY <4>2, <4>3
    <3>3. ASSUME NEW s \in Sides, Malformed(m, s), FeedUsed'
          PROVE  ob.off <= ob'.off
      <4>1. Old(m)
        BY <3>3 DEF Malformed, FeedUsed
      <4>2. ob'.off = ob.off
        BY <3>3, <4>1 DEF Malformed, FeedInv, FeedTypes
      <4>. QED BY <2>3, <4>2
    <3>. QED BY <2>4, <3>1, <3>2, <3>3
  <2>. QED BY <2>1, <2>5, CopyMoves
<1>5. CASE FeedReceive /\ Served
  <2>1. flog' = flog /\ Disconnect
    BY <1>5 DEF FeedReceive
  <2>. QED BY <1>3, <2>1
<1>6. CASE FeedPing \/ FeedDown
  <2>1. flog' = flog /\ (Disconnect \/ ob' = ob)
    BY <1>6 DEF FeedPing, FeedDown, feedBook
  <2>. QED BY <1>2, <1>3, <2>1
<1>7. CASE \/ Refresh \/ Ticker \/ TickerSilent
           \/ FeedConnect \/ GraceOver \/ BookAges \/ HealthCheck
           \/ \E n \in 1..MaxFeedChanges : Repeat(n)
           \/ SanityByTicker \/ SanityFetch \/ SanityAnswered \/ SanityFetchFailed
  <2>1. flog' = flog /\ ob' = ob
    BY <1>7 DEF Refresh, Ticker, TickerSilent, FeedConnect, GraceOver, BookAges, HealthCheck,
       Repeat, SanityByTicker, SanityFetch, SanityAnswered, SanityFetchFailed, feedBook, feedLink
  <2>. QED BY <1>2, <2>1
<1>8. CASE UNCHANGED feedVars
  BY <1>2, <1>8 DEF feedVars
<1>. QED BY <1>1, <1>4, <1>5, <1>6, <1>7, <1>8 DEF FeedNext

\* The handler of the order book feed implements BookReplica: as long as no delta was
\* lost or half applied, its book is that of the exchange at its offset, for a log of any
\* length and any number of connections.
THEOREM FeedImplementsReplica == FeedSpec => FeedIsReplica
<1>1. FeedSpec => FeedReplica!Init /\ [][FeedReplica!Next]_FeedReplica!vars
  BY FeedReplicaStarts, FeedReplicaMoves, FeedIsInv, PTL DEF FeedSpec
<1>. QED BY <1>1 DEF FeedIsReplica, FeedReplica!Spec

-----------------------------------------------------------------------------
(* Events that follow one another. *)

Events == [U : Nat \ {0}, u : Nat]

\* The first of some positions is one of them, and none of them is before it.
LEMMA FirstOfSome ==
    ASSUME NEW ids, ids \subseteq Nat, ids # {}
    PROVE  Min(ids) \in ids /\ \A i \in ids : Min(ids) <= i
<1>1. \E m \in ids : \A i \in ids : m <= i
  BY LeastOf
<1>. QED BY <1>1 DEF Min

\* The maximum of some ids is the one that none exceeds.
LEMMA LastIs ==
    ASSUME NEW ids, ids \subseteq Nat, NEW m \in ids, \A i \in ids : i <= m
    PROVE  Max(ids) = m
<1>. DEFINE x == Max(ids)
<1>1. m \in Nat
  OBVIOUS
<1>2. x \in ids /\ \A i \in ids : i <= x
  BY <1>1, LastOfSome
<1>. HIDE DEF x
<1>3. x = m
  BY <1>2
<1>. QED BY <1>3 DEF x

\* Two runs written one after the other, the second joining on to the first, are one.
LEMMA RunsJoin ==
    ASSUME NEW base, NEW log, NEW p \in Nat, NEW q \in Nat, p <= q, NEW a \in 1..(p + 1)
    PROVE  Overwrite(Overwrite(base, log, a..p), log, (p + 1)..q) = Overwrite(base, log, a..q)
<1>1. ASSUME NEW s \in Sides
      PROVE  Overwrite(Overwrite(base, log, a..p), log, (p + 1)..q)[s] = Overwrite(base, log, a..q)[s]
  <2>. DEFINE early == {i \in a..p : log[i] = s}
              late == {i \in (p + 1)..q : log[i] = s}
              all == {i \in a..q : log[i] = s}
  <2>1. Overwrite(Overwrite(base, log, a..p), log, (p + 1)..q)[s]
          = IF late = {} THEN (IF early = {} THEN base[s] ELSE Max(early)) ELSE Max(late)
    BY DEF Overwrite
  <2>2. Overwrite(base, log, a..q)[s] = IF all = {} THEN base[s] ELSE Max(all)
    BY DEF Overwrite
  <2>3. all = early \cup late
    OBVIOUS
  <2>4. late # {} => Max(late) = Max(all)
    <3>. SUFFICES ASSUME late # {} PROVE Max(all) = Max(late)
      OBVIOUS
    <3>1. late \subseteq Nat /\ all \subseteq Nat /\ \A i \in late : i <= q
      OBVIOUS
    <3>2. \A i \in early, j \in late : i <= j
      OBVIOUS
    <3>. HIDE DEF early, late, all
    <3>3. Max(late) \in late /\ \A i \in late : i <= Max(late)
      BY <3>1, LastOfSome
    <3>4. Max(late) \in all /\ \A i \in all : i <= Max(late)
      BY <2>3, <3>2, <3>3
    <3>. QED BY <3>1, <3>4, LastIs
  <2>5. CASE late = {}
    <3>1. all = early
      BY <2>3, <2>5
    <3>. HIDE DEF early, late, all
    <3>. QED BY <2>1, <2>2, <2>5, <3>1
  <2>6. CASE late # {}
    <3>1. all # {}
      BY <2>3, <2>6
    <3>. HIDE DEF early, late, all
    <3>. QED BY <2>1, <2>2, <2>4, <2>6, <3>1
  <2>. QED BY <2>5, <2>6
<1>. QED BY <1>1 DEF Overwrite

\* The ids of contiguous events are those from the first event's to the last one's.
LEMMA IdsRun ==
    ASSUME NEW es \in Seq(Events), es # <<>>, Contiguous(es),
           \A i \in 1..Len(es) : es[i].U <= es[i].u
    PROVE  /\ IdsOf(es) = es[1].U..es[Len(es)].u
           /\ es[1].u <= es[Len(es)].u
<1>. DEFINE n == Len(es)
<1>1. n \in Nat /\ n >= 1 /\ \A i \in 1..n : es[i].U \in Nat /\ es[i].u \in Nat
  <2>1. \A i \in 1..n : es[i] \in Events
    OBVIOUS
  <2>. QED BY <2>1 DEF Events
<1>2. \A i \in 2..n : i - 1 \in 1..n /\ es[i].U = es[i - 1].u + 1
  BY <1>1 DEF Contiguous
<1>3. DOMAIN es = 1..n
  OBVIOUS
<1>. HIDE DEF n
<1>4. \A i \in 1..n : es[1].U <= es[i].U
  <2>. DEFINE T == {i \in 1..n : es[i].U < es[1].U}
  <2>1. CASE T = {}
    BY <1>1, <2>1
  <2>2. CASE T # {}
    <3>1. T \subseteq Nat
      OBVIOUS
    <3>2. PICK i \in T : \A j \in T : i <= j
      BY <2>2, <3>1, LeastOf
    <3>3. i \in 2..n
      BY <1>1, <3>2
    <3>4. i - 1 \in 1..n /\ i - 1 \notin T
      BY <1>2, <3>2, <3>3
    <3>5. es[i - 1].U >= es[1].U /\ es[i].U = es[i - 1].u + 1
      BY <1>1, <1>2, <3>3, <3>4
    <3>6. es[i - 1].U <= es[i - 1].u /\ es[i].U < es[1].U
      BY <3>2, <3>4 DEF n
    <3>. QED BY <1>1, <3>3, <3>4, <3>5, <3>6
  <2>. QED BY <2>1, <2>2
<1>5. \A i \in 1..n : es[i].u <= es[n].u
  <2>. DEFINE T == {i \in 1..n : es[i].u > es[n].u}
  <2>1. CASE T = {}
    BY SMTT(30), <1>1, <2>1
  <2>2. CASE T # {}
    <3>1. T \subseteq Nat /\ \A i \in T : i <= n
      OBVIOUS
    <3>2. PICK i \in T : \A j \in T : j <= i
      BY <1>1, <2>2, <3>1, LargestOf
    <3>3. i + 1 \in 2..n /\ i + 1 \in 1..n /\ i + 1 \notin T
      BY <1>1, <3>2
    <3>4. es[i + 1].U = es[i].u + 1
      BY <1>1, <1>2, <3>3
    <3>5. es[i + 1].U <= es[i + 1].u
      BY <3>3 DEF n
    <3>6. es[i].u > es[n].u /\ es[i + 1].u <= es[n].u
      BY <1>1, <3>2, <3>3
    <3>. QED BY SMTT(30), <1>1, <3>2, <3>3, <3>4, <3>5, <3>6
  <2>. QED BY <2>1, <2>2
<1>6. IdsOf(es) \subseteq es[1].U..es[n].u
  <2>1. ASSUME NEW i \in 1..n, NEW x \in Ids(es[i]) PROVE x \in es[1].U..es[n].u
    BY <1>1, <1>4, <1>5 DEF Ids
  <2>. QED BY <1>3, <2>1 DEF IdsOf
<1>7. es[1].U..es[n].u \subseteq IdsOf(es)
  <2>. SUFFICES ASSUME NEW x \in es[1].U..es[n].u PROVE x \in IdsOf(es)
    OBVIOUS
  <2>. DEFINE T == {i \in 1..n : es[i].u >= x}
  <2>1. T \subseteq Nat /\ n \in T
    BY <1>1
  <2>2. PICK i \in T : \A j \in T : i <= j
    BY <2>1, LeastOf
  <2>3. es[i].U <= x
    <3>1. CASE i = 1
      BY <3>1, <1>1
    <3>2. CASE i # 1
      <4>1. i \in 2..n
        BY <1>1, <2>2, <3>2
      <4>2. i - 1 \in 1..n /\ i - 1 \notin T /\ es[i].U = es[i - 1].u + 1
        BY <1>2, <2>2, <4>1
      <4>. QED BY <1>1, <4>2
    <3>. QED BY <3>1, <3>2
  <2>4. x \in Ids(es[i]) /\ i \in 1..n
    BY <1>1, <2>2, <2>3 DEF Ids
  <2>. QED BY <1>3, <2>4 DEF IdsOf
<1>8. IdsOf(es) = es[1].U..es[n].u
  BY <1>6, <1>7
<1>9. es[1].u <= es[n].u
  BY <1>1, <1>5
<1>. QED BY <1>8, <1>9 DEF n

-----------------------------------------------------------------------------
(* The Binance book. *)

\* Events of changes that have been made.
Made(es) ==
    /\ es \in Seq(Events)
    /\ \A i \in 1..Len(es) : es[i].U <= es[i].u /\ es[i].u <= Len(dlog)

DepthTypes ==
    /\ dlog \in Seq(Sides) /\ Made(dwire) /\ Made(buffer)
    /\ {snap, lastId, prevU} \subseteq 0..Len(dlog)
    /\ blind \in BOOLEAN
    /\ alpha = [n |-> alpha.n, age |-> alpha.age] /\ alpha.n \in Nat /\ fed \in 0..MinSamples
    /\ ticker = [up |-> ticker.up, n |-> ticker.n] /\ ticker.n \in Nat

\* A live book to which nothing is missing is the snapshot with an unbroken run of
\* changes written over it, which begins no later than the one after the snapshot.
LiveBook ==
    phase = "live" /\ ~blind =>
        IF prevU = 0 THEN dbook = BookAt(dlog, lastId)
        ELSE \E a \in 1..(lastId + 1) :
                a <= prevU /\ dbook = Overwrite(BookAt(dlog, lastId), dlog, a..prevU)

DepthInv == DepthTypes /\ AlphaOfThisBook /\ LiveBook

\* The invariant holds at the start.
LEMMA DepthStarts == DepthInit => DepthInv
<1>. SUFFICES ASSUME DepthInit PROVE DepthInv
  OBVIOUS
<1>1. dlog = <<>> /\ dwire = <<>> /\ buffer = <<>> /\ snap = 0 /\ lastId = 0 /\ prevU = 0
  BY DEF DepthInit
<1>2. DepthTypes
  <2>1. dlog \in Seq(Sides) /\ Len(dlog) = 0 /\ dwire \in Seq(Events) /\ Len(dwire) = 0
        /\ buffer \in Seq(Events) /\ Len(buffer) = 0
    BY <1>1
  <2>2. Made(dwire) /\ Made(buffer)
    BY <2>1 DEF Made
  <2>3. {snap, lastId, prevU} \subseteq 0..Len(dlog)
    BY <1>1, <2>1
  <2>4. fed \in 0..MinSamples
    BY DepthAssumption DEF DepthInit
  <2>. QED BY <2>1, <2>2, <2>3, <2>4 DEF DepthInit, DepthTypes, NoAlpha
<1>. QED BY <1>2 DEF DepthInit, DepthInv, AlphaOfThisBook, NoAlpha, LiveBook

\* The minimum of two numbers.
LEMMA MinOfTwo ==
    ASSUME NEW x \in Nat, NEW y \in Nat
    PROVE  Min({x, y}) = IF x <= y THEN x ELSE y
<1>. DEFINE two == {x, y}
            m == Min(two)
<1>1. two \subseteq Nat /\ two # {} /\ x \in two /\ y \in two
  OBVIOUS
<1>2. m \in two /\ \A i \in two : m <= i
  <2>. HIDE DEF two
  <2>. QED BY <1>1, FirstOfSome
<1>. HIDE DEF m
<1>3. (m = x \/ m = y) /\ m <= x /\ m <= y
  BY <1>2
<1>4. m = IF x <= y THEN x ELSE y
  BY <1>3
<1>. QED BY <1>4 DEF m

\* One more sample keeps the order of two counts, and leaves a natural.
LEMMA SampleKeeps ==
    ASSUME NEW n \in Nat, NEW k \in Nat, n <= k
    PROVE  /\ OneMore(n) \in Nat /\ OneMore(n) <= OneMore(k)
           /\ OneMore(k) \in 0..MinSamples /\ (k <= MinSamples => k <= OneMore(k))
<1>1. MinSamples \in Nat /\ n + 1 \in Nat /\ k + 1 \in Nat
  BY DepthAssumption
<1>2. OneMore(n) = IF n + 1 <= MinSamples THEN n + 1 ELSE MinSamples
  BY <1>1, MinOfTwo DEF OneMore
<1>3. OneMore(k) = IF k + 1 <= MinSamples THEN k + 1 ELSE MinSamples
  BY <1>1, MinOfTwo DEF OneMore
<1>4. n <= MinSamples \/ n + 1 > MinSamples
  BY <1>1
<1>. QED BY <1>1, <1>2, <1>3

\* A reset forgets the book.
LEMMA ResetKeeps ==
    ASSUME DepthInv, NEW next, next # "live", Reset(next), UNCHANGED <<dlog, ticker>>
    PROVE  DepthInv'
<1>1. dwire' = <<>> /\ buffer' = <<>> /\ snap' = 0 /\ lastId' = 0 /\ prevU' = 0 /\ fed' = 0
      /\ phase' = next /\ blind' = FALSE /\ alpha' = NoAlpha
  BY DEF Reset, ResetAlpha
<1>2. DepthTypes'
  <2>1. dlog' \in Seq(Sides) /\ Len(dlog') \in Nat /\ dwire' \in Seq(Events) /\ Len(dwire') = 0
        /\ buffer' \in Seq(Events) /\ Len(buffer') = 0
    BY <1>1 DEF DepthInv, DepthTypes
  <2>2. Made(dwire)' /\ Made(buffer)'
    BY <2>1 DEF Made
  <2>3. {snap', lastId', prevU'} \subseteq 0..Len(dlog')
    BY <1>1, <2>1
  <2>4. fed' \in 0..MinSamples
    BY <1>1, DepthAssumption
  <2>. QED BY <1>1, <2>1, <2>2, <2>3, <2>4 DEF DepthInv, DepthTypes, NoAlpha
<1>3. AlphaOfThisBook'
  BY <1>1 DEF DepthInv, AlphaOfThisBook, NoAlpha
<1>. QED BY <1>1, <1>2, <1>3 DEF DepthInv, LiveBook

\* A longer log has the same book at the ids it had before.
LEMMA LogExtends ==
    ASSUME DepthInv, NEW sides \in Seq(Sides), dlog' = dlog \o sides
    PROVE  /\ dlog' \in Seq(Sides) /\ Len(dlog') = Len(dlog) + Len(sides)
           /\ Len(dlog) \in Nat /\ Len(sides) \in Nat
           /\ \A base, ids : ids \subseteq 1..Len(dlog) =>
                 Overwrite(base, dlog', ids) = Overwrite(base, dlog, ids)
<1>1. dlog \in Seq(Sides)
  BY DEF DepthInv, DepthTypes
<1>2. /\ dlog' \in Seq(Sides) /\ Len(dlog') = Len(dlog) + Len(sides)
      /\ Len(dlog) \in Nat /\ Len(sides) \in Nat
      /\ \A i \in 1..Len(dlog) : dlog'[i] = dlog[i]
  BY <1>1
<1>3. ASSUME NEW base, NEW ids, ids \subseteq 1..Len(dlog)
      PROVE  Overwrite(base, dlog', ids) = Overwrite(base, dlog, ids)
  <2>. DEFINE later == dlog'
  <2>1. \A i \in ids : later[i] = dlog[i]
    BY <1>2, <1>3
  <2>. HIDE DEF later
  <2>2. Overwrite(base, later, ids) = Overwrite(base, dlog, ids)
    BY <2>1, WrittenStays
  <2>. QED BY <2>2 DEF later
<1>. QED BY <1>2, <1>3

\* Events that the exchange sends or that get lost.
LEMMA DepthPublishKeeps ==
    ASSUME DepthInv, NEW n \in 1..MaxSpan, NEW lost \in BOOLEAN, NEW sides \in [1..n -> Sides],
           Publish(sides, lost)
    PROVE  DepthInv'
<1>1. n \in Nat /\ n >= 1
  BY DepthAssumption
<1>2. sides \in Seq(Sides) /\ Len(sides) = n
  BY <1>1
<1>. DEFINE e == [U |-> Len(dlog) + 1, u |-> Len(dlog) + Len(sides)]
<1>3. /\ dlog' = dlog \o sides /\ (dwire' = dwire \/ dwire' = Append(dwire, e))
      /\ UNCHANGED <<phase, buffer, snap, dbook, lastId, prevU, blind, alpha, fed, ticker>>
  BY DEF Publish, book
<1>4. /\ dlog' \in Seq(Sides) /\ Len(dlog') = Len(dlog) + n /\ Len(dlog) \in Nat
      /\ \A base, ids : ids \subseteq 1..Len(dlog) =>
            Overwrite(base, dlog', ids) = Overwrite(base, dlog, ids)
  BY <1>2, <1>3, LogExtends
<1>5. e \in Events /\ e.U <= e.u /\ e.u = Len(dlog')
  BY <1>1, <1>2, <1>4 DEF Events
<1>. HIDE DEF e
<1>6. ASSUME NEW es, Made(es)
      PROVE  \A i \in 1..Len(es) : es[i].U <= es[i].u /\ es[i].u <= Len(dlog')
  <2>. TAKE i \in 1..Len(es)
  <2>1. es[i] \in Events /\ es[i].U <= es[i].u /\ es[i].u <= Len(dlog)
    BY <1>6 DEF Made
  <2>. QED BY <1>1, <1>4, <2>1 DEF Events
<1>7. Made(buffer)' /\ Made(dwire)'
  <2>1. Made(dwire) /\ Made(buffer)
    BY DEF DepthInv, DepthTypes
  <2>2. Made(buffer)'
    BY <1>3, <1>6, <2>1 DEF Made
  <2>3. dwire' = dwire => Made(dwire)'
    BY <1>6, <2>1 DEF Made
  <2>4. ASSUME dwire' = Append(dwire, e) PROVE Made(dwire)'
    <3>1. dwire \in Seq(Events) /\ dwire' \in Seq(Events)
      BY <1>5, <2>1, <2>4 DEF Made
    <3>2. \A i \in 1..Len(dwire') : (i \in 1..Len(dwire) /\ dwire'[i] = dwire[i]) \/ dwire'[i] = e
      BY <2>4, <3>1
    <3>3. Len(dlog') \in Nat
      BY <1>4
    <3>4. \A i \in 1..Len(dwire) : dwire[i].U <= dwire[i].u /\ dwire[i].u <= Len(dlog')
      BY <1>6, <2>1
    <3>5. e.u <= Len(dlog')
      BY <1>5, <3>3
    <3>6. \A i \in 1..Len(dwire') : dwire'[i].U <= dwire'[i].u /\ dwire'[i].u <= Len(dlog')
      BY <1>5, <3>2, <3>4, <3>5
    <3>. QED BY <3>1, <3>6 DEF Made
  <2>. QED BY <1>3, <2>2, <2>3, <2>4
<1>8. DepthTypes'
  <2>1. {snap', lastId', prevU'} \subseteq 0..Len(dlog')
    BY <1>1, <1>3, <1>4 DEF DepthInv, DepthTypes
  <2>. QED BY <1>3, <1>4, <1>7, <2>1 DEF DepthInv, DepthTypes
<1>9. AlphaOfThisBook'
  BY <1>3 DEF DepthInv, AlphaOfThisBook
<1>10. LiveBook'
  <2>1. lastId \in 0..Len(dlog) /\ prevU \in 0..Len(dlog) /\ Len(dlog) \in Nat
    BY <1>4 DEF DepthInv, DepthTypes
  <2>2. BookAt(dlog', lastId) = BookAt(dlog, lastId)
    <3>1. 1..lastId \subseteq 1..Len(dlog)
      BY <2>1
    <3>. QED BY <1>4, <3>1 DEF BookAt
  <2>3. \A a \in 1..(lastId + 1) : Overwrite(BookAt(dlog, lastId), dlog', a..prevU)
                                  = Overwrite(BookAt(dlog, lastId), dlog, a..prevU)
    <3>. TAKE a \in 1..(lastId + 1)
    <3>1. a..prevU \subseteq 1..Len(dlog)
      BY <2>1
    <3>. QED BY <1>4, <3>1
  <2>. QED BY <1>3, <2>2, <2>3 DEF DepthInv, LiveBook
<1>. QED BY <1>8, <1>9, <1>10 DEF DepthInv

\* What an alignment that succeeds makes of the snapshot and the buffer.
LEMMA FromFirstRuns ==
    ASSUME DepthInv, FromFirst # <<>>
    PROVE  /\ Made(FromFirst) /\ Len(FromFirst) \in Nat \ {0}
           /\ JoinsOn(FromFirst[1], snap)
           /\ Last(FromFirst) = FromFirst[Len(FromFirst)]
<1>. DEFINE good == {i \in DOMAIN buffer : JoinsOn(buffer[i], snap)}
            k == Min(good)
<1>1. buffer \in Seq(Events) /\ DOMAIN buffer = 1..Len(buffer) /\ Len(buffer) \in Nat
  BY DEF DepthInv, DepthTypes, Made
<1>2. good # {} /\ FromFirst = SubSeq(buffer, k, Len(buffer))
  BY DEF FromFirst
<1>3. good \subseteq Nat
  BY <1>1
<1>4. k \in good
  <2>. HIDE DEF good
  <2>. QED BY <1>2, <1>3, FirstOfSome
<1>5. k \in 1..Len(buffer) /\ JoinsOn(buffer[k], snap)
  BY <1>1, <1>4
<1>. HIDE DEF k
<1>6. /\ FromFirst \in Seq(Events) /\ Len(FromFirst) = Len(buffer) - k + 1
      /\ \A i \in 1..Len(FromFirst) : FromFirst[i] = buffer[k + i - 1] /\ k + i - 1 \in 1..Len(buffer)
  BY <1>1, <1>2, <1>5
<1>7. Made(FromFirst)
  BY <1>6 DEF Made, DepthInv, DepthTypes
<1>8. FromFirst[1] = buffer[k]
  BY <1>1, <1>5, <1>6
<1>. QED BY <1>1, <1>5, <1>6, <1>7, <1>8 DEF Last

\* The snapshot is aligned with what was buffered.
LEMMA AlignKeeps ==
    ASSUME DepthInv, Align PROVE DepthInv'
<1>1. dlog' = dlog /\ UNCHANGED ticker /\ Len(dlog) \in Nat /\ snap \in 0..Len(dlog)
  BY DEF Align, DepthInv, DepthTypes
<1>2. CASE buffer # <<>> /\ FromFirst = <<>>
  <2>1. Reset("down")
    BY <1>2 DEF Align, Realign
  <2>. QED BY <1>1, <2>1, ResetKeeps
<1>3. CASE ~(buffer # <<>> /\ FromFirst = <<>>)
  <2>1. /\ phase' = "live" /\ buffer' = <<>> /\ snap' = 0 /\ UNCHANGED <<dwire, alpha, fed>>
        /\ dbook' = Overwrite(BookAt(dlog, snap), dlog, IdsOf(FromFirst))
        /\ lastId' = snap
        /\ prevU' = IF FromFirst = <<>> THEN 0 ELSE Last(FromFirst).u
        /\ blind' = ~Contiguous(FromFirst)
    BY <1>3 DEF Align
  <2>2. buffer' \in Seq(Events) /\ Len(buffer') = 0
    BY <2>1
  <2>3. Made(buffer)' /\ Made(dwire)'
    BY <1>1, <2>1, <2>2 DEF DepthInv, DepthTypes, Made
  <2>4. prevU' \in 0..Len(dlog)
    <3>1. CASE FromFirst = <<>>
      BY <1>1, <2>1, <3>1
    <3>2. CASE FromFirst # <<>>
      <4>1. Made(FromFirst) /\ Len(FromFirst) \in 1..Len(FromFirst)
            /\ Last(FromFirst) = FromFirst[Len(FromFirst)]
        BY <3>2, FromFirstRuns
      <4>2. Last(FromFirst) \in Events /\ Last(FromFirst).u <= Len(dlog)
        BY <4>1 DEF Made
      <4>. QED BY <1>1, <2>1, <3>2, <4>2 DEF Events
    <3>. QED BY <3>1, <3>2
  <2>5. DepthTypes'
    <3>1. blind' \in BOOLEAN
      BY <2>1
    <3>2. {snap', lastId', prevU'} \subseteq 0..Len(dlog')
      BY <1>1, <2>1, <2>4
    <3>. QED BY <1>1, <2>1, <2>3, <3>1, <3>2 DEF DepthInv, DepthTypes
  <2>6. AlphaOfThisBook'
    BY <1>1, <2>1 DEF DepthInv, AlphaOfThisBook
  <2>7. LiveBook'
    <3>1. CASE FromFirst = <<>>
      <4>1. IdsOf(FromFirst) = {}
        BY <3>1 DEF IdsOf
      <4>2. dbook' = BookAt(dlog, snap)
        BY <2>1, <4>1 DEF BookAt, Overwrite
      <4>. QED BY <1>1, <2>1, <3>1, <4>2 DEF LiveBook
    <3>2. CASE FromFirst # <<>> /\ Contiguous(FromFirst)
      <4>. DEFINE es == FromFirst
                  a == es[1].U
      <4>1. Made(es) /\ Len(es) \in Nat \ {0} /\ JoinsOn(es[1], snap) /\ Last(es) = es[Len(es)]
        BY <3>2, FromFirstRuns
      <4>2. es[1] \in Events /\ es[Len(es)] \in Events
        BY <4>1 DEF Made
      <4>3. IdsOf(es) = a..prevU' /\ es[1].u <= prevU'
        <5>. HIDE DEF es
        <5>. QED BY <2>1, <3>2, <4>1, IdsRun DEF Made, es
      <4>. HIDE DEF es
      <4>4. a \in 1..(snap + 1) /\ a <= es[1].u /\ es[1].u \in Nat /\ snap + 1 <= es[1].u
        BY <1>1, <4>1, <4>2 DEF JoinsOn, Events, Made
      <4>. HIDE DEF a
      <4>5. prevU' # 0 /\ a <= prevU'
        BY <1>1, <2>4, <4>3, <4>4
      <4>6. dbook' = Overwrite(BookAt(dlog, snap), dlog, a..prevU')
        BY <2>1, <4>3 DEF es
      <4>. QED BY <1>1, <2>1, <4>4, <4>5, <4>6 DEF LiveBook
    <3>3. CASE ~Contiguous(FromFirst)
      BY <2>1, <3>3 DEF LiveBook
    <3>. QED BY <3>1, <3>2, <3>3
  <2>. QED BY <2>5, <2>6, <2>7 DEF DepthInv
<1>. QED BY <1>2, <1>3

\* The first buffered event and the rest are events of the log.
LEMMA EventTaken ==
    ASSUME NEW es, Made(es), es # <<>>, dlog' = dlog
    PROVE  /\ Head(es) \in Events /\ Head(es).U <= Head(es).u /\ Head(es).u <= Len(dlog)
           /\ Tail(es) \in Seq(Events)
           /\ \A i \in 1..Len(Tail(es)) : /\ Tail(es)[i].U <= Tail(es)[i].u
                                         /\ Tail(es)[i].u <= Len(dlog')
<1>1. /\ es \in Seq(Events) /\ Len(es) \in Nat /\ Head(es) = es[1] /\ 1 \in 1..Len(es)
      /\ Tail(es) \in Seq(Events) /\ Len(Tail(es)) = Len(es) - 1
      /\ \A i \in 1..Len(Tail(es)) : Tail(es)[i] = es[i + 1]
  BY DEF Made
<1>2. \A i \in 1..Len(Tail(es)) : i + 1 \in 1..Len(es)
  BY <1>1
<1>. QED BY <1>1, <1>2 DEF Made

\* A live event that is in sequence.
LEMMA LiveEventKeeps ==
    ASSUME DepthInv, Receive, InSequence(Head(dwire)) PROVE DepthInv'
<1>. DEFINE e == Head(dwire)
<1>1. /\ phase = "live" /\ dwire # <<>> /\ UNCHANGED <<dlog, ticker>>
      /\ dbook' = Overwrite(dbook, dlog, Ids(e)) /\ prevU' = e.u
      /\ blind' = (blind \/ (prevU = 0 /\ e.U > lastId + 1))
      /\ dwire' = Tail(dwire) /\ fed' = OneMore(fed) /\ Sampled
      /\ UNCHANGED <<phase, buffer, snap, lastId>>
  BY DEF Receive
<1>2. /\ e \in Events /\ e.U <= e.u /\ e.u <= Len(dlog)
      /\ Tail(dwire) \in Seq(Events)
      /\ \A i \in 1..Len(Tail(dwire)) : Tail(dwire)[i].U <= Tail(dwire)[i].u
                                      /\ Tail(dwire)[i].u <= Len(dlog')
  BY <1>1, EventTaken DEF DepthInv, DepthTypes
<1>3. prevU = 0 \/ e.U - 1 = prevU
  BY DEF InSequence
<1>. HIDE DEF e
<1>4. /\ e.U \in Nat \ {0} /\ e.u \in Nat /\ Len(dlog) \in Nat
      /\ lastId \in 0..Len(dlog) /\ prevU \in 0..Len(dlog)
      /\ alpha.n \in Nat /\ fed \in 0..MinSamples /\ alpha.n <= fed
  BY <1>2 DEF Events, DepthInv, DepthTypes, AlphaOfThisBook
<1>5. /\ alpha' = [n |-> alpha'.n, age |-> alpha'.age] /\ alpha'.n \in Nat /\ fed' \in 0..MinSamples
      /\ alpha'.n <= fed'
  <2>1. OneMore(alpha.n) \in Nat /\ OneMore(alpha.n) <= OneMore(fed) /\ OneMore(fed) \in 0..MinSamples
        /\ fed <= OneMore(fed)
    <3>1. MinSamples \in Nat /\ fed \in Nat /\ fed <= MinSamples
      BY <1>4, DepthAssumption
    <3>. QED BY <1>4, <3>1, SampleKeeps
  <2>2. alpha'.n <= fed' /\ alpha'.n \in Nat /\ fed' \in 0..MinSamples
    BY <1>1, <1>4, <2>1, DepthAssumption DEF Sampled
  <2>3. alpha' = [n |-> alpha'.n, age |-> alpha'.age]
    BY <1>1 DEF Sampled, DepthInv, DepthTypes
  <2>. QED BY <2>2, <2>3
<1>6. DepthTypes'
  <2>1. {snap', lastId', prevU'} \subseteq 0..Len(dlog')
    BY <1>1, <1>2, <1>4 DEF DepthInv, DepthTypes
  <2>2. blind' \in BOOLEAN
    BY <1>1
  <2>3. Made(dwire)' /\ Made(buffer)'
    BY <1>1, <1>2 DEF DepthInv, DepthTypes, Made
  <2>. QED BY <1>1, <1>5, <2>1, <2>2, <2>3 DEF DepthInv, DepthTypes
<1>7. AlphaOfThisBook'
  BY <1>1, <1>5 DEF DepthInv, AlphaOfThisBook
<1>8. LiveBook'
  <2>. SUFFICES ASSUME ~blind' PROVE LiveBook'
    BY DEF LiveBook
  <2>. blind \in BOOLEAN
    BY DEF DepthInv, DepthTypes
  <2>1. ~blind /\ ~(prevU = 0 /\ e.U > lastId + 1)
    BY <1>1
  <2>. DEFINE base == BookAt(dlog, lastId)
  <2>2. PICK a \in 1..(lastId + 1) : a <= e.u /\ dbook' = Overwrite(base, dlog, a..e.u)
    <3>1. CASE prevU = 0
      <4>1. dbook = base
        BY <1>1, <2>1, <3>1 DEF DepthInv, LiveBook
      <4>2. e.U \in 1..(lastId + 1)
        BY <1>4, <2>1, <3>1
      <4>. QED BY <1>1, <1>2, <4>1, <4>2 DEF Ids
    <3>2. CASE prevU # 0
      <4>1. PICK a \in 1..(lastId + 1) : a <= prevU /\ dbook = Overwrite(base, dlog, a..prevU)
        BY <1>1, <2>1, <3>2 DEF DepthInv, LiveBook
      <4>2. e.U = prevU + 1 /\ prevU <= e.u /\ prevU \in Nat /\ a \in 1..(prevU + 1)
        BY SMTT(30), <1>2, <1>3, <1>4, <3>2, <4>1
      <4>3. dbook' = Overwrite(Overwrite(base, dlog, a..prevU), dlog, (prevU + 1)..e.u)
        BY <1>1, <4>1, <4>2 DEF Ids
      <4>. HIDE DEF base
      <4>4. dbook' = Overwrite(base, dlog, a..e.u)
        <5>. DEFINE p == prevU  q == e.u
        <5>1. p \in Nat /\ q \in Nat /\ p <= q /\ a \in 1..(p + 1)
          BY <1>4, <4>2
        <5>. HIDE DEF p, q
        <5>2. Overwrite(Overwrite(base, dlog, a..p), dlog, (p + 1)..q) = Overwrite(base, dlog, a..q)
          BY <5>1, RunsJoin
        <5>. QED BY <4>3, <5>2 DEF p, q
      <4>5. a <= e.u
        BY <1>4, <4>1, <4>2
      <4>. QED BY <4>4, <4>5
    <3>. QED BY <3>1, <3>2
  <2>3. e.u # 0
    BY <1>2, <1>4
  <2>. QED BY <1>1, <2>2, <2>3 DEF LiveBook
<1>. QED BY <1>6, <1>7, <1>8 DEF DepthInv

\* A step that leaves the book alone: what is on the way changes, and nothing it holds.
LEMMA BookUntouched ==
    ASSUME DepthInv, UNCHANGED <<dlog, dbook, lastId, prevU, blind>>,
           Made(dwire)', Made(buffer)', snap' \in 0..Len(dlog), UNCHANGED fed,
           phase' = "live" => phase = "live",
           \/ UNCHANGED alpha
           \/ alpha' = [alpha EXCEPT !.age = "old"],
           ticker' = [up |-> ticker'.up, n |-> ticker'.n], ticker'.n \in Nat,
           ticker'.n > 0 => ticker'.up
    PROVE  DepthInv'
<1>1. alpha' = [n |-> alpha'.n, age |-> alpha'.age] /\ alpha'.n = alpha.n
  <2>1. alpha = [n |-> alpha.n, age |-> alpha.age]
    BY DEF DepthInv, DepthTypes
  <2>2. CASE UNCHANGED alpha
    BY <2>1, <2>2
  <2>3. CASE alpha' = [alpha EXCEPT !.age = "old"]
    <3>1. alpha' = [n |-> alpha.n, age |-> "old"]
      BY <2>1, <2>3
    <3>. QED BY <3>1
  <2>. QED BY <2>2, <2>3
<1>2. DepthTypes'
  BY <1>1 DEF DepthInv, DepthTypes
<1>3. AlphaOfThisBook'
  BY <1>1 DEF DepthInv, AlphaOfThisBook
<1>4. LiveBook'
  BY DEF DepthInv, LiveBook
<1>. QED BY <1>2, <1>3, <1>4 DEF DepthInv

\* An event that waits for the snapshot.
LEMMA BufferKeeps ==
    ASSUME DepthInv, Buffer PROVE DepthInv'
<1>. DEFINE e == Head(dwire)
<1>1. /\ dwire # <<>> /\ dwire' = Tail(dwire) /\ buffer' = Append(buffer, e)
      /\ UNCHANGED <<dlog, phase, snap, dbook, lastId, prevU, blind, alpha, fed, ticker>>
  BY DEF Buffer, book
<1>2. /\ e \in Events /\ e.U <= e.u /\ e.u <= Len(dlog)
      /\ Tail(dwire) \in Seq(Events)
      /\ \A i \in 1..Len(Tail(dwire)) : Tail(dwire)[i].U <= Tail(dwire)[i].u
                                      /\ Tail(dwire)[i].u <= Len(dlog')
  BY <1>1, EventTaken DEF DepthInv, DepthTypes
<1>. HIDE DEF e
<1>3. Made(dwire)'
  BY <1>1, <1>2 DEF Made
<1>4. Made(buffer)'
  <2>1. buffer \in Seq(Events) /\ \A i \in 1..Len(buffer) : /\ buffer[i].U <= buffer[i].u
                                                         /\ buffer[i].u <= Len(dlog)
    BY DEF DepthInv, DepthTypes, Made
  <2>2. /\ buffer' \in Seq(Events)
        /\ \A i \in 1..Len(buffer') : (i \in 1..Len(buffer) /\ buffer'[i] = buffer[i]) \/ buffer'[i] = e
    BY <1>1, <1>2, <2>1
  <2>3. \A i \in 1..Len(buffer') : buffer'[i].U <= buffer'[i].u /\ buffer'[i].u <= Len(dlog')
    BY <1>1, <1>2, <2>1, <2>2
  <2>. QED BY <2>2, <2>3 DEF Made
<1>5. /\ snap' \in 0..Len(dlog) /\ ticker' = [up |-> ticker'.up, n |-> ticker'.n]
      /\ ticker'.n \in Nat /\ (ticker'.n > 0 => ticker'.up)
  BY <1>1 DEF DepthInv, DepthTypes, AlphaOfThisBook
<1>. QED BY <1>1, <1>3, <1>4, <1>5, BookUntouched

\* Every step keeps the invariant.
LEMMA DepthKeeps ==
    ASSUME DepthInv, [DepthNext]_depthVars PROVE DepthInv'
<1>0. /\ ticker = [up |-> ticker.up, n |-> ticker.n] /\ ticker.n \in Nat
      /\ (ticker.n > 0 => ticker.up) /\ snap \in 0..Len(dlog) /\ Len(dlog) \in Nat
      /\ Made(dwire) /\ Made(buffer)
  BY DEF DepthInv, DepthTypes, AlphaOfThisBook
<1>1. ASSUME UNCHANGED <<dlog, dwire, buffer, dbook, lastId, prevU, blind, fed, alpha>>,
             snap' \in 0..Len(dlog), phase' = "live" => phase = "live", UNCHANGED ticker
      PROVE  DepthInv'
  <2>1. Made(dwire)' /\ Made(buffer)'
    BY <1>0, <1>1 DEF Made
  <2>. QED BY <1>0, <1>1, <2>1, BookUntouched
<1>2. ASSUME NEW next, TickerStep(next), next = [up |-> next.up, n |-> next.n], next.n \in Nat,
             next.n > 0 => next.up
      PROVE  DepthInv'
  <2>1. ticker' = next /\ UNCHANGED <<dlog, dwire, phase, buffer, snap, dbook, lastId, prevU,
                                      blind, alpha, fed>>
    BY <1>2 DEF TickerStep, link, book
  <2>2. Made(dwire)' /\ Made(buffer)'
    BY <1>0, <2>1 DEF Made
  <2>. QED BY <1>0, <1>2, <2>1, <2>2, BookUntouched
<1>3. ASSUME NEW n \in 1..MaxSpan, NEW lost \in BOOLEAN, NEW sides \in [1..n -> Sides],
             Publish(sides, lost)
      PROVE  DepthInv'
  BY <1>3, DepthPublishKeeps
<1>4. CASE Connect
  BY <1>0, <1>1, <1>4 DEF Connect, book
<1>5. CASE Buffer
  BY <1>5, BufferKeeps
<1>6. CASE BufferTimeout
  BY <1>0, <1>1, <1>6 DEF BufferTimeout, book
<1>7. CASE DepthAnswered
  <2>1. PICK n \in 0..MaxChanges : SnapshotAnswered(n)
    BY <1>7 DEF DepthAnswered
  <2>2. n \in 0..Len(dlog) /\ snap' = n
    <3>1. MaxLag \in Nat /\ MaxChanges \in Nat
      BY DepthAssumption
    <3>. QED BY <1>0, <2>1, <3>1 DEF SnapshotAnswered
  <2>. QED BY <1>1, <2>1, <2>2 DEF SnapshotAnswered, book
<1>8. CASE SnapshotFailed
  <2>1. /\ dwire' = <<>> /\ buffer' = <<>> /\ phase' = "ended"
        /\ UNCHANGED <<dlog, snap, dbook, lastId, prevU, blind, alpha, fed, ticker>>
    BY <1>8 DEF SnapshotFailed, book
  <2>2. dwire' \in Seq(Events) /\ Len(dwire') = 0 /\ buffer' \in Seq(Events) /\ Len(buffer') = 0
    BY <2>1
  <2>3. Made(dwire)' /\ Made(buffer)'
    BY <2>2 DEF Made
  <2>. QED BY <1>0, <2>1, <2>3, BookUntouched
<1>9. CASE Align
  BY <1>9, AlignKeeps
<1>10. CASE Receive
  <2>1. CASE InSequence(Head(dwire))
    BY <1>10, <2>1, LiveEventKeeps
  <2>2. CASE ~InSequence(Head(dwire))
    <3>1. Reset("down") /\ UNCHANGED <<dlog, ticker>>
      BY <1>10, <2>2 DEF Receive
    <3>. QED BY <3>1, ResetKeeps
  <2>. QED BY <2>1, <2>2
<1>11. CASE LiveTimeout
  <2>1. Reset("down") /\ UNCHANGED <<dlog, ticker>>
    BY <1>11 DEF LiveTimeout
  <2>. QED BY <2>1, ResetKeeps
<1>12. CASE Broken
  <2>1. Reset("down") /\ UNCHANGED <<dlog, ticker>>
    BY <1>12 DEF Broken
  <2>. QED BY <2>1, ResetKeeps
<1>13. CASE AlphaAges
  <2>1. /\ alpha' = [alpha EXCEPT !.age = "old"]
        /\ UNCHANGED <<dlog, dwire, phase, buffer, snap, dbook, lastId, prevU, blind, fed, ticker>>
    BY <1>13 DEF AlphaAges, link, book
  <2>2. Made(dwire)' /\ Made(buffer)'
    BY <1>0, <2>1 DEF Made
  <2>. QED BY <1>0, <2>1, <2>2, BookUntouched
<1>14. CASE TickerConnect
  <2>. DEFINE next == [ticker EXCEPT !.up = TRUE]
  <2>0. ASSUME NEW b PROVE [ticker EXCEPT !.up = b] = [up |-> b, n |-> ticker.n]
    BY <1>0
  <2>1. next = [up |-> next.up, n |-> next.n]
    <3>1. next = [up |-> TRUE, n |-> ticker.n]
      BY <2>0
    <3>. QED BY <3>1
  <2>2. next.up /\ next.n = ticker.n
    BY <1>0
  <2>3. TickerStep(next)
    BY <1>14 DEF TickerConnect
  <2>. HIDE DEF next
  <2>. QED BY <1>0, <1>2, <2>1, <2>2, <2>3
<1>15. CASE TickerQuote
  <2>. DEFINE next == [ticker EXCEPT !.n = OneMore(@)]
  <2>1. next = [up |-> ticker.up, n |-> OneMore(ticker.n)]
    BY <1>0
  <2>2. next.up = ticker.up /\ next.n = OneMore(ticker.n)
    BY <2>1
  <2>3. OneMore(ticker.n) \in Nat
    BY <1>0, SampleKeeps
  <2>4. TickerStep(next) /\ ticker.up
    BY <1>15 DEF TickerQuote
  <2>. HIDE DEF next
  <2>. QED BY <1>2, <2>1, <2>2, <2>3, <2>4
<1>16. CASE TickerBreak
  <2>1. TickerStep([up |-> FALSE, n |-> 0])
    BY <1>16 DEF TickerBreak
  <2>. QED BY <1>2, <2>1
<1>17. CASE UNCHANGED depthVars
  BY <1>0, <1>1, <1>17 DEF depthVars
<1>. QED BY <1>3, <1>4, <1>5, <1>6, <1>7, <1>8, <1>9, <1>10, <1>11, <1>12, <1>13, <1>14, <1>15,
           <1>16, <1>17 DEF DepthNext

\* The invariant holds throughout.
LEMMA DepthIsInv == DepthSpec => []DepthInv
<1>1. DepthInit => DepthInv
  BY DepthStarts
<1>2. DepthInv /\ [DepthNext]_depthVars => DepthInv'
  BY DepthKeeps
<1>. QED BY <1>1, <1>2, PTL DEF DepthSpec

\* The samples that warm alpha up are of the book of this connection, and those of
\* the BBO of the ticker connection that is up (binance_obi.py: _reset forgets both).
THEOREM AlphaIsOfThisBook == DepthSpec => []AlphaOfThisBook
<1>1. DepthInv => AlphaOfThisBook
  BY DEF DepthInv
<1>. QED BY <1>1, DepthIsInv, PTL

\* The replica's copy of the book operators are the module's own.
LEMMA DepthReplicaBook ==
    /\ DepthReplica!Empty = Empty
    /\ \A log, n : DepthReplica!BookAt(log, n) = BookAt(log, n)
BY DEF DepthReplica!BookAt, DepthReplica!Overwrite, DepthReplica!Empty, DepthReplica!Max,
       BookAt, Overwrite, Empty, Max

\* The moment whose book the client holds.
DepthMoment == IF prevU = 0 THEN lastId ELSE prevU

\* The book that is used is that of its moment.
LEMMA DepthHolds ==
    ASSUME DepthInv, DepthUsed
    PROVE  dbook = BookAt(dlog, DepthMoment) /\ DepthMoment \in 0..Len(dlog)
<1>1. lastId \in 0..Len(dlog) /\ prevU \in 0..Len(dlog) /\ Len(dlog) \in Nat
      /\ phase = "live" /\ ~blind
  BY DEF DepthInv, DepthTypes, DepthUsed
<1>2. CASE prevU = 0
  BY <1>1, <1>2 DEF DepthInv, LiveBook, DepthMoment
<1>3. CASE prevU # 0
  <2>1. PICK a \in 1..(lastId + 1) : dbook = Overwrite(BookAt(dlog, lastId), dlog, a..prevU)
    BY <1>1, <1>3 DEF DepthInv, LiveBook
  <2>2. lastId \in Nat /\ prevU \in Nat /\ lastId <= prevU
    BY <1>1, <1>3 DEF DepthUsed, CaughtUp
  <2>3. dbook = BookAt(dlog, prevU)
    BY <2>1, <2>2, BookMoves
  <2>. QED BY <1>1, <1>3, <2>3 DEF DepthMoment
<1>. QED BY <1>2, <1>3

\* While the exchange's book stands still, a step is one of the replica as long as it
\* does not take a book that stays in use back.
LEMMA DepthCopyMoves ==
    ASSUME DepthInv, DepthInv', dlog' = dlog,
           DepthUsed /\ DepthUsed' => DepthMoment <= DepthMoment'
    PROVE  [DepthReplica!Next]_DepthReplica!vars
<1>. DepthUsed \in BOOLEAN /\ DepthUsed' \in BOOLEAN
  BY DEF DepthUsed, CaughtUp
<1>1. CASE DepthUsed'
  <2>1. (DepthInv /\ DepthUsed => dbook = BookAt(dlog, DepthMoment) /\ DepthMoment \in 0..Len(dlog))'
    BY DepthHolds, PTL
  <2>2. dbook' = BookAt(dlog, DepthMoment') /\ DepthMoment' \in 0..Len(dlog)
    BY <1>1, <2>1
  <2>3. DepthUsed => DepthMoment \in 0..Len(dlog)
    BY DepthHolds
  <2>4. DepthMoment' \in (IF DepthUsed THEN DepthMoment ELSE 0)..Len(dlog)
    BY <1>1, <2>2, <2>3
  <2>. QED BY <1>1, <2>2, <2>4, DepthReplicaBook
           DEF DepthReplica!Next, DepthReplica!Hold, DepthMoment
<1>2. CASE DepthUsed /\ ~DepthUsed'
  BY <1>2, DepthReplicaBook DEF DepthReplica!Next, DepthReplica!Drop
<1>3. CASE ~DepthUsed /\ ~DepthUsed'
  BY <1>3 DEF DepthReplica!vars
<1>. QED BY <1>1, <1>2, <1>3

\* Every step of the feed is a step of the replica or none.
LEMMA DepthReplicaMoves ==
    DepthInv /\ DepthInv' /\ [DepthNext]_depthVars => [DepthReplica!Next]_DepthReplica!vars
<1>. SUFFICES ASSUME DepthInv, DepthInv', [DepthNext]_depthVars
              PROVE  [DepthReplica!Next]_DepthReplica!vars
  OBVIOUS
<1>0. lastId \in 0..Len(dlog) /\ prevU \in 0..Len(dlog) /\ Len(dlog) \in Nat
  BY DEF DepthInv, DepthTypes
<1>1. ASSUME NEW n \in 1..MaxSpan, NEW lost \in BOOLEAN, NEW sides \in [1..n -> Sides],
             Publish(sides, lost)
      PROVE  [DepthReplica!Next]_DepthReplica!vars
  <2>0. n \in Nat /\ n >= 1
    BY DepthAssumption
  <2>1. dlog' = dlog \o sides /\ UNCHANGED <<phase, dbook, lastId, prevU, blind>>
        /\ dlog \in Seq(Sides) /\ sides \in Seq(Sides)
    BY <1>1, <2>0 DEF Publish, book, DepthInv, DepthTypes
  <2>2. Len(dlog') >= Len(dlog) /\ SubSeq(dlog', 1, Len(dlog)) = dlog
    BY <2>1
  <2>3. DepthUsed' = DepthUsed
    BY <2>1 DEF DepthUsed, CaughtUp
  <2>. QED BY <2>1, <2>2, <2>3 DEF DepthReplica!Next, DepthReplica!Change
<1>2. CASE dlog' = dlog /\ UNCHANGED <<lastId, prevU>>
  <2>1. DepthMoment' = DepthMoment /\ DepthMoment \in Nat
    BY <1>0, <1>2 DEF DepthMoment
  <2>2. DepthMoment <= DepthMoment'
    BY <2>1
  <2>. QED BY <1>2, <2>2, DepthCopyMoves
<1>3. CASE dlog' = dlog /\ (phase # "live" \/ phase' # "live")
  <2>1. ~(DepthUsed /\ DepthUsed')
    BY <1>3 DEF DepthUsed
  <2>. QED BY <1>3, <2>1, DepthCopyMoves
<1>4. CASE Receive /\ InSequence(Head(dwire))
  <2>. DEFINE e == Head(dwire)
  <2>1. dlog' = dlog /\ dwire # <<>> /\ prevU' = e.u /\ lastId' = lastId
    BY <1>4 DEF Receive
  <2>2. e \in Events /\ e.U <= e.u
    BY <2>1, EventTaken DEF DepthInv, DepthTypes
  <2>3. prevU = 0 \/ e.U - 1 = prevU
    BY <1>4 DEF InSequence
  <2>. HIDE DEF e
  <2>4. e.U \in Nat \ {0} /\ e.u \in Nat
    BY <2>2 DEF Events
  <2>5. ASSUME DepthUsed' PROVE DepthMoment <= DepthMoment'
    <3>1. DepthMoment' = e.u
      BY <2>1, <2>2, <2>4 DEF DepthMoment
    <3>2. CASE prevU = 0
      <4>1. prevU' = 0 \/ prevU' >= lastId'
        BY <2>5 DEF DepthUsed, CaughtUp
      <4>. QED BY <1>0, <2>1, <2>2, <2>4, <3>1, <3>2, <4>1 DEF DepthMoment
    <3>3. CASE prevU # 0
      BY <1>0, <2>2, <2>3, <2>4, <3>1, <3>3 DEF DepthMoment
    <3>. QED BY <3>2, <3>3
  <2>. QED BY <2>1, <2>5, DepthCopyMoves
<1>5. CASE \/ Receive /\ ~InSequence(Head(dwire))
           \/ Align \/ LiveTimeout \/ Broken \/ Connect \/ SnapshotFailed
  <2>1. dlog' = dlog /\ (phase # "live" \/ phase' # "live")
    BY <1>5 DEF Receive, Align, LiveTimeout, Broken, Connect, SnapshotFailed, Reset
  <2>. QED BY <1>3, <2>1
<1>6. CASE Buffer \/ BufferTimeout \/ DepthAnswered \/ AlphaAges \/ TickerConnect \/ TickerQuote
           \/ TickerBreak \/ UNCHANGED depthVars
  <2>1. dlog' = dlog /\ UNCHANGED <<lastId, prevU>>
    BY <1>6 DEF Buffer, BufferTimeout, DepthAnswered, SnapshotAnswered, AlphaAges, TickerConnect,
       TickerQuote, TickerBreak, TickerStep, depthVars, book
  <2>. QED BY <1>2, <2>1
<1>. QED BY <1>1, <1>4, <1>5, <1>6 DEF DepthNext

\* The replica starts where the feed does.
LEMMA DepthReplicaStarts == DepthInit => DepthReplica!Init
BY DepthReplicaBook DEF DepthInit, DepthReplica!Init, DepthUsed

\* The depth client implements BookReplica: a live book without a blind spot behind it is
\* the exchange's at one moment, and that moment only moves forward (binance_obi.py:270).
THEOREM DepthImplementsReplica == DepthSpec => DepthIsReplica
<1>1. DepthSpec => DepthReplica!Init /\ [][DepthReplica!Next]_DepthReplica!vars
  BY DepthReplicaStarts, DepthReplicaMoves, DepthIsInv, PTL DEF DepthSpec
<1>. QED BY <1>1 DEF DepthIsReplica, DepthReplica!Spec

-----------------------------------------------------------------------------
(* The channel batches go out by. *)

Batches == 0..(BatchIds - 1)
Requests == [b : Batches, first : Nonces, n : 1..MaxOps, here : BOOLEAN]
Answers == {Lost} \cup [b : Batches, code : Codes]

TxTypes ==
    /\ srv \in Nonces /\ nonce \in Nonces /\ ran \in [Batches -> 0..1]
    /\ flight \subseteq Requests /\ answers \in Seq(Answers)
    /\ txUp \in BOOLEAN /\ listening \in BOOLEAN
    /\ pc \in Waiting \cup {"idle", "rest"}
    /\ batch = [b |-> batch.b, first |-> batch.first, n |-> batch.n]
    /\ batch.b \in Batches /\ batch.first \in Nonces /\ batch.n \in 0..MaxOps
    /\ (pc # "idle" => batch.n >= 1)

\* What can still come back on the connection.
OwnAnswers ==
    /\ txUp => listening
    /\ txUp /\ pc \notin Waiting => answers = <<>> /\ \A r \in flight : ~r.here
    /\ txUp /\ pc \in Waiting =>
          \/ answers = <<>> /\ \A r \in flight : r.here => r = Request(TRUE)
          \/ Len(answers) = 1 /\ answers[1] # Lost /\ \A r \in flight : ~r.here
    /\ pc \in Waiting =>
          /\ \A i \in 1..Len(answers) :
                \/ answers[i] = Lost
                \/ /\ answers[i].b = batch.b
                   /\ answers[i].code = "ok" => ran[batch.b] = 1
          /\ \A r \in flight : r.here => r.b = batch.b

\* How far the exchange, at nonce s, is past the nonce k, and how many batches were signed
\* after batch b when the last one is c.
PastBy(s, k) == IF s >= k THEN s - k ELSE s - k + NonceSpan
SignedSince(c, b) == IF c >= b THEN c - b ELSE c - b + BatchIds
Spent == batch.first # srv

\* A request is at the exchange's nonce, and then so is the last batch signed, or it is
\* behind it by what was executed since; and that is at most one batch for each one signed.
Window ==
    /\ \A r \in flight : r.first = srv => ~Spent
    /\ PastBy(srv, batch.first) <= MaxOps
    /\ \A r \in flight :
          PastBy(srv, r.first) <= (SignedSince(batch.b, r.b) + IF Spent THEN 1 ELSE 0) * MaxOps
    /\ \A r \in flight : ran[r.b] = 1 => r.first # srv
    /\ \A r \in flight : r.b = batch.b => r.first = batch.first /\ r.n = batch.n
    /\ ran[batch.b] = 1 => PastBy(srv, batch.first) = batch.n /\ batch.n >= 1

\* A nonce is the exchange's, or the one the last batch began at.
NonceOfBatch ==
    IF pc = "idle" THEN nonce \in {srv, batch.first} ELSE nonce = Past(batch.first, batch.n)

\* Without a doubt, no old request can be executed any more.
NoDoubt ==
    ~doubt =>
        /\ pc = "idle" => nonce = srv
        /\ pc # "idle" /\ ran[batch.b] = 0 => ~Spent
        /\ \A r \in flight : pc = "idle" \/ r.b # batch.b => r.first # srv

TxInv == TxTypes /\ OwnAnswers /\ Window /\ NonceOfBatch /\ NoDoubt

\* A number that goes round a modulus at most once.
LEMMA RoundOnce ==
    ASSUME NEW m \in Nat \ {0}, NEW x \in 0..(m - 1), NEW n \in 0..m
    PROVE  (x + n) % m = IF x + n < m THEN x + n ELSE x + n - m
OBVIOUS

\* One more of a product below the product of the bound.
LEMMA OneMoreTime ==
    ASSUME NEW a \in Nat, NEW k \in Nat, a < k, NEW m \in Nat
    PROVE  a * m \in Nat /\ (a + 1) * m = a * m + m /\ a * m + m <= k * m
<1>1. (a + 1) * m = a * m + m
  OBVIOUS
<1>. DEFINE d == k - (a + 1)
<1>2. d \in Nat /\ k = a + 1 + d
  OBVIOUS
<1>. HIDE DEF d
<1>3. k * m = (a + 1) * m + d * m /\ d * m \in Nat /\ a * m \in Nat /\ (a + 1) * m \in Nat
  BY <1>2
<1>. QED BY <1>1, <1>3

\* The numbers of the channel.
LEMMA TxNumbers ==
    /\ BatchIds \in Nat \ {0} /\ MaxOps \in Nat \ {0} /\ NonceSpan \in Nat \ {0}
    /\ BatchIds * MaxOps \in Nat /\ BatchIds * MaxOps < NonceSpan /\ MaxOps < NonceSpan
<1>1. BatchIds \in Nat \ {0} /\ MaxOps \in Nat \ {0} /\ NonceSpan \in Nat
      /\ NonceSpan > BatchIds * MaxOps
  BY TxAssumption
<1>2. 0 * MaxOps + MaxOps <= BatchIds * MaxOps
  <2>1. 0 \in Nat /\ 0 < BatchIds
    BY <1>1
  <2>. QED BY <1>1, <2>1, OneMoreTime
<1>3. BatchIds * MaxOps \in Nat /\ MaxOps <= BatchIds * MaxOps
  BY <1>1, <1>2
<1>. QED BY <1>1, <1>3

\* A distance is below the span, and nothing only from a nonce to itself.
LEMMA Distance ==
    ASSUME NEW s \in Nonces, NEW k \in Nonces
    PROVE  PastBy(s, k) \in Nonces /\ (PastBy(s, k) = 0 <=> s = k)
BY TxNumbers DEF PastBy, Nonces

\* How many batches were signed since another, round the batch numbers.
LEMMA AgeOfBatch ==
    ASSUME NEW c \in Batches, NEW b \in Batches
    PROVE  SignedSince(c, b) \in Batches /\ SignedSince(c, c) = 0
BY TxNumbers DEF SignedSince, Batches

\* What is executed takes the exchange as much further from every nonce.
LEMMA FurtherAway ==
    ASSUME NEW s \in Nonces, NEW k \in Nonces, NEW n \in 1..MaxOps,
           PastBy(s, k) + n < NonceSpan
    PROVE  /\ Past(s, n) \in Nonces
           /\ PastBy(Past(s, n), k) = PastBy(s, k) + n /\ Past(s, n) # k
<1>1. n \in 0..NonceSpan /\ s \in Nat /\ k \in Nat /\ s < NonceSpan /\ k < NonceSpan /\ n >= 1
  BY TxNumbers DEF Nonces
<1>2. Past(s, n) = IF s + n < NonceSpan THEN s + n ELSE s + n - NonceSpan
  BY <1>1, TxNumbers, RoundOnce DEF Past, Nonces
<1>3. Past(s, n) \in Nonces
  BY <1>1, <1>2, TxNumbers DEF Nonces
<1>4. PastBy(Past(s, n), k) = PastBy(s, k) + n
  BY <1>1, <1>2, TxNumbers DEF PastBy
<1>. QED BY <1>1, <1>3, <1>4, Distance DEF Nonces

\* The number of the next batch.
LEMMA NextBatch ==
    ASSUME NEW c \in Batches
    PROVE  (c + 1) % BatchIds \in Batches
<1>1. c \in 0..(BatchIds - 1) /\ 1 \in 0..BatchIds
  BY TxNumbers DEF Batches
<1>2. (c + 1) % BatchIds = IF c + 1 < BatchIds THEN c + 1 ELSE c + 1 - BatchIds
  BY <1>1, TxNumbers, RoundOnce
<1>. QED BY <1>1, <1>2, TxNumbers DEF Batches

\* A batch with a new number makes every batch before it older by one.
LEMMA OneBatchOlder ==
    ASSUME NEW c \in Batches, NEW b \in Batches, b # (c + 1) % BatchIds
    PROVE  /\ (c + 1) % BatchIds \in Batches
           /\ SignedSince((c + 1) % BatchIds, b) = SignedSince(c, b) + 1
<1>1. (c + 1) % BatchIds = IF c + 1 < BatchIds THEN c + 1 ELSE c + 1 - BatchIds
  <2>1. 1 \in 0..BatchIds /\ c \in 0..(BatchIds - 1)
    BY TxNumbers DEF Batches
  <2>. QED BY <2>1, TxNumbers, RoundOnce
<1>. QED BY <1>1, TxNumbers DEF SignedSince, Batches

\* The nonce past some operations, round the nonces.
LEMMA PastRound ==
    ASSUME NEW k \in Nonces, NEW n \in 0..MaxOps
    PROVE  Past(k, n) \in Nonces
<1>1. n \in 0..NonceSpan
  BY TxNumbers
<1>2. Past(k, n) = IF k + n < NonceSpan THEN k + n ELSE k + n - NonceSpan
  BY <1>1, TxNumbers, RoundOnce DEF Past, Nonces
<1>. QED BY <1>1, <1>2, TxNumbers DEF Nonces

\* Nothing was signed at the start.
LEMMA TxStarts == TxInit => TxInv
<1>. SUFFICES ASSUME TxInit PROVE TxInv
  OBVIOUS
<1>. USE DEF TxInit
<1>1. 0 \in Nonces /\ 0 \in Batches /\ PastBy(0, 0) = 0
  BY TxNumbers DEF Nonces, Batches, PastBy
<1>2. answers = <<>> /\ answers \in Seq(Answers) /\ flight = {} /\ pc = "idle"
  OBVIOUS
<1>3. ran \in [Batches -> 0..1] /\ ran[batch.b] = 0
  BY <1>1 DEF Batches
<1>4. TxTypes
  BY <1>1, <1>2, <1>3, TxNumbers DEF TxTypes
<1>5. OwnAnswers
  BY <1>2 DEF OwnAnswers, Waiting
<1>6. Window /\ NonceOfBatch
  BY <1>1, <1>2, <1>3, TxNumbers DEF Window, NonceOfBatch
<1>7. NoDoubt
  BY <1>2 DEF NoDoubt
<1>. QED BY <1>4, <1>5, <1>6, <1>7 DEF TxInv

\* Requests that carry the same operations.
SameOps(r, o) == r.b = o.b /\ r.first = o.first /\ r.n = o.n

\* As long as nothing is executed or signed, and no batch is over, it does not matter to
\* the nonces which tries of the batches are on their way.
LEMMA FlightMoves ==
    ASSUME TxTypes, Window, NonceOfBatch, NoDoubt,
           UNCHANGED <<srv, ran, batch, nonce, doubt>>, pc' = "idle" <=> pc = "idle",
           flight' \subseteq Requests,
           \A r \in flight' : \/ \E o \in flight : SameOps(r, o)
                              \/ pc # "idle" /\ SameOps(r, batch)
    PROVE  Window' /\ NonceOfBatch' /\ NoDoubt'
<1>1. srv \in Nonces /\ batch.first \in Nonces /\ batch.b \in Batches
  BY DEF TxTypes
<1>2. ASSUME NEW r \in flight'
      PROVE  /\ r.first = srv => ~Spent
             /\ PastBy(srv, r.first) <= (SignedSince(batch.b, r.b) + IF Spent THEN 1 ELSE 0) * MaxOps
             /\ ran[r.b] = 1 => r.first # srv
             /\ r.b = batch.b => r.first = batch.first /\ r.n = batch.n
             /\ ~doubt /\ (pc = "idle" \/ r.b # batch.b) => r.first # srv
  <2>1. ASSUME NEW o \in flight, SameOps(r, o)
        PROVE  /\ r.first = srv => ~Spent
               /\ PastBy(srv, r.first) <= (SignedSince(batch.b, r.b) + IF Spent THEN 1 ELSE 0) * MaxOps
               /\ ran[r.b] = 1 => r.first # srv
               /\ r.b = batch.b => r.first = batch.first /\ r.n = batch.n
               /\ ~doubt /\ (pc = "idle" \/ r.b # batch.b) => r.first # srv
    BY <2>1 DEF SameOps, Window, NoDoubt
  <2>2. CASE pc # "idle" /\ SameOps(r, batch)
    <3>1. r.b = batch.b /\ r.first = batch.first /\ r.n = batch.n
      BY <2>2 DEF SameOps
    <3>2. SignedSince(batch.b, r.b) = 0
      BY <1>1, <3>1, AgeOfBatch
    <3>3. PastBy(srv, r.first) <= (IF Spent THEN 1 ELSE 0) * MaxOps
      <4>1. CASE Spent
        BY <3>1, <4>1, TxNumbers DEF Window
      <4>2. CASE ~Spent
        <5>1. PastBy(srv, r.first) = 0
          BY <1>1, <3>1, <4>2, Distance DEF Spent
        <5>. QED BY <4>2, <5>1, TxNumbers
      <4>. QED BY <4>1, <4>2
    <3>4. ran[r.b] = 1 => r.first # srv
      <4>1. ran[r.b] = 1 => PastBy(srv, batch.first) # 0
        BY <1>1, <3>1 DEF Window, TxTypes
      <4>. QED BY <1>1, <3>1, <4>1, Distance
    <3>. QED BY <2>2, <3>1, <3>2, <3>3, <3>4 DEF Spent
  <2>. QED BY <2>1, <2>2
<1>3. Spent' = Spent
  BY DEF Spent
<1>4. Window'
  BY <1>2, <1>3 DEF Window
<1>5. NonceOfBatch'
  BY DEF NonceOfBatch
<1>6. NoDoubt'
  BY <1>2, <1>3 DEF NoDoubt
<1>. QED BY <1>4, <1>5, <1>6

\* A batch that is executed leaves nothing behind that can be.
LEMMA ExecutedBatch ==
    ASSUME TxTypes, Window, NEW r \in Requests,
           SameOps(r, batch) \/ \E o \in flight : SameOps(r, o),
           r.first = srv, srv' = Past(srv, r.n), ran' = [ran EXCEPT ![r.b] = @ + 1],
           UNCHANGED batch, flight' \subseteq flight
    PROVE  /\ srv' \in Nonces /\ ran' \in [Batches -> 0..1] /\ ran'[r.b] = 1
           /\ Window' /\ Spent' /\ ~Spent
           /\ \A o \in flight' : o.first # srv'
<1>1. /\ srv \in Nonces /\ batch.first \in Nonces /\ batch.b \in Batches
      /\ r.b \in Batches /\ r.n \in 1..MaxOps /\ flight \subseteq Requests
      /\ ran \in [Batches -> 0..1]
  BY DEF TxTypes, Requests
<1>2. ~Spent /\ batch.first = srv
  BY DEF Window, SameOps, Spent
<1>3. PastBy(srv, batch.first) = 0
  BY <1>1, <1>2, Distance
<1>4. ran[batch.b] # 1
  BY <1>3 DEF Window, TxTypes
<1>5. ran[r.b] = 0
  <2>1. ran[r.b] # 1
    BY <1>4 DEF Window, SameOps
  <2>. QED BY <1>1, <2>1
<1>6. ran' \in [Batches -> 0..1] /\ ran'[r.b] = 1 /\ \A b \in Batches \ {r.b} : ran'[b] = ran[b]
  BY <1>1, <1>5
<1>7. ASSUME NEW o \in flight
      PROVE  /\ o.first \in Nonces /\ o.b \in Batches
             /\ o.first # srv'
             /\ PastBy(srv', o.first) <= (SignedSince(batch.b, o.b) + 1) * MaxOps
  <2>. DEFINE age == SignedSince(batch.b, o.b)
  <2>1. o.first \in Nonces /\ o.b \in Batches
    BY <1>1 DEF Requests
  <2>2. age \in Nat /\ age < BatchIds /\ PastBy(srv, o.first) \in Nat
    <3>1. age \in Batches /\ PastBy(srv, o.first) \in Nonces
      BY <1>1, <2>1, AgeOfBatch, Distance
    <3>. HIDE DEF age
    <3>. QED BY <3>1, TxNumbers DEF Batches, Nonces
  <2>3. PastBy(srv, o.first) <= age * MaxOps
    <3>1. PastBy(srv, o.first) <= (age + 0) * MaxOps
      BY <1>2 DEF Window
    <3>. QED BY <2>2, <3>1
  <2>. HIDE DEF age
  <2>4. /\ age * MaxOps \in Nat /\ (age + 1) * MaxOps = age * MaxOps + MaxOps
        /\ age * MaxOps + MaxOps <= BatchIds * MaxOps
    BY <2>2, OneMoreTime, TxNumbers
  <2>5. PastBy(srv, o.first) + r.n < NonceSpan /\ PastBy(srv, o.first) + r.n <= (age + 1) * MaxOps
    BY <1>1, <2>2, <2>3, <2>4, TxNumbers
  <2>6. PastBy(srv', o.first) = PastBy(srv, o.first) + r.n /\ srv' # o.first
    BY <1>1, <2>1, <2>5, FurtherAway
  <2>. QED BY <2>1, <2>5, <2>6 DEF age
<1>8. srv' \in Nonces /\ PastBy(srv', batch.first) = r.n /\ srv' # batch.first
  <2>1. 0 + r.n < NonceSpan
    BY <1>1, TxNumbers
  <2>2. PastBy(srv, batch.first) + r.n < NonceSpan
    BY <1>3, <2>1
  <2>3. srv' \in Nonces /\ PastBy(srv', batch.first) = PastBy(srv, batch.first) + r.n
        /\ srv' # batch.first
    BY <1>1, <2>2, FurtherAway
  <2>4. 0 + r.n = r.n
    BY <1>1
  <2>. QED BY <1>3, <2>3, <2>4
<1>9. Spent'
  BY <1>8 DEF Spent
<1>10. r.b = batch.b => r.n = batch.n
  BY DEF Window, SameOps
<1>11. Window'
  <2>1. \A o \in flight' : o.first # srv'
    BY <1>7
  <2>2. PastBy(srv', batch'.first) <= MaxOps
    BY <1>1, <1>8
  <2>3. \A o \in flight' : PastBy(srv', o.first) <= (SignedSince(batch'.b, o.b) + 1) * MaxOps
    BY <1>7
  <2>4. \A o \in flight' : o.b = batch'.b => o.first = batch'.first /\ o.n = batch'.n
    BY DEF Window
  <2>5. ran'[batch'.b] = 1 => PastBy(srv', batch'.first) = batch'.n /\ batch'.n >= 1
    <3>1. CASE r.b = batch.b
      BY <1>1, <1>8, <1>10, <3>1
    <3>2. CASE r.b # batch.b
      BY <1>1, <1>4, <1>6, <3>2
    <3>. QED BY <3>1, <3>2
  <2>. QED BY <1>9, <2>1, <2>2, <2>3, <2>4, <2>5 DEF Window
<1>. QED BY <1>2, <1>6, <1>7, <1>8, <1>9, <1>11

\* The nonce a distance leads to.
LEMMA NonceAtDistance ==
    ASSUME NEW s \in Nonces, NEW k \in Nonces, NEW n \in 0..MaxOps, PastBy(s, k) = n
    PROVE  Past(k, n) = s
<1>1. n \in 0..NonceSpan
  BY TxNumbers
<1>2. Past(k, n) = IF k + n < NonceSpan THEN k + n ELSE k + n - NonceSpan
  BY <1>1, TxNumbers, RoundOnce DEF Past, Nonces
<1>. QED BY <1>1, <1>2, TxNumbers DEF Nonces, PastBy

\* What a batch ends with leaves the nonces in order.
LEMMA OutcomeKeeps ==
    ASSUME TxTypes, NonceOfBatch, NoDoubt, pc # "idle",
           NEW code, Outcome(code), UNCHANGED batch, srv' \in Nonces, Window',
           ran' \in [Batches -> 0..1], code = "ok" => ran'[batch.b] = 1,
           ~doubt /\ ran'[batch.b] = 0 => batch.first = srv'
    PROVE  pc' = "idle" /\ nonce' \in Nonces /\ NonceOfBatch' /\ NoDoubt'
<1>1. pc' = "idle" /\ batch.first \in Nonces /\ batch.b \in Batches /\ batch.n \in 0..MaxOps
  BY DEF Outcome, TxTypes
<1>2. CASE code = "ok"
  <2>1. nonce' = Past(batch.first, batch.n) /\ doubt' = doubt
    BY <1>2 DEF Outcome, NonceOfBatch
  <2>2. PastBy(srv', batch.first) = batch.n /\ batch.n >= 1
    BY <1>2 DEF Window
  <2>3. nonce' = srv'
    BY <1>1, <2>1, <2>2, NonceAtDistance
  <2>4. Spent'
    <3>1. PastBy(srv', batch.first) # 0
      BY <1>1, <2>2
    <3>2. srv' # batch.first
      BY <1>1, <3>1, Distance
    <3>. QED BY <3>2 DEF Spent
  <2>5. \A r \in flight' : r.first # srv'
    BY <2>4 DEF Window
  <2>. QED BY <1>1, <2>3, <2>5 DEF NonceOfBatch, NoDoubt
<1>3. CASE HardRefresh
  BY <1>1, <1>3 DEF HardRefresh, NonceOfBatch, NoDoubt
<1>4. CASE Rollback
  <2>1. nonce' = batch.first /\ doubt' = (doubt \/ ran'[batch.b] > 0 \/ flight' # {})
    BY <1>4 DEF Rollback
  <2>2. ran'[batch.b] \in 0..1
    BY <1>1
  <2>3. ran'[batch.b] > 0 \/ ran'[batch.b] = 0
    BY <2>2
  <2>4. ~doubt' => ~doubt /\ ran'[batch.b] = 0 /\ flight' = {}
    BY <2>1, <2>3
  <2>. QED BY <1>1, <2>1, <2>4 DEF NonceOfBatch, NoDoubt
<1>. QED BY <1>2, <1>3, <1>4 DEF Outcome, RefreshAfter

\* A request whose answer nobody waits for any more is one that was under way.
LEMMA GoneRequests ==
    ASSUME TxTypes, NEW r \in Gone(flight)
    PROVE  r \in Requests /\ ~r.here /\ \E o \in flight : SameOps(r, o)
<1>1. PICK o \in flight : r = [o EXCEPT !.here = FALSE]
  BY DEF Gone
<1>2. o \in Requests
  BY DEF TxTypes
<1>3. r = [b |-> o.b, first |-> o.first, n |-> o.n, here |-> FALSE]
  BY <1>1, <1>2 DEF Requests
<1>. QED BY <1>2, <1>3 DEF Requests, SameOps

\* The request of the batch that is being sent.
LEMMA RequestOfBatch ==
    ASSUME TxTypes, pc # "idle", NEW here \in BOOLEAN
    PROVE  /\ Request(here) \in Requests /\ SameOps(Request(here), batch)
           /\ Request(here).here = here
<1>1. batch.b \in Batches /\ batch.first \in Nonces /\ batch.n \in 1..MaxOps
  BY TxNumbers DEF TxTypes
<1>. QED BY <1>1 DEF Requests, Request, SameOps

\* The answers that wait are of the batch that waits for them.
LEMMA AnswerTaken ==
    ASSUME TxTypes, answers # <<>>
    PROVE  /\ Head(answers) = answers[1] /\ 1 \in 1..Len(answers) /\ Tail(answers) \in Seq(Answers)
           /\ Len(Tail(answers)) = Len(answers) - 1 /\ Len(answers) \in Nat
           /\ \A i \in 1..Len(Tail(answers)) :
                 Tail(answers)[i] = answers[i + 1] /\ i + 1 \in 1..Len(answers)
BY DEF TxTypes

\* A batch that is sent, or sent again, with the nonce it was signed with.
LEMMA ResendKeeps ==
    ASSUME TxInv, pc \in Waiting, NEW next \in Waiting, Resend(next),
           UNCHANGED <<srv, ran, nonce, batch, doubt>>
    PROVE  TxInv'
<1>. TxTypes /\ Window /\ NonceOfBatch /\ NoDoubt
  BY DEF TxInv
<1>0. pc # "idle"
  BY DEF Waiting
<1>1. CASE /\ Connected /\ pc' = next
           /\ flight' = Gone(flight) \cup {Request(TRUE)}
  <2>1. /\ Request(TRUE) \in Requests /\ SameOps(Request(TRUE), batch)
        /\ Request(TRUE)' = Request(TRUE)
    BY <1>0, RequestOfBatch DEF Request
  <2>2. \A r \in flight' : \/ r = Request(TRUE)
                           \/ r \in Requests /\ ~r.here /\ \E o \in flight : SameOps(r, o)
    BY <1>1, GoneRequests
  <2>3. flight' \subseteq Requests
    BY <2>1, <2>2
  <2>4. \A r \in flight' : SameOps(r, batch) \/ \E o \in flight : SameOps(r, o)
    BY <2>1, <2>2
  <2>5. pc' # "idle" /\ txUp' = TRUE /\ listening' = TRUE /\ answers' = <<>>
    BY <1>1 DEF Connected, Waiting, DrainedAnswers
  <2>6. Window' /\ NonceOfBatch' /\ NoDoubt'
    BY <1>0, <2>3, <2>4, <2>5, FlightMoves
  <2>7. TxTypes'
    <3>1. answers' \in Seq(Answers) /\ txUp' \in BOOLEAN /\ listening' \in BOOLEAN
      BY <2>5
    <3>2. pc' \in Waiting \cup {"idle", "rest"}
      BY <1>1
    <3>. QED BY <1>0, <2>3, <3>1, <3>2 DEF TxTypes
  <2>8. Request(TRUE).b = batch.b
    BY <2>1 DEF SameOps
  <2>9. OwnAnswers'
    <3>1. txUp' /\ listening' /\ pc' \in Waiting /\ Len(answers') = 0
      BY <1>1, <2>5
    <3>2. \A r \in flight' : r.here => r = Request(TRUE)' /\ r.b = batch'.b
      BY <2>1, <2>2, <2>8
    <3>3. \A i \in 1..Len(answers') : FALSE
      BY <3>1
    <3>. QED BY <2>5, <3>1, <3>2, <3>3, Zenon DEF OwnAnswers
  <2>. QED BY <2>6, <2>7, <2>9 DEF TxInv
<1>2. CASE ConnectFails /\ pc' = "rest" /\ flight' = Gone(flight)
  <2>1. flight' \subseteq Requests /\ \A r \in flight' : \E o \in flight : SameOps(r, o)
    BY <1>2, GoneRequests
  <2>2. Window' /\ NonceOfBatch' /\ NoDoubt'
    BY <1>0, <1>2, <2>1, FlightMoves
  <2>3. TxTypes'
    BY <1>0, <1>2, <2>1 DEF TxTypes, ConnectFails
  <2>4. OwnAnswers'
    BY <1>2 DEF OwnAnswers, ConnectFails, Waiting
  <2>. QED BY <2>2, <2>3, <2>4 DEF TxInv
<1>. QED BY <1>1, <1>2 DEF Resend

\* What the exchange makes of a request, whether it executes it or not.
LEMMA JudgeKeeps ==
    ASSUME TxTypes, Window, NEW r \in Requests, NEW code, Judge(r, code),
           SameOps(r, batch) \/ \E o \in flight : SameOps(r, o),
           UNCHANGED batch, flight' \subseteq flight
    PROVE  /\ srv' \in Nonces /\ ran' \in [Batches -> 0..1] /\ Window'
           /\ IF code = "ok" THEN /\ r.first = srv /\ ran'[r.b] = 1 /\ Spent' /\ ~Spent
                                  /\ \A o \in flight' : o.first # srv'
              ELSE UNCHANGED <<srv, ran>>
           /\ ran[batch.b] = 1 => ran'[batch.b] = 1
<1>1. CASE code = "ok"
  <2>1. r.first = srv /\ srv' = Past(srv, r.n) /\ ran' = [ran EXCEPT ![r.b] = @ + 1]
    BY <1>1 DEF Judge, Verdicts, Refusals
  <2>2. /\ srv' \in Nonces /\ ran' \in [Batches -> 0..1] /\ ran'[r.b] = 1
        /\ Window' /\ Spent' /\ ~Spent
        /\ \A o \in flight' : o.first # srv'
    BY <2>1, ExecutedBatch
  <2>3. ran[batch.b] = 1 => ran'[batch.b] = 1
    BY <2>1, <2>2 DEF TxTypes, Requests
  <2>. QED BY <1>1, <2>1, <2>2, <2>3
<1>2. CASE code # "ok"
  <2>1. UNCHANGED <<srv, ran>>
    BY <1>2 DEF Judge
  <2>2. Spent' = Spent
    BY <2>1 DEF Spent
  <2>3. Window'
    BY <2>1, <2>2 DEF Window
  <2>. QED BY <1>2, <2>1, <2>3 DEF TxTypes
<1>. QED BY <1>1, <1>2

\* The exchange executes a request, or refuses it for its nonce.
LEMMA ExecuteKeeps ==
    ASSUME TxInv, NEW r \in flight, NEW code \in Codes, Execute(r, code)
    PROVE  TxInv'
<1>. TxTypes /\ OwnAnswers /\ Window /\ NonceOfBatch /\ NoDoubt
  BY DEF TxInv
<1>1. /\ Judge(r, code) /\ flight' = flight \ {r}
      /\ answers' = IF r.here /\ listening THEN Append(answers, [b |-> r.b, code |-> code])
                    ELSE answers
      /\ UNCHANGED <<nonce, txUp, listening, pc, batch, doubt>>
  BY DEF Execute
<1>2. r \in Requests /\ SameOps(r, r)
  BY DEF TxTypes, SameOps
<1>3. /\ srv' \in Nonces /\ ran' \in [Batches -> 0..1] /\ Window'
      /\ IF code = "ok" THEN /\ r.first = srv /\ ran'[r.b] = 1 /\ Spent' /\ ~Spent
                             /\ \A o \in flight' : o.first # srv'
         ELSE UNCHANGED <<srv, ran>>
      /\ ran[batch.b] = 1 => ran'[batch.b] = 1
  BY <1>1, <1>2, JudgeKeeps
<1>4. TxTypes'
  <2>1. answers' \in Seq(Answers)
    <3>1. [b |-> r.b, code |-> code] \in Answers
      BY <1>2 DEF Requests, Answers
    <3>. QED BY <1>1, <3>1 DEF TxTypes
  <2>2. flight' \subseteq Requests
    BY <1>1 DEF TxTypes
  <2>. QED BY <1>1, <1>3, <2>1, <2>2 DEF TxTypes
<1>5. NonceOfBatch'
  <2>1. CASE code = "ok"
    BY <1>1, <1>3, <2>1 DEF NonceOfBatch, Spent
  <2>2. CASE code # "ok"
    BY <1>1, <1>3, <2>2 DEF NonceOfBatch
  <2>. QED BY <2>1, <2>2
<1>6. NoDoubt'
  <2>1. CASE code = "ok"
    <3>1. ~doubt => pc # "idle" /\ r.b = batch.b
      BY <1>3, <2>1 DEF NoDoubt
    <3>2. ~doubt => ran'[batch.b] # 0
      BY <1>3, <2>1, <3>1
    <3>. QED BY <1>1, <1>3, <2>1, <3>1, <3>2 DEF NoDoubt
  <2>2. CASE code # "ok"
    <3>1. Spent' = Spent
      BY <1>1, <1>3, <2>2 DEF Spent
    <3>. QED BY <1>1, <1>3, <2>2, <3>1 DEF NoDoubt
  <2>. QED BY <2>1, <2>2
<1>7. OwnAnswers'
  <2>1. CASE ~(r.here /\ listening)
    BY <1>1, <1>3, <2>1 DEF OwnAnswers, Request
  <2>2. CASE r.here /\ listening
    <3>. DEFINE a == [b |-> r.b, code |-> code]
    <3>1. answers' = Append(answers, a) /\ a.b = r.b /\ a.code = code /\ a # Lost
      BY <1>1, <2>2 DEF Codes, Refusals, Lost
    <3>. HIDE DEF a
    <3>2. answers \in Seq(Answers)
      BY DEF TxTypes
    <3>3. a \in Answers
      BY <1>2, <3>1 DEF Requests, Answers, a
    <3>4. /\ Len(answers') = Len(answers) + 1 /\ Len(answers) \in Nat
          /\ \A i \in 1..Len(answers') : (i \in 1..Len(answers) /\ answers'[i] = answers[i]) \/ answers'[i] = a
          /\ answers = <<>> => answers'[1] = a
          /\ answers = <<>> => Len(answers) = 0
      BY <3>1, <3>2, <3>3
    <3>5. txUp => pc \in Waiting
      BY <2>2 DEF OwnAnswers
    <3>6. txUp => answers = <<>> /\ \A o \in flight : o.here => o = Request(TRUE)
      BY <2>2, <3>5 DEF OwnAnswers
    <3>7. txUp => \A o \in flight' : ~o.here
      BY <1>1, <2>2, <3>6
    <3>8. txUp => Len(answers') = 1 /\ answers'[1] # Lost
      BY <3>1, <3>4, <3>6
    <3>9. pc \in Waiting => r.b = batch.b
      BY <2>2 DEF OwnAnswers
    <3>10. pc \in Waiting => a.b = batch.b /\ (a.code = "ok" => ran'[batch.b] = 1)
      BY <1>3, <3>1, <3>9
    <3>11. pc \in Waiting =>
             \A i \in 1..Len(answers') :
                \/ answers'[i] = Lost
                \/ /\ answers'[i].b = batch.b
                   /\ answers'[i].code = "ok" => ran'[batch.b] = 1
      BY <1>3, <3>4, <3>10 DEF OwnAnswers
    <3>12. pc \in Waiting => \A o \in flight' : o.here => o.b = batch.b
      BY <1>1 DEF OwnAnswers
    <3>13. txUp => listening
      BY DEF OwnAnswers
    <3>. QED BY <1>1, <3>5, <3>7, <3>8, <3>11, <3>12, <3>13, Zenon DEF OwnAnswers
  <2>. QED BY <2>1, <2>2
<1>. QED BY <1>3, <1>4, <1>5, <1>6, <1>7 DEF TxInv

\* A request is lost on its way.
LEMMA VanishKeeps ==
    ASSUME TxInv, NEW r \in flight, Vanish(r) PROVE TxInv'
<1>. TxTypes /\ OwnAnswers /\ Window /\ NonceOfBatch /\ NoDoubt
  BY DEF TxInv
<1>1. /\ flight' = flight \ {r}
      /\ UNCHANGED <<srv, ran, nonce, txUp, listening, answers, pc, batch, doubt>>
  BY DEF Vanish, socket
<1>2. TxTypes'
  BY <1>1 DEF TxTypes
<1>3. \A o \in flight' : o \in flight /\ SameOps(o, o)
  BY <1>1 DEF SameOps
<1>4. flight' \subseteq Requests
  BY <1>1 DEF TxTypes
<1>5. Window' /\ NonceOfBatch' /\ NoDoubt'
  BY <1>1, <1>3, <1>4, FlightMoves
<1>6. OwnAnswers'
  BY <1>1 DEF OwnAnswers, Request
<1>. QED BY <1>2, <1>5, <1>6 DEF TxInv

\* The receive loop finds its connection closed.
LEMMA ConnectionLostKeeps ==
    ASSUME TxInv, ConnectionLost PROVE TxInv'
<1>. TxTypes /\ OwnAnswers /\ Window /\ NonceOfBatch /\ NoDoubt
  BY DEF TxInv
<1>1. /\ listening' = FALSE /\ txUp' = FALSE /\ answers' = Append(answers, Lost)
      /\ flight' = Gone(flight)
      /\ UNCHANGED <<srv, ran, nonce, pc, batch, doubt>>
  BY DEF ConnectionLost
<1>2. /\ flight' \subseteq Requests
      /\ \A r \in flight' : ~r.here /\ \E o \in flight : SameOps(r, o)
  BY <1>1, GoneRequests
<1>3. Window' /\ NonceOfBatch' /\ NoDoubt'
  BY <1>1, <1>2, FlightMoves
<1>4. /\ answers' \in Seq(Answers)
      /\ \A i \in 1..Len(answers') : \/ i \in 1..Len(answers) /\ answers'[i] = answers[i]
                                    \/ answers'[i] = Lost
  BY <1>1 DEF TxTypes, Answers
<1>5. TxTypes'
  <2>1. txUp' \in BOOLEAN /\ listening' \in BOOLEAN
    BY <1>1
  <2>. QED BY <1>1, <1>2, <1>4, <2>1 DEF TxTypes
<1>6. OwnAnswers'
  <2>1. ~txUp' /\ \A r \in flight' : ~r.here
    BY <1>1, <1>2
  <2>2. pc \in Waiting =>
             \A i \in 1..Len(answers') :
                \/ answers'[i] = Lost
                \/ /\ answers'[i].b = batch.b
                   /\ answers'[i].code = "ok" => ran[batch.b] = 1
    BY <1>4 DEF OwnAnswers
  <2>. QED BY <1>1, <2>1, <2>2, Zenon DEF OwnAnswers
<1>. QED BY <1>3, <1>5, <1>6 DEF TxInv

\* No answer came in time.
LEMMA AnswerTimeoutKeeps ==
    ASSUME TxInv, AnswerTimeout PROVE TxInv'
<1>. TxTypes /\ OwnAnswers /\ Window /\ NonceOfBatch /\ NoDoubt
  BY DEF TxInv
<1>1. CASE pc # "third"
  <2>1. pc \in Waiting /\ "third" \in Waiting /\ Resend("third")
        /\ UNCHANGED <<srv, ran, nonce, batch, doubt>>
    BY <1>1 DEF AnswerTimeout, Waiting
  <2>. QED BY <2>1, ResendKeeps
<1>2. CASE pc = "third"
  <2>1. /\ pc' = "rest" /\ ~txUp' /\ txUp' \in BOOLEAN
        /\ UNCHANGED <<srv, ran, flight, listening, answers, nonce, batch, doubt>>
    BY <1>2 DEF AnswerTimeout
  <2>2. TxTypes'
    BY <1>2, <2>1 DEF TxTypes
  <2>3. OwnAnswers'
    BY <2>1 DEF OwnAnswers, Waiting
  <2>4. flight' \subseteq Requests /\ \A r \in flight' : r \in flight /\ SameOps(r, r)
    BY <2>1 DEF TxTypes, SameOps
  <2>5. Window' /\ NonceOfBatch' /\ NoDoubt'
    BY <1>2, <2>1, <2>4, FlightMoves
  <2>. QED BY <2>2, <2>3, <2>5 DEF TxInv
<1>. QED BY <1>1, <1>2

\* The batch finds, instead of an answer, that its connection broke.
LEMMA TakeLostKeeps ==
    ASSUME TxInv, TakeLost PROVE TxInv'
<1>. TxTypes /\ OwnAnswers /\ Window /\ NonceOfBatch /\ NoDoubt
  BY DEF TxInv
<1>1. CASE pc = "first"
  <2>1. pc \in Waiting /\ "second" \in Waiting /\ Resend("second")
        /\ UNCHANGED <<srv, ran, nonce, batch, doubt>>
    BY <1>1 DEF TakeLost, Waiting
  <2>. QED BY <2>1, ResendKeeps
<1>2. CASE pc # "first"
  <2>1. /\ pc \in Waiting /\ answers # <<>> /\ Head(answers) = Lost
        /\ pc' = "rest" /\ answers' = Tail(answers)
        /\ UNCHANGED <<srv, ran, flight, txUp, listening, nonce, batch, doubt>>
    BY <1>2 DEF TakeLost
  <2>2. pc # "idle"
    BY <2>1 DEF Waiting
  <2>3. ~txUp
    BY <2>1, AnswerTaken DEF OwnAnswers
  <2>4. TxTypes'
    BY <2>1, <2>2, AnswerTaken DEF TxTypes
  <2>5. OwnAnswers'
    BY <2>1, <2>3 DEF OwnAnswers, Waiting
  <2>6. flight' \subseteq Requests /\ \A r \in flight' : r \in flight /\ SameOps(r, r)
    BY <2>1 DEF TxTypes, SameOps
  <2>7. Window' /\ NonceOfBatch' /\ NoDoubt'
    BY <2>1, <2>2, <2>6, FlightMoves
  <2>. QED BY <2>4, <2>5, <2>7 DEF TxInv
<1>. QED BY <1>1, <1>2

\* A new batch is signed with the nonces the client believes in.
LEMMA SignKeeps ==
    ASSUME TxInv, NEW n \in 1..MaxOps, Sign(n) PROVE TxInv'
<1>. TxTypes /\ OwnAnswers /\ Window /\ NonceOfBatch /\ NoDoubt
  BY DEF TxInv
<1>. DEFINE b == (batch.b + 1) % BatchIds
            k == IF noQuota THEN 1 ELSE n
<1>1. /\ pc = "idle" /\ \A r \in flight : r.b # b
      /\ batch' = [b |-> b, first |-> nonce, n |-> k]
      /\ nonce' = Past(nonce, batch'.n) /\ ran' = [ran EXCEPT ![b] = 0]
      /\ \/ txUp /\ pc' = "first" /\ flight' = flight \cup {Request(TRUE)'}
         \/ pc' = "rest" /\ flight' = flight
      /\ UNCHANGED <<srv, txUp, listening, answers, doubt>>
  BY DEF Sign, socket
<1>2. k \in 1..MaxOps /\ n \in Nat
  BY TxNumbers
<1>3. batch.b \in Batches /\ b \in Batches
  <2>1. batch.b \in Batches
    BY DEF TxTypes
  <2>. QED BY <2>1, NextBatch
<1>4. batch'.b = b /\ batch'.first = nonce /\ batch'.n = k
  BY <1>1
<1>5. \A r \in flight : /\ r.b \in Batches /\ r.first \in Nonces
                        /\ SignedSince(b, r.b) = SignedSince(batch.b, r.b) + 1
  <2>. TAKE r \in flight
  <2>1. r.b \in Batches /\ r.first \in Nonces
    BY DEF TxTypes, Requests
  <2>. QED BY <1>1, <1>3, <2>1, OneBatchOlder
<1>. HIDE DEF b, k
<1>6. nonce \in Nonces /\ srv \in Nonces /\ batch.first \in Nonces /\ nonce \in {srv, batch.first}
  BY <1>1 DEF TxTypes, NonceOfBatch
<1>7. ran' \in [Batches -> 0..1] /\ ran'[b] = 0 /\ \A r \in flight : ran'[r.b] = ran[r.b]
  BY <1>1, <1>3, <1>5 DEF TxTypes
<1>8. \A r \in flight' : r \in flight \/ (pc' = "first" /\ r = Request(TRUE)')
  BY <1>1
<1>9. /\ Request(TRUE)' \in Requests /\ Request(TRUE)'.b = b /\ Request(TRUE)'.first = nonce
      /\ Request(TRUE)'.n = k
  BY <1>2, <1>3, <1>4, <1>6 DEF Request, Requests
<1>10. TxTypes'
  <2>1. nonce' \in Nonces
    <3>1. k \in 0..MaxOps
      BY <1>2, TxNumbers
    <3>. QED BY <1>1, <1>4, <1>6, <3>1, PastRound
  <2>2. flight' \subseteq Requests
    BY <1>8, <1>9 DEF TxTypes
  <2>3. batch' = [b |-> batch'.b, first |-> batch'.first, n |-> batch'.n]
    BY <1>1
  <2>4. batch'.n \in 0..MaxOps /\ batch'.n >= 1
    BY <1>2, <1>4, TxNumbers
  <2>. QED BY <1>1, <1>3, <1>4, <1>6, <1>7, <2>1, <2>2, <2>3, <2>4 DEF TxTypes, Waiting
<1>11. OwnAnswers'
  <2>1. CASE txUp /\ pc' = "first" /\ flight' = flight \cup {Request(TRUE)'}
    <3>1. listening /\ answers = <<>> /\ \A r \in flight : ~r.here
      BY <1>1, <2>1 DEF OwnAnswers, Waiting
    <3>2. txUp' /\ listening' /\ pc' \in Waiting /\ answers' = <<>>
      BY <1>1, <2>1, <3>1 DEF Waiting
    <3>3. \A r \in flight' : r.here => r = Request(TRUE)' /\ r.b = batch'.b
      BY <1>4, <1>8, <1>9, <3>1
    <3>4. \A i \in 1..Len(answers') : FALSE
      BY <3>2
    <3>. QED BY <3>2, <3>3, <3>4, Zenon DEF OwnAnswers
  <2>2. CASE pc' = "rest" /\ flight' = flight
    BY <1>1, <2>2 DEF OwnAnswers, Waiting
  <2>. QED BY <1>1, <2>1, <2>2
<1>12. Spent' => Spent /\ nonce = batch.first
  BY <1>1, <1>4, <1>6 DEF Spent
<1>13. PastBy(srv, nonce) <= MaxOps /\ (~Spent' => PastBy(srv, nonce) = 0)
  <2>1. PastBy(srv, srv) = 0 /\ 0 <= MaxOps
    BY <1>6, Distance, TxNumbers
  <2>2. ~Spent' => nonce = srv
    BY <1>1, <1>4 DEF Spent
  <2>. QED BY <1>6, <2>1, <2>2 DEF Window
<1>14. Window'
  <2>. DEFINE due == IF Spent' THEN 1 ELSE 0
  <2>1. \A r \in flight' : r.first = srv' => ~Spent'
    BY <1>1, <1>4, <1>8, <1>9, <1>12 DEF Window, Spent
  <2>2. \A r \in flight' : PastBy(srv', r.first) <= (SignedSince(batch'.b, r.b) + due) * MaxOps
    <3>. SUFFICES ASSUME NEW r \in flight'
                  PROVE  PastBy(srv, r.first) <= (SignedSince(b, r.b) + due) * MaxOps
      BY <1>1, <1>4
    <3>1. CASE r \in flight
      <4>. DEFINE age == SignedSince(batch.b, r.b)
      <4>1. age \in Nat /\ SignedSince(b, r.b) = age + 1
        <5>1. age \in Batches /\ SignedSince(b, r.b) = age + 1
          BY <1>3, <1>5, <3>1, AgeOfBatch
        <5>. HIDE DEF age
        <5>. QED BY <5>1, TxNumbers DEF Batches
      <4>2. PastBy(srv, r.first) <= (age + IF Spent THEN 1 ELSE 0) * MaxOps
        BY <3>1 DEF Window
      <4>3. PastBy(srv, r.first) \in Nat
        <5>1. PastBy(srv, r.first) \in Nonces
          BY <1>5, <1>6, <3>1, Distance
        <5>. QED BY <5>1, TxNumbers DEF Nonces
      <4>. HIDE DEF age
      <4>4. age * MaxOps \in Nat /\ (age + 1) * MaxOps = age * MaxOps + MaxOps /\ age + 0 = age
            /\ (age + 1) * MaxOps \in Nat /\ (age + 1 + 1) * MaxOps = (age + 1) * MaxOps + MaxOps
            /\ age + 1 + 0 = age + 1
        BY <4>1, TxNumbers, OneMoreTime
      <4>5. PastBy(srv, r.first) <= (age + 1) * MaxOps
        BY <4>2, <4>3, <4>4, TxNumbers
      <4>6. (age + 1) * MaxOps <= (age + 1 + due) * MaxOps
        BY <4>1, <4>4, TxNumbers
      <4>7. (age + 1 + due) * MaxOps \in Nat
        BY <4>1, <4>4, TxNumbers
      <4>. QED BY <4>1, <4>3, <4>4, <4>5, <4>6, <4>7
    <3>2. CASE r = Request(TRUE)'
      <4>1. r.first = nonce /\ SignedSince(b, r.b) = 0
        BY <1>3, <1>9, <3>2, AgeOfBatch
      <4>2. PastBy(srv, nonce) <= due * MaxOps
        BY <1>13, TxNumbers
      <4>. QED BY <4>1, <4>2
    <3>. QED BY <1>8, <3>1, <3>2
  <2>3. \A r \in flight' : ran'[r.b] = 1 => r.first # srv'
    <3>. TAKE r \in flight'
    <3>1. CASE r \in flight
      BY <1>1, <1>7, <3>1 DEF Window
    <3>2. CASE r = Request(TRUE)'
      <4>1. ran'[r.b] = 0
        BY <1>7, <1>9, <3>2
      <4>. QED BY <4>1
    <3>. QED BY <1>8, <3>1, <3>2
  <2>4. \A r \in flight' : r.b = batch'.b => r.first = batch'.first /\ r.n = batch'.n
    BY <1>1, <1>4, <1>8, <1>9
  <2>5. PastBy(srv', batch'.first) <= MaxOps /\ ran'[batch'.b] # 1
    BY <1>1, <1>4, <1>7, <1>13
  <2>. QED BY <2>1, <2>2, <2>3, <2>4, <2>5 DEF Window
<1>15. NonceOfBatch'
  BY <1>1, <1>4 DEF NonceOfBatch
<1>16. NoDoubt'
  <2>. SUFFICES ASSUME ~doubt PROVE NoDoubt'
    BY <1>1 DEF NoDoubt
  <2>1. nonce = srv /\ \A r \in flight : r.first # srv
    BY <1>1 DEF NoDoubt
  <2>2. ~Spent'
    BY <1>1, <1>4, <2>1 DEF Spent
  <2>3. pc' # "idle"
    BY <1>1
  <2>4. \A r \in flight' : r.b # batch'.b => r.first # srv'
    BY <1>1, <1>4, <1>8, <1>9, <2>1
  <2>. QED BY <2>2, <2>3, <2>4 DEF NoDoubt
<1>. QED BY <1>10, <1>11, <1>14, <1>15, <1>16 DEF TxInv

\* The answer to the batch.
LEMMA TakeAnswerKeeps ==
    ASSUME TxInv, TakeAnswer PROVE TxInv'
<1>. TxTypes /\ OwnAnswers /\ Window /\ NonceOfBatch /\ NoDoubt
  BY DEF TxInv
<1>. DEFINE code == Head(answers).code
<1>1. /\ pc \in Waiting /\ answers # <<>> /\ Head(answers) # Lost /\ answers' = Tail(answers)
      /\ UNCHANGED <<srv, ran, flight, txUp, listening, batch>> /\ Outcome(code)
  BY DEF TakeAnswer, exchange
<1>2. pc # "idle"
  BY <1>1 DEF Waiting
<1>3. code = "ok" => ran[batch.b] = 1
  BY <1>1, AnswerTaken DEF OwnAnswers
<1>. HIDE DEF code
<1>4. Window'
  BY <1>1 DEF Window, Spent
<1>5. ~doubt /\ ran[batch.b] = 0 => batch.first = srv
  BY <1>2 DEF NoDoubt, Spent
<1>6. srv' \in Nonces /\ ran' \in [Batches -> 0..1]
  BY <1>1 DEF TxTypes
<1>7. pc' = "idle" /\ nonce' \in Nonces /\ NonceOfBatch' /\ NoDoubt'
  BY <1>1, <1>2, <1>3, <1>4, <1>5, <1>6, OutcomeKeeps
<1>8. TxTypes'
  BY <1>1, <1>7, AnswerTaken DEF TxTypes
<1>9. OwnAnswers'
  <2>1. pc' \notin Waiting
    BY <1>7 DEF Waiting
  <2>2. txUp => listening /\ Len(answers) = 1 /\ \A r \in flight : ~r.here
    BY <1>1 DEF OwnAnswers
  <2>3. txUp => Tail(answers) = <<>>
    BY <1>1, <2>2, AnswerTaken
  <2>. QED BY <1>1, <2>1, <2>2, <2>3 DEF OwnAnswers
<1>. QED BY <1>4, <1>7, <1>8, <1>9 DEF TxInv

\* The batch goes over REST instead.
LEMMA RestSendKeeps ==
    ASSUME TxInv, NEW code \in Codes, NEW raised \in BOOLEAN, RestSend(code, raised)
    PROVE  TxInv'
<1>. TxTypes /\ OwnAnswers /\ Window /\ NonceOfBatch /\ NoDoubt
  BY DEF TxInv
<1>. DEFINE r == Request(FALSE)
            heard == IF raised /\ code # "quota" THEN "raised" ELSE code
<1>1. /\ pc = "rest" /\ Judge(r, code) /\ Outcome(heard)
      /\ UNCHANGED <<flight, txUp, listening, answers, batch>>
  BY DEF RestSend, RestRequest, socket
<1>2. pc # "idle" /\ r \in Requests /\ SameOps(r, batch) /\ r.b = batch.b /\ r.first = batch.first
  BY <1>1, RequestOfBatch DEF SameOps
<1>. HIDE DEF r
<1>3. /\ srv' \in Nonces /\ ran' \in [Batches -> 0..1] /\ Window'
      /\ IF code = "ok" THEN /\ r.first = srv /\ ran'[r.b] = 1 /\ Spent' /\ ~Spent
                             /\ \A o \in flight' : o.first # srv'
         ELSE UNCHANGED <<srv, ran>>
      /\ ran[batch.b] = 1 => ran'[batch.b] = 1
  <2>1. flight' \subseteq flight
    BY <1>1
  <2>. QED BY <1>1, <1>2, <2>1, JudgeKeeps
<1>4. heard = "ok" => code = "ok"
  OBVIOUS
<1>. HIDE DEF heard
<1>5. heard = "ok" => ran'[batch.b] = 1
  BY <1>2, <1>3, <1>4
<1>6. ~doubt /\ ran'[batch.b] = 0 => batch.first = srv'
  <2>1. CASE code = "ok"
    BY <1>2, <1>3, <2>1
  <2>2. CASE code # "ok"
    BY <1>2, <1>3, <2>2 DEF NoDoubt, Spent
  <2>. QED BY <2>1, <2>2
<1>7. pc' = "idle" /\ nonce' \in Nonces /\ NonceOfBatch' /\ NoDoubt'
  BY <1>1, <1>2, <1>3, <1>5, <1>6, OutcomeKeeps
<1>8. TxTypes'
  BY <1>1, <1>3, <1>7 DEF TxTypes
<1>9. OwnAnswers'
  BY <1>1, <1>7 DEF OwnAnswers, Waiting
<1>. QED BY <1>3, <1>7, <1>8, <1>9 DEF TxInv

\* The channel is connected once more when the warmup is over.
LEMMA WarmupReconnectKeeps ==
    ASSUME TxInv, WarmupReconnect PROVE TxInv'
<1>. TxTypes /\ OwnAnswers /\ Window /\ NonceOfBatch /\ NoDoubt
  BY DEF TxInv
<1>1. pc \notin Waiting /\ UNCHANGED <<srv, ran, nonce, pc, batch, doubt>>
  BY DEF WarmupReconnect
<1>2. CASE txUp
  <2>1. UNCHANGED <<flight, txUp, listening, answers>>
    BY <1>2 DEF WarmupReconnect, socket
  <2>2. flight' \subseteq Requests /\ \A r \in flight' : r \in flight /\ SameOps(r, r)
    BY <2>1 DEF TxTypes, SameOps
  <2>3. Window' /\ NonceOfBatch' /\ NoDoubt'
    BY <1>1, <2>2, FlightMoves
  <2>4. TxTypes'
    BY <1>1, <2>1 DEF TxTypes
  <2>5. OwnAnswers'
    BY <1>1, <2>1 DEF OwnAnswers
  <2>. QED BY <2>3, <2>4, <2>5 DEF TxInv
<1>3. CASE ~txUp
  <2>1. flight' = Gone(flight) /\ (Connected \/ ConnectFails)
    BY <1>3 DEF WarmupReconnect
  <2>2. /\ flight' \subseteq Requests
        /\ \A r \in flight' : ~r.here /\ \E o \in flight : SameOps(r, o)
    BY <2>1, GoneRequests
  <2>3. Window' /\ NonceOfBatch' /\ NoDoubt'
    BY <1>1, <2>2, FlightMoves
  <2>4. /\ txUp' \in BOOLEAN /\ listening' \in BOOLEAN /\ answers' \in Seq(Answers)
        /\ txUp' => listening' /\ answers' = <<>>
    <3>1. CASE Connected
      <4>1. answers' = <<>>
        BY <3>1 DEF Connected, DrainedAnswers
      <4>2. answers' \in Seq(Answers)
        BY <4>1
      <4>3. txUp' /\ listening' /\ txUp' \in BOOLEAN /\ listening' \in BOOLEAN
        BY <3>1 DEF Connected
      <4>. QED BY <4>1, <4>2, <4>3
    <3>2. CASE ConnectFails
      BY <3>2 DEF ConnectFails, TxTypes
    <3>. QED BY <2>1, <3>1, <3>2
  <2>5. TxTypes'
    BY <1>1, <2>2, <2>4 DEF TxTypes
  <2>6. OwnAnswers'
    BY <1>1, <2>2, <2>4 DEF OwnAnswers
  <2>. QED BY <2>3, <2>5, <2>6 DEF TxInv
<1>. QED BY <1>2, <1>3

\* Every step keeps the invariant.
LEMMA TxKeeps ==
    ASSUME TxInv, [TxNext]_txVars PROVE TxInv'
<1>1. CASE Executed
  BY <1>1, ExecuteKeeps DEF Executed
<1>2. CASE Signs
  BY <1>2, SignKeeps DEF Signs
<1>3. CASE RestSends
  BY <1>3, RestSendKeeps DEF RestSends
<1>4. CASE UNCHANGED txVars
  <2>. USE DEF txVars, TxInv
  <2>1. UNCHANGED <<srv, ran, flight, nonce, txUp, listening, answers, pc, batch, doubt>>
    BY <1>4
  <2>2. TxTypes' /\ OwnAnswers'
    BY <2>1 DEF TxTypes, OwnAnswers, Request
  <2>3. Window' /\ NonceOfBatch' /\ NoDoubt'
    BY <2>1 DEF Window, NonceOfBatch, NoDoubt, Spent
  <2>. QED BY <2>2, <2>3
<1>. QED BY <1>1, <1>2, <1>3, <1>4, VanishKeeps, ConnectionLostKeeps, AnswerTimeoutKeeps,
           TakeLostKeeps, TakeAnswerKeeps, WarmupReconnectKeeps DEF TxNext

\* The invariant holds throughout.
LEMMA TxIsInv == TxSpec => []TxInv
<1>1. TxInit => TxInv
  BY TxStarts
<1>2. TxInv /\ [TxNext]_txVars => TxInv'
  BY TxKeeps
<1>. QED BY <1>1, <1>2, PTL DEF TxSpec

\* A batch is executed at most once, however often it was sent and whichever of its tries
\* were given up (TxWebSocket.send_batch and the REST fallback send what was signed once).
THEOREM BatchExecutedOnce == TxSpec => []ExecutedOnce
<1>1. TxInv => ExecutedOnce
  BY DEF TxInv, TxTypes, ExecutedOnce
<1>. QED BY <1>1, TxIsInv, PTL

\* What send_batch takes for an answer is a sentinel or the answer to its own batch.
THEOREM AnswerTakenIsOwn == TxSpec => []AnswerIsOwn
<1>1. TxInv => AnswerIsOwn
  <2>. SUFFICES ASSUME TxInv, pc \in Waiting, answers # <<>>
                PROVE  Head(answers) = Lost \/ Head(answers).b = batch.b
    BY DEF AnswerIsOwn
  <2>1. Head(answers) = answers[1] /\ 1 \in 1..Len(answers)
    BY AnswerTaken DEF TxInv
  <2>. QED BY <2>1 DEF TxInv, OwnAnswers
<1>. QED BY <1>1, TxIsInv, PTL

\* Between batches the SDK gives the nonce the exchange accepts next, except after the
\* readings and rollbacks that were made while a try might still be executed.
THEOREM NonceStaysInStep == TxSpec => []NonceInStep
<1>1. TxInv => NonceInStep
  BY DEF TxInv, NoDoubt, NonceInStep
<1>. QED BY <1>1, TxIsInv, PTL

-----------------------------------------------------------------------------
(* AccountFeed: the message that is taken for the list of open orders is one. *)

Places == {"none", "connect", "recv", "silent", "close", "ending", "backoff"}

AccountTypes ==
    /\ turn \in Tasks
    /\ task \in [Tasks -> Places]
    /\ told \in [Tasks -> BOOLEAN]
    /\ awire \in [Tasks -> Seq({"snapshot", "update"})]
    /\ broken \in [Tasks -> BOOLEAN]
    /\ ready \in BOOLEAN

\* The task of the token before is over; while no task is awaited, so is this one's.
OneTask ==
    /\ task[1 - turn] = "none"
    /\ outer \notin {"wait", "drain", "leave"} => task[turn] = "none"

\* As long as no message has been heard, the list comes first on the connection.
ListFirst ==
    ready = FALSE /\ task[turn] = "recv"
        => awire[turn] # <<>> /\ Head(awire[turn]) = "snapshot"

FeedTrust == AccountTypes /\ OneTask /\ ListFirst

\* The other task.
LEMMA OtherTurn == ASSUME NEW g \in Tasks PROVE 1 - g \in Tasks /\ 1 - g # g /\ 1 - (1 - g) = g
BY DEF Tasks

\* There are two tasks.
LEMMA TwoTasks == ASSUME NEW g \in Tasks, NEW k \in Tasks PROVE k = g \/ k = 1 - g
BY DEF Tasks

\* The invariant holds at the start.
LEMMA AccountStarts == AccountInit => FeedTrust
BY SMTT(30), OtherTurn DEF AccountInit, FeedTrust, AccountTypes, OneTask, ListFirst, Tasks, Places

\* A step of the task itself is a step of this token's, and keeps the list first if
\* it ends elsewhere than at recv, or there with a new connection.
LEMMA TaskMoves ==
    ASSUME FeedTrust, NEW g \in Tasks, task[g] # "none",
           NEW place \in Places, NEW messages \in Seq({"snapshot", "update"}),
           GoesTo(g, place, messages), told' \in [Tasks -> BOOLEAN],
           UNCHANGED <<outer, turn, ready>>,
           place = "recv" => messages # <<>> /\ Head(messages) = "snapshot"
    PROVE  FeedTrust'
<1>1. g = turn /\ turn \in Tasks /\ 1 - turn \in Tasks /\ 1 - turn # turn
  BY TwoTasks, OtherTurn DEF FeedTrust, AccountTypes, OneTask
<1>2. /\ task' = [task EXCEPT ![g] = place]
      /\ awire' = [awire EXCEPT ![g] = messages]
      /\ broken' = [broken EXCEPT ![g] = FALSE]
  BY DEF GoesTo
<1>3. AccountTypes'
  BY <1>2 DEF FeedTrust, AccountTypes
<1>4. OneTask'
  BY <1>1, <1>2 DEF FeedTrust, AccountTypes, OneTask
<1>5. task'[turn'] = place /\ awire'[turn'] = messages
  BY <1>1, <1>2 DEF FeedTrust, AccountTypes
<1>6. ListFirst'
  BY <1>5 DEF ListFirst
<1> QED
  BY <1>3, <1>4, <1>6 DEF FeedTrust

\* Only the flags of a cancellation or of the connection change.
LEMMA FlagsMove ==
    ASSUME FeedTrust, told' \in [Tasks -> BOOLEAN], broken' \in [Tasks -> BOOLEAN],
           UNCHANGED <<turn, task, awire, ready>>,
           outer' \notin {"wait", "drain", "leave"} => task[turn] = "none"
    PROVE  FeedTrust'
BY DEF FeedTrust, AccountTypes, OneTask, ListFirst

\* What ws_subscribe does, and what comes to its connection.
LEMMA SubscribeSteps ==
    ASSUME FeedTrust, NEW g \in Tasks,
           \/ Opened(g) \/ Hears(g) \/ Disconnected(g) \/ WatchdogFires(g)
           \/ Resumes(g) \/ CancelArrives(g) \/ OrderChanges(g) \/ Breaks(g)
    PROVE  FeedTrust'
<1> DEFINE Kinds == {"snapshot", "update"}
<1>0. /\ <<>> \in Seq(Kinds) /\ <<"snapshot">> \in Seq(Kinds)
      /\ <<"snapshot">> # <<>> /\ Head(<<"snapshot">>) = "snapshot"
      /\ Places = {"none", "connect", "recv", "silent", "close", "ending", "backoff"}
      /\ told \in [Tasks -> BOOLEAN]
  BY DEF Places, FeedTrust, AccountTypes
<1>1. CASE Opened(g)
  <2>1. task[g] # "none" /\ UNCHANGED <<told, outer, turn, ready>>
    BY <1>1 DEF Opened, Others
  <2>2. GoesTo(g, "recv", <<"snapshot">>) \/ GoesTo(g, "backoff", <<>>)
    BY <1>1 DEF Opened
  <2> QED
    BY <2>1, <2>2, <1>0, TaskMoves
<1>2. CASE Hears(g)
  <2>1. /\ awire[g] # <<>> /\ awire' = [awire EXCEPT ![g] = Tail(@)] /\ ready' = TRUE
        /\ UNCHANGED <<task, told, broken, outer, turn>>
    BY <1>2 DEF Hears, Others
  <2>2. Tail(awire[g]) \in Seq(Kinds)
    BY <2>1 DEF FeedTrust, AccountTypes
  <2> QED
    BY <2>1, <2>2 DEF FeedTrust, AccountTypes, OneTask, ListFirst
<1>3. CASE Disconnected(g)
  <2>1. task[g] # "none" /\ GoesTo(g, "backoff", <<>>) /\ UNCHANGED <<told, outer, turn, ready>>
    BY <1>3 DEF Disconnected, Others
  <2> QED
    BY <2>1, <1>0, TaskMoves
<1>4. CASE WatchdogFires(g)
  <2>1. task[g] # "none" /\ GoesTo(g, "silent", <<>>) /\ UNCHANGED <<told, outer, turn, ready>>
    BY <1>4 DEF WatchdogFires, Others
  <2> QED
    BY <2>1, <1>0, TaskMoves
<1>5. CASE Resumes(g)
  <2>1. task[g] # "none" /\ UNCHANGED <<told, outer, turn, ready>>
    BY <1>5 DEF Resumes, Others
  <2>2. GoesTo(g, "close", <<>>) \/ GoesTo(g, "connect", <<>>) \/ GoesTo(g, "none", <<>>)
    BY <1>5 DEF Resumes
  <2> QED
    BY <2>1, <2>2, <1>0, TaskMoves
<1>6. CASE CancelArrives(g)
  <2>1. task[g] # "none" /\ told' = [told EXCEPT ![g] = FALSE] /\ UNCHANGED <<outer, turn, ready>>
    BY <1>6 DEF CancelArrives, Others
  <2>2. \/ GoesTo(g, "none", <<>>) \/ GoesTo(g, "ending", <<>>)
        \/ GoesTo(g, "backoff", <<>>) \/ GoesTo(g, "close", <<>>)
    BY <1>6 DEF CancelArrives
  <2>3. told' \in [Tasks -> BOOLEAN]
    BY <2>1, <1>0
  <2> QED
    BY <2>1, <2>2, <2>3, <1>0, TaskMoves
<1>7. CASE OrderChanges(g)
  <2>1. /\ task[g] = "recv" /\ awire' = [awire EXCEPT ![g] = Append(@, "update")]
        /\ UNCHANGED <<task, told, broken, ready, outer, turn>>
    BY <1>7 DEF OrderChanges, Others
  <2>2. awire[g] \in Seq(Kinds) /\ g \in Tasks /\ turn \in Tasks
    BY DEF FeedTrust, AccountTypes
  <2>3. Append(awire[g], "update") \in Seq(Kinds)
    BY <2>2
  <2>4. awire[g] # <<>> => Head(Append(awire[g], "update")) = Head(awire[g])
    BY <2>2
  <2>5. Append(awire[g], "update") # <<>>
    BY <2>2
  <2>6. AccountTypes'
    BY <2>1, <2>3 DEF FeedTrust, AccountTypes
  <2>7. awire' \in [Tasks -> Seq(Kinds)] /\ awire'[g] = Append(awire[g], "update")
        /\ \A k \in Tasks \ {g} : awire'[k] = awire[k]
    BY <2>1, <2>3 DEF FeedTrust, AccountTypes
  <2>8. ListFirst'
    BY <2>1, <2>2, <2>4, <2>5, <2>7 DEF FeedTrust, ListFirst
  <2>9. OneTask'
    BY <2>1 DEF FeedTrust, OneTask
  <2> QED
    BY <2>6, <2>8, <2>9 DEF FeedTrust
<1>8. CASE Breaks(g)
  <2>1. /\ task[g] = "recv" /\ broken' = [broken EXCEPT ![g] = TRUE]
        /\ UNCHANGED <<task, told, awire, ready, outer, turn>>
    BY <1>8 DEF Breaks, Others
  <2>2. broken' \in [Tasks -> BOOLEAN]
    BY <2>1 DEF FeedTrust, AccountTypes
  <2> QED
    BY <2>1, <2>2 DEF FeedTrust, AccountTypes, OneTask, ListFirst
<1> QED
  BY <1>1, <1>2, <1>3, <1>4, <1>5, <1>6, <1>7, <1>8

\* A new task begins only where the one before is over.
LEMMA RenewStep ==
    ASSUME FeedTrust, outer \in {"start", "reconcile"}, Renew
    PROVE  FeedTrust'
<1>1. turn \in Tasks /\ 1 - turn \in Tasks /\ 1 - turn # turn /\ 1 - (1 - turn) = turn
  BY OtherTurn DEF FeedTrust, AccountTypes
<1>2. task[turn] = "none" /\ task[1 - turn] = "none"
  BY DEF FeedTrust, OneTask
<1>3. CASE outer' = "off" /\ UNCHANGED <<turn, ready, linkOf>>
  BY <1>2, <1>3 DEF FeedTrust, AccountTypes, OneTask, ListFirst, linkOf
<1>4. CASE /\ outer' = "wait" /\ turn' = 1 - turn /\ ready' = FALSE
           /\ task' = [task EXCEPT ![1 - turn] = "connect"]
           /\ UNCHANGED <<told, awire, broken>>
  <2>1. AccountTypes'
    BY <1>1, <1>4 DEF FeedTrust, AccountTypes, Places
  <2>2. task'[turn'] = "connect" /\ task'[1 - turn'] = "none"
    BY <1>1, <1>2, <1>4 DEF FeedTrust, AccountTypes
  <2>3. OneTask'
    BY <2>2, <1>4 DEF OneTask
  <2>4. ListFirst'
    BY <2>2 DEF ListFirst
  <2> QED
    BY <2>1, <2>3, <2>4 DEF FeedTrust
<1> QED
  BY <1>3, <1>4 DEF Renew

\* What subscribe_to_account_orders, main and the poller do.
LEMMA OuterSteps ==
    ASSUME FeedTrust,
           Start \/ StopTask("drain") \/ TaskEnded \/ RefreshReconciled \/ MainCancels \/ Polls
    PROVE  FeedTrust'
<1>0. turn \in Tasks /\ told \in [Tasks -> BOOLEAN] /\ broken \in [Tasks -> BOOLEAN]
  BY DEF FeedTrust, AccountTypes
<1>1. CASE Start \/ RefreshReconciled
  BY <1>1, RenewStep DEF Start, RefreshReconciled
<1>2. ASSUME NEW to \in {"drain", "leave"}, StopTask(to) PROVE FeedTrust'
  <2>1. /\ outer' = to /\ told' = [told EXCEPT ![turn] = TRUE]
        /\ UNCHANGED <<turn, task, awire, broken, ready>>
    BY <1>2 DEF StopTask
  <2>2. told' \in [Tasks -> BOOLEAN]
    BY <2>1, <1>0
  <2> QED
    BY <2>1, <2>2, <1>0, FlagsMove
<1>3. CASE TaskEnded
  BY <1>3, <1>0, FlagsMove DEF TaskEnded, Drained, linkOf
<1>4. CASE MainCancels
  <2>1. CASE StopTask("leave")
    BY <2>1, <1>2
  <2>2. CASE /\ outer \in {"drain", "leave"} /\ task[turn] # "none"
             /\ told' = [told EXCEPT ![turn] = TRUE]
             /\ UNCHANGED <<outer, turn, task, awire, broken, ready, poller>>
    <3>1. told' \in [Tasks -> BOOLEAN]
      BY <2>2, <1>0
    <3> QED
      BY <3>1, <2>2, <1>0, FlagsMove
  <2>3. CASE /\ outer \in {"start", "reconcile"} /\ outer' = "gone"
             /\ UNCHANGED <<turn, linkOf, ready, poller>>
    <3>1. task[turn] = "none"
      BY <2>3 DEF FeedTrust, OneTask
    <3> QED
      BY <3>1, <2>3, <1>0, FlagsMove DEF linkOf
  <2> QED
    BY <2>1, <2>2, <2>3, <1>4 DEF MainCancels
<1>5. CASE Polls
  BY <1>5 DEF Polls, linkOf, FeedTrust, AccountTypes, OneTask, ListFirst
<1> QED
  BY <1>1, <1>2, <1>3, <1>4, <1>5

\* Every step keeps the invariant.
LEMMA FeedSteps == FeedTrust /\ [AccountNext]_accountVars => FeedTrust'
<1> SUFFICES ASSUME FeedTrust, [AccountNext]_accountVars PROVE FeedTrust'
  OBVIOUS
<1>1. CASE UNCHANGED accountVars
  BY <1>1 DEF accountVars, FeedTrust, AccountTypes, OneTask, ListFirst
<1> QED
  BY <1>1, SubscribeSteps, OuterSteps DEF AccountNext

\* The message taken for the whole list of open orders is the list, for any number
\* of renewals, breaks, lost cancellations and messages under way.
THEOREM ListIsWhole == AccountSpec => SnapshotIsWhole
<1> DEFINE Whole == \A g \in Tasks : ~ready /\ Hears(g) => Head(awire[g]) = "snapshot"
<1>1. FeedTrust => Whole
  <2> SUFFICES ASSUME FeedTrust, NEW g \in Tasks, ~ready, Hears(g)
               PROVE  Head(awire[g]) = "snapshot"
    OBVIOUS
  <2>1. task[g] = "recv"
    BY DEF Hears
  <2>2. g = turn
    BY <2>1, TwoTasks DEF FeedTrust, AccountTypes, OneTask
  <2> QED
    BY <2>1, <2>2 DEF FeedTrust, AccountTypes, ListFirst
<1>2. FeedTrust /\ [AccountNext]_accountVars => FeedTrust' /\ [Whole]_accountVars
  BY <1>1, FeedSteps
<1> QED
  BY <1>2, AccountStarts, PTL DEF AccountSpec, SnapshotIsWhole
=============================================================================
