-------------------------- MODULE OperationsProofs --------------------------
(***************************************************************************)
(* Proofs about WalArchive, for any segment and log sizes and any numbers  *)
(* of timelines and deletions: what is said of the archive is right; and   *)
(* about SigningKeys, for any threads, tokens and keys and any cache life, *)
(* cooldown and timeout: a retired key stops verifying.                    *)
(***************************************************************************)
EXTENDS WalArchive, SigningKeys, TLAPS

-----------------------------------------------------------------------------
(* The WAL archive.                                                         *)

\* Quotient and remainder.
LEMMA DivMod ==
  ASSUME NEW d \in Nat \ {0}, NEW i \in Nat
  PROVE  /\ i \div d \in Nat /\ i % d \in 0..(d - 1)
         /\ i = (i \div d) * d + (i % d)
<1> DEFINE q == i \div d
           r == i % d
           p == q * d
<1>1. q \in Int /\ q >= 0
  OBVIOUS
<1>2. r \in 0..(d - 1)
  OBVIOUS
<1>3. r = i - p
  OBVIOUS
<1>4. p \in Int
  BY <1>1
<1> HIDE DEF p, q, r
<1>5. q \in Nat /\ r \in 0..(d - 1) /\ i = p + r
  BY <1>1, <1>2, <1>3, <1>4
<1> QED
  BY <1>5 DEF p, q, r

\* Multiples are a divisor apart.
LEMMA Multiples ==
  ASSUME NEW d \in Nat \ {0}, NEW x \in Int, NEW y \in Int, x < y
  PROVE  x * d \in Int /\ y * d \in Int /\ x * d + d <= y * d
<1> DEFINE e == y - x
<1>1. e \in Nat \ {0} /\ y = x + e
  OBVIOUS
<1> HIDE DEF e
<1>2. y * d = x * d + e * d
  BY <1>1
<1>3. e * d >= d
  BY <1>1
<1> QED
  BY <1>1, <1>2, <1>3

\* The order of two numbers is that of their quotients, then of their remainders.
LEMMA QuotientFirst ==
  ASSUME NEW d \in Nat \ {0}, NEW x \in Nat, NEW y \in Nat,
         NEW g \in 0..(d - 1), NEW h \in 0..(d - 1)
  PROVE  /\ x * d + g \in Nat
         /\ x * d + g < y * d + h <=> x < y \/ (x = y /\ g < h)
         /\ x * d + g = y * d + h <=> x = y /\ g = h
<1> DEFINE a == x * d
           b == y * d
<1>1. a \in Nat /\ b \in Nat
  OBVIOUS
<1>2. /\ x < y => a + d <= b
      /\ y < x => b + d <= a
      /\ x = y => a = b
  BY Multiples
<1> HIDE DEF a, b
<1>3. /\ a + g \in Nat
      /\ a + g < b + h <=> x < y \/ (x = y /\ g < h)
      /\ a + g = b + h <=> x = y /\ g = h
  BY <1>1, <1>2
<1> QED
  BY <1>3 DEF a, b

-----------------------------------------------------------------------------
(* Segments and their indexes.                                             *)

USE WaAssumption

\* The fields of a segment's name.
LEMMA SegmentFields ==
  ASSUME NEW s \in Segment
  PROVE  /\ s.timeline \in Nat /\ s.log \in Nat /\ s.segno \in 0..(SegsPerLog - 1)
         /\ IndexOf(s) \in Nat
<1>1. MaxSeg \in Nat /\ SegsPerLog \in Nat \ {0}
  OBVIOUS
<1>2. MaxSeg \div SegsPerLog \in Nat
  BY <1>1, DivMod, Zenon
<1>3. /\ s.timeline \in Nat /\ s.log \in Nat /\ s.segno \in 0..(SegsPerLog - 1)
  BY <1>2 DEF Segment
<1> QED
  BY <1>3 DEF IndexOf

\* The order of segments is that of their indexes.
LEMMA OrderIsIndexOrder ==
  ASSUME NEW s, s.log \in Nat, s.segno \in 0..(SegsPerLog - 1),
         NEW t, t.log \in Nat, t.segno \in 0..(SegsPerLog - 1)
  PROVE  /\ Before(s, t) <=> IndexOf(s) < IndexOf(t)
         /\ IndexOf(s) = IndexOf(t) <=> s.log = t.log /\ s.segno = t.segno
<1>1. /\ s.log \in Nat /\ s.segno \in 0..(SegsPerLog - 1)
      /\ t.log \in Nat /\ t.segno \in 0..(SegsPerLog - 1)
  OBVIOUS
<1> DEFINE x == s.log
           y == t.log
           g == s.segno
           h == t.segno
<1>2. /\ x \in Nat /\ g \in 0..(SegsPerLog - 1)
      /\ y \in Nat /\ h \in 0..(SegsPerLog - 1) /\ SegsPerLog \in Nat \ {0}
  BY <1>1
<1> HIDE DEF x, y, g, h
<1>3. /\ x * SegsPerLog + g < y * SegsPerLog + h <=> x < y \/ (x = y /\ g < h)
      /\ x * SegsPerLog + g = y * SegsPerLog + h <=> x = y /\ g = h
  BY <1>2, QuotientFirst
<1> QED
  BY <1>3, Zenon DEF Before, IndexOf, x, y, g, h

\* The same for archived segments.
LEMMA IndexOrder ==
  ASSUME NEW s \in Segment, NEW t \in Segment
  PROVE  /\ Before(s, t) <=> IndexOf(s) < IndexOf(t)
         /\ IndexOf(s) = IndexOf(t) <=> s.log = t.log /\ s.segno = t.segno
BY SegmentFields, OrderIsIndexOrder

\* The name of an index has that index.
LEMMA IndexOfSegmentAt ==
  ASSUME NEW t, NEW i \in Nat
  PROVE  /\ IndexOf(SegmentAt(t, i)) = i /\ SegmentAt(t, i).timeline = t
         /\ SegmentAt(t, i).segno \in 0..(SegsPerLog - 1)
<1>1. SegsPerLog \in Nat \ {0}
  OBVIOUS
<1>2. /\ i \div SegsPerLog \in Nat /\ i % SegsPerLog \in 0..(SegsPerLog - 1)
      /\ i = (i \div SegsPerLog) * SegsPerLog + (i % SegsPerLog)
  BY <1>1, DivMod, Zenon
<1> QED
  BY <1>2 DEF SegmentAt, IndexOf

\* The name of a completed segment.
LEMMA SegmentAtType ==
  ASSUME NEW t \in 1..MaxTimeline, NEW i \in 0..MaxSeg
  PROVE  SegmentAt(t, i) \in Segment
<1>0. i \in Nat /\ MaxSeg \in Nat /\ SegsPerLog \in Nat \ {0}
  OBVIOUS
<1>1. /\ i \div SegsPerLog \in Nat /\ i % SegsPerLog \in 0..(SegsPerLog - 1)
      /\ i = (i \div SegsPerLog) * SegsPerLog + (i % SegsPerLog)
  BY <1>0, DivMod, Zenon
<1>2. /\ MaxSeg \div SegsPerLog \in Nat /\ MaxSeg % SegsPerLog \in 0..(SegsPerLog - 1)
      /\ MaxSeg = (MaxSeg \div SegsPerLog) * SegsPerLog + (MaxSeg % SegsPerLog)
  BY <1>0, DivMod, Zenon
<1>3. i \div SegsPerLog <= MaxSeg \div SegsPerLog
  <2> DEFINE p == i \div SegsPerLog
             q == MaxSeg \div SegsPerLog
             g == i % SegsPerLog
             h == MaxSeg % SegsPerLog
  <2>1. /\ p \in Nat /\ q \in Nat /\ g \in 0..(SegsPerLog - 1) /\ h \in 0..(SegsPerLog - 1)
        /\ ~ (q * SegsPerLog + h < p * SegsPerLog + g)
    BY <1>1, <1>2
  <2> HIDE DEF p, q, g, h
  <2>2. ~ (q < p)
    BY <2>1, QuotientFirst
  <2>3. p <= q
    BY <2>1, <2>2
  <2> QED
    BY <2>3 DEF p, q
<1> QED
  BY <1>1, <1>2, <1>3 DEF SegmentAt, Segment

\* A segment is named by its timeline and index.
LEMMA SegmentAtIndexOf ==
  ASSUME NEW s \in Segment, NEW t, t = s.timeline, NEW i, i = IndexOf(s)
  PROVE  s = SegmentAt(t, i)
<1>1. /\ s.log \in Nat /\ s.segno \in 0..(SegsPerLog - 1) /\ i \in Nat
      /\ i = s.log * SegsPerLog + s.segno /\ SegsPerLog \in Nat \ {0}
  BY SegmentFields DEF IndexOf
<1>2. /\ i \div SegsPerLog \in Nat /\ i % SegsPerLog \in 0..(SegsPerLog - 1)
      /\ i = (i \div SegsPerLog) * SegsPerLog + (i % SegsPerLog)
  BY <1>1, DivMod, Zenon
<1>3. s.log = i \div SegsPerLog /\ s.segno = i % SegsPerLog
  <2> DEFINE x == s.log
             g == s.segno
             y == i \div SegsPerLog
             h == i % SegsPerLog
  <2>1. /\ x \in Nat /\ g \in 0..(SegsPerLog - 1)
        /\ y \in Nat /\ h \in 0..(SegsPerLog - 1)
        /\ x * SegsPerLog + g = y * SegsPerLog + h
    BY <1>1, <1>2
  <2> HIDE DEF x, y, g, h
  <2>2. x = y /\ g = h
    BY <2>1, QuotientFirst
  <2> QED
    BY <2>2 DEF x, y, g, h
<1>4. s = [timeline |-> s.timeline, log |-> s.log, segno |-> s.segno]
  BY DEF Segment
<1> QED
  BY <1>3, <1>4 DEF SegmentAt

\* The index of the segment that holds a position.
LEMMA IndexOfHolding ==
  ASSUME NEW lsn \in Nat
  PROVE  /\ SegmentHolding(lsn).log \in Nat
         /\ SegmentHolding(lsn).segno \in 0..(SegsPerLog - 1)
         /\ IndexOf(SegmentHolding(lsn)) = lsn \div SegBytes
<1> DEFINE per == SegBytes * SegsPerLog
           q == lsn \div per
           m == lsn % per
           g == m \div SegBytes
           o == m % SegBytes
<1>1. per \in Nat \ {0} /\ SegBytes \in Nat \ {0}
  OBVIOUS
<1> HIDE DEF per
<1>2. q \in Nat /\ m \in 0..(per - 1) /\ lsn = q * per + m
  BY <1>1, DivMod, Zenon
<1>3. g \in Nat /\ o \in 0..(SegBytes - 1) /\ m = g * SegBytes + o
  <2>1. m \in Nat
    BY <1>1, <1>2
  <2> HIDE DEF m
  <2> QED
    BY <1>1, <2>1, DivMod, Zenon
<1>4. SegmentHolding(lsn) = [log |-> q, segno |-> g]
  BY DEF SegmentHolding, per
<1> HIDE DEF q, m, g, o
<1>5. g \in 0..(SegsPerLog - 1)
  <2> SUFFICES ASSUME SegsPerLog <= g PROVE FALSE
    BY <1>3
  <2>1. SegsPerLog * SegBytes <= g * SegBytes
    BY <1>3, Multiples
  <2>2. g * SegBytes \in Nat /\ per = SegsPerLog * SegBytes
    BY <1>3 DEF per
  <2> QED
    BY <1>1, <1>2, <1>3, <2>1, <2>2
<1>6. lsn = (q * SegsPerLog + g) * SegBytes + o
  <2>1. q * per = (q * SegsPerLog) * SegBytes
    BY <1>2 DEF per
  <2>2. (q * SegsPerLog + g) * SegBytes = (q * SegsPerLog) * SegBytes + g * SegBytes
    BY <1>2, <1>3
  <2>3. q * per \in Nat /\ g * SegBytes \in Nat
    BY <1>1, <1>2, <1>3
  <2> QED
    BY <1>2, <1>3, <2>1, <2>2, <2>3
<1>7. /\ lsn \div SegBytes \in Nat /\ lsn % SegBytes \in 0..(SegBytes - 1)
      /\ lsn = (lsn \div SegBytes) * SegBytes + (lsn % SegBytes)
  BY <1>1, DivMod, Zenon
<1>8. q * SegsPerLog + g = lsn \div SegBytes
  <2>1. q * SegsPerLog + g \in Nat
    BY <1>2, <1>3
  <2> DEFINE x == q * SegsPerLog + g
             y == lsn \div SegBytes
             h == lsn % SegBytes
  <2>2. /\ x \in Nat /\ y \in Nat /\ h \in 0..(SegBytes - 1) /\ o \in 0..(SegBytes - 1)
        /\ x * SegBytes + o = y * SegBytes + h
    BY <1>3, <1>6, <1>7, <2>1
  <2> HIDE DEF x, y, h
  <2>3. x = y
    BY <2>2, QuotientFirst
  <2> QED
    BY <2>3 DEF x, y
<1> QED
  BY <1>2, <1>4, <1>5, <1>8 DEF IndexOf

-----------------------------------------------------------------------------
(* The holes of an inventory.                                              *)

\* Every segment between two archived ones of a timeline is archived.
Contiguous(inv) ==
  \A a, b \in inv : a.timeline = b.timeline =>
    \A i \in IndexOf(a)..IndexOf(b) : SegmentAt(a.timeline, i) \in inv

\* Neighbours in the archive, and what lies between them.
LEMMA Neighbours ==
  ASSUME NEW inv, inv \subseteq Segment, NEW a \in inv, NEW b \in inv
  PROVE  <<a, b>> \in Consecutive(inv) <=>
           /\ a.timeline = b.timeline /\ IndexOf(a) < IndexOf(b)
           /\ \A s \in inv : s.timeline = a.timeline =>
                ~ (IndexOf(a) < IndexOf(s) /\ IndexOf(s) < IndexOf(b))
<1>1. \A s, t \in inv : Before(s, t) <=> IndexOf(s) < IndexOf(t)
  BY IndexOrder
<1> QED
  BY <1>1, Zenon DEF Consecutive

\* Segments with neighbouring indexes are adjacent; adjacent ones of a log have them.
LEMMA AdjacentIndexes ==
  ASSUME NEW a \in Segment, NEW b \in Segment
  PROVE  /\ IndexOf(b) = IndexOf(a) + 1 => Adjacent(a, b)
         /\ a.log = b.log /\ Adjacent(a, b) => IndexOf(b) = IndexOf(a) + 1
<1> DEFINE x == a.log
           y == b.log
           g == a.segno
           h == b.segno
           p == x * SegsPerLog
           q == y * SegsPerLog
<1>1. /\ x \in Nat /\ y \in Nat /\ g \in 0..(SegsPerLog - 1) /\ h \in 0..(SegsPerLog - 1)
  BY SegmentFields
<1>2. p \in Int /\ q \in Int /\ IndexOf(a) = p + g /\ IndexOf(b) = q + h
  BY <1>1 DEF IndexOf
<1>3. /\ x = y => p = q
      /\ x < y => p + SegsPerLog <= q
      /\ y < x => q + SegsPerLog <= p
  BY <1>1, Multiples
<1>4. x + 1 < y => p + SegsPerLog + SegsPerLog <= q
  <2>1. x + 1 < y => (x + 1) * SegsPerLog + SegsPerLog <= q
    BY <1>1, Multiples
  <2>2. (x + 1) * SegsPerLog = p + SegsPerLog
    BY <1>1
  <2> HIDE DEF p, q, x, y
  <2> QED
    BY <2>1, <2>2
<1>5. Adjacent(a, b) <=> IF y = x THEN h = g + 1 ELSE y = x + 1 /\ h = 0
  BY DEF Adjacent
<1> HIDE DEF x, y, g, h, p, q
<1>6. q + h = p + g + 1 => IF y = x THEN h = g + 1 ELSE y = x + 1 /\ h = 0
  BY <1>1, <1>2, <1>3, <1>4
<1>7. x = y /\ (IF y = x THEN h = g + 1 ELSE y = x + 1 /\ h = 0) => q + h = p + g + 1
  BY <1>1, <1>2, <1>3
<1> QED
  BY <1>2, <1>5, <1>6, <1>7 DEF x, y

\* A contiguous archive has no hole.
LEMMA NoHoles ==
  ASSUME NEW inv, inv \subseteq Segment, Contiguous(inv), NEW sized \in BOOLEAN
  PROVE  Gaps(inv, sized) = {}
<1> SUFFICES ASSUME NEW p \in Consecutive(inv), ~ Adjacent(p[1], p[2]) PROVE FALSE
  BY DEF Gaps
<1>1. PICK a \in inv, b \in inv : p = <<a, b>>
  BY DEF Consecutive
<1>2. <<a, b>> \in Consecutive(inv) /\ ~ Adjacent(a, b) /\ a \in Segment /\ b \in Segment
  BY <1>1
<1>3. /\ a.timeline = b.timeline /\ IndexOf(a) < IndexOf(b)
      /\ \A s \in inv : s.timeline = a.timeline =>
                ~ (IndexOf(a) < IndexOf(s) /\ IndexOf(s) < IndexOf(b))
  BY <1>2, Neighbours
<1>4. IndexOf(a) \in Nat /\ IndexOf(b) \in Nat /\ IndexOf(b) # IndexOf(a) + 1
  BY <1>2, SegmentFields, AdjacentIndexes
<1> DEFINE i == IndexOf(a) + 1
           s == SegmentAt(a.timeline, i)
<1>5. i \in IndexOf(a)..IndexOf(b) /\ IndexOf(a) < i /\ i < IndexOf(b)
  BY <1>3, <1>4
<1>6. s \in inv
  BY <1>3, <1>5 DEF Contiguous
<1>7. IndexOf(s) = i /\ s.timeline = a.timeline
  BY <1>4, IndexOfSegmentAt
<1> QED
  BY <1>3, <1>5, <1>6, <1>7

-----------------------------------------------------------------------------
(* The archive and the reading of it.                                      *)

\* Every index up to that of an archived segment is archived, on some timeline.
Unbroken(inv) ==
  \A n \in inv : \A i \in 0..IndexOf(n) : \E s \in inv : IndexOf(s) = i

\* The archiver works behind everything it has archived, on the newest timeline.
ArchiverLeads == \A s \in archive : s.timeline <= timeline /\ IndexOf(s) < next

\* While no file is deleted, the archive has no holes, and the segment archived last
\* on the newest timeline is there.
NothingMissing ==
  deleted = 0 =>
    /\ Contiguous(archive)
    /\ check.pc = "listed" => Contiguous(check.inv)
    /\ \A s \in archive : s.timeline = timeline => SegmentAt(timeline, next - 1) \in archive

\* While no failover leaves a segment behind either, none before next is missing.
NothingBehind ==
  deleted = 0 /\ ~ backlog =>
    /\ \A i \in 0..(next - 1) : \E s \in archive : IndexOf(s) = i
    /\ check.pc = "listed" => Unbroken(check.inv)

WalInv == WaTypeOK /\ ArchiverLeads /\ NothingMissing /\ NothingBehind

\* A copied segment extends its timeline.
LEMMA ArchiveKeeps ==
  ASSUME WalInv, ArchiveSegment
  PROVE  WalInv'
<1> DEFINE new == SegmentAt(timeline, next)
<1>0. /\ timeline \in 1..MaxTimeline /\ next \in 0..MaxSeg /\ next \in Nat
      /\ current \in 0..MaxSeg /\ next < current
      /\ archive \subseteq Segment /\ archive' = archive \cup {new} /\ next' = next + 1
      /\ UNCHANGED <<timeline, current, deleted, backlog, check, walClock, failAt, dumpLsn>>
  BY DEF WalInv, WaTypeOK, ArchiveSegment, Attempt
<1>1. new \in Segment /\ IndexOf(new) = next /\ new.timeline = timeline
  BY <1>0, SegmentAtType, IndexOfSegmentAt
<1>a. new = SegmentAt(timeline, next' - 1)
  BY <1>0
<1>b. \A s \in archive : IndexOf(s) \in Nat /\ s.timeline \in Nat
  BY <1>0, SegmentFields
<1> HIDE DEF new
<1>2. WaTypeOK'
  <2> DEFINE last == (current + 1) * SegBytes - 1
  <2>1. /\ walClock \in 1..MaxWalTime /\ doneAt \in [0..MaxSeg -> 0..MaxWalTime]
        /\ failAt \in 0..walClock /\ dumpLsn \in -1..last /\ last' = last
        /\ deleted \in 0..MaxDeleted /\ backlog \in BOOLEAN
        /\ check.pc \in {"idle", "listed"}
        /\ check.pc # "idle" => check.inv \subseteq Segment
        /\ partial' = FALSE /\ okAt' = walClock /\ doneAt' = [doneAt EXCEPT ![next] = 0]
    BY <1>0 DEF WalInv, WaTypeOK, ArchiveSegment
  <2>2. /\ next' \in 0..current' /\ doneAt' \in [0..MaxSeg -> 0..MaxWalTime]
        /\ okAt' \in 0..walClock'
    <3> HIDE DEF last
    <3> QED
      BY <1>0, <2>1
  <2>3. dumpLsn' \in -1..((current' + 1) * SegBytes - 1)
    BY <1>0, <2>1, Zenon
  <2> HIDE DEF last
  <2> QED
    BY <1>0, <1>1, <2>1, <2>2, <2>3, Zenon DEF WaTypeOK
<1>3. ArchiverLeads'
  BY <1>0, <1>1, <1>b DEF WalInv, ArchiverLeads
<1>4. NothingMissing'
  <2> SUFFICES ASSUME deleted = 0 PROVE NothingMissing'
    BY <1>0 DEF NothingMissing
  <2>1. Contiguous(archive')
    <3> SUFFICES ASSUME NEW x \in archive', NEW y \in archive', x.timeline = y.timeline,
                        NEW i \in IndexOf(x)..IndexOf(y)
                 PROVE  SegmentAt(x.timeline, i) \in archive'
      BY DEF Contiguous
    <3>1. IndexOf(x) \in Nat /\ IndexOf(y) \in Nat /\ i \in Nat
      BY <1>0, <1>1, <1>b
    <3>2. CASE x \in archive /\ y \in archive
      BY <1>0, <3>2 DEF WalInv, NothingMissing, Contiguous
    <3>3. CASE x = new
      <4>1. i = next
        BY <1>0, <1>1, <3>1, <3>3 DEF WalInv, ArchiverLeads
      <4> QED
        BY <1>0, <1>1, <3>3, <4>1 DEF new
    <3>4. CASE x \in archive /\ y = new
      <4>1. SegmentAt(timeline, next - 1) \in archive /\ x.timeline = timeline
        BY <1>1, <3>4 DEF WalInv, NothingMissing
      <4>2. next - 1 \in Nat /\ IndexOf(SegmentAt(timeline, next - 1)) = next - 1
            /\ SegmentAt(timeline, next - 1).timeline = timeline
        <5>1. next - 1 \in Nat
          BY <1>0, <3>1, <3>4 DEF WalInv, ArchiverLeads
        <5> QED
          BY <5>1, IndexOfSegmentAt
      <4>3. CASE i = next
        BY <1>0, <4>1, <4>3 DEF new
      <4>4. CASE i # next
        <5>1. i \in IndexOf(x)..IndexOf(SegmentAt(timeline, next - 1))
          BY <1>0, <1>1, <3>1, <3>4, <4>2, <4>4
        <5>2. SegmentAt(x.timeline, i) \in archive
          BY <3>4, <4>1, <4>2, <5>1 DEF WalInv, NothingMissing, Contiguous
        <5> QED
          BY <1>0, <5>2
      <4> QED
        BY <4>3, <4>4
    <3> QED
      BY <1>0, <3>2, <3>3, <3>4
  <2> QED
    BY <1>0, <1>a, <2>1 DEF WalInv, NothingMissing
<1>5. NothingBehind'
  <2> SUFFICES ASSUME deleted = 0 /\ ~ backlog PROVE NothingBehind'
    BY <1>0 DEF NothingBehind
  <2>1. \A i \in 0..(next' - 1) : \E s \in archive' : IndexOf(s) = i
    BY <1>0, <1>1 DEF WalInv, NothingBehind
  <2> QED
    BY <1>0, <2>1 DEF WalInv, NothingBehind
<1> QED
  BY <1>2, <1>3, <1>4, <1>5 DEF WalInv

\* The new timeline starts where the old one was being written.
LEMMA FailoverKeeps ==
  ASSUME WalInv, Failover
  PROVE  WalInv'
<1>0. /\ timeline \in 1..MaxTimeline /\ next \in 0..current /\ current \in 0..MaxSeg
      /\ archive \subseteq Segment /\ next' = current /\ timeline' = timeline + 1
      /\ timeline < MaxTimeline /\ backlog' = (backlog \/ next < current)
      /\ UNCHANGED <<walClock, current, archive, partial, dumpLsn, deleted, check>>
  BY DEF WalInv, WaTypeOK, Failover
<1>1. WaTypeOK'
  <2> DEFINE last == (current + 1) * SegBytes - 1
  <2>1. /\ walClock \in 1..MaxWalTime /\ dumpLsn \in -1..last /\ last' = last
        /\ deleted \in 0..MaxDeleted /\ backlog \in BOOLEAN /\ partial \in BOOLEAN
        /\ check.pc \in {"idle", "listed"}
        /\ check.pc # "idle" => check.inv \subseteq Segment
        /\ okAt' = 0 /\ failAt' = 0 /\ doneAt' = [i \in 0..MaxSeg |-> 0]
    BY <1>0 DEF WalInv, WaTypeOK, Failover
  <2>2. dumpLsn' \in -1..((current' + 1) * SegBytes - 1)
    BY <1>0, <2>1, Zenon
  <2> HIDE DEF last
  <2>3. /\ next' \in 0..current' /\ doneAt' \in [0..MaxSeg -> 0..MaxWalTime]
        /\ okAt' \in 0..walClock' /\ failAt' \in 0..walClock'
        /\ timeline' \in 1..MaxTimeline /\ backlog' \in BOOLEAN
    BY <1>0, <2>1
  <2> QED
    BY <1>0, <2>1, <2>2, <2>3 DEF WaTypeOK
<1>2. \A s \in archive : IndexOf(s) \in Nat /\ s.timeline \in Nat
  BY <1>0, SegmentFields
<1>3. ArchiverLeads'
  BY <1>0, <1>2 DEF WalInv, ArchiverLeads
<1>4. NothingMissing'
  BY <1>0, <1>2 DEF WalInv, NothingMissing, ArchiverLeads
<1>5. NothingBehind'
  <2>1. ~ backlog' => ~ backlog /\ ~ (next < current)
    BY <1>0, Zenon
  <2>2. ~ backlog' => next' = next
    BY <1>0, <2>1
  <2> QED
    BY <1>0, <2>1, <2>2 DEF WalInv, NothingBehind
<1> QED
  BY <1>1, <1>3, <1>4, <1>5 DEF WalInv

\* The directory is listed: what it holds is read as it is.
LEMMA ReadKeeps ==
  ASSUME WalInv, ReadInventory
  PROVE  WalInv'
<1>0. /\ check' = [pc |-> "listed", inv |-> archive, partial |-> partial]
      /\ UNCHANGED <<walClock, timeline, current, doneAt, next, okAt, failAt, archive,
                     partial, dumpLsn, deleted, backlog>>
  BY DEF ReadInventory
<1>1. check'.pc = "listed" /\ check'.inv = archive
  BY <1>0
<1>2. WaTypeOK' /\ ArchiverLeads' /\ NothingMissing'
  BY <1>0, <1>1 DEF WalInv, WaTypeOK, ArchiverLeads, NothingMissing
<1>3. NothingBehind'
  <2> SUFFICES ASSUME deleted = 0 /\ ~ backlog PROVE NothingBehind'
    BY <1>0 DEF NothingBehind
  <2>1. Unbroken(archive)
    <3> SUFFICES ASSUME NEW n \in archive, NEW i \in 0..IndexOf(n)
                 PROVE  \E s \in archive : IndexOf(s) = i
      BY DEF Unbroken
    <3>1. IndexOf(n) \in Nat /\ IndexOf(n) < next /\ next \in Nat
      BY SegmentFields DEF WalInv, WaTypeOK, ArchiverLeads
    <3>2. i \in 0..(next - 1)
      BY <3>1
    <3> QED
      BY <3>2 DEF WalInv, NothingBehind
  <2> QED
    BY <1>0, <1>1, <2>1 DEF WalInv, NothingBehind
<1> QED
  BY <1>2, <1>3 DEF WalInv

\* What the other steps leave alone.
LEMMA QuietKeeps ==
  ASSUME WalInv, WaTypeOK',
         UNCHANGED <<timeline, next, archive, deleted, backlog>>,
         check' = check \/ check'.pc = "idle"
  PROVE  WalInv'
BY DEF WalInv, ArchiverLeads, NothingMissing, NothingBehind

\* A deletion is counted, which is all the invariant asks.
LEMMA DeleteKeeps ==
  ASSUME WalInv, DeleteSegment
  PROVE  WalInv'
<1>1. /\ deleted' = deleted + 1 /\ archive' \subseteq archive /\ deleted \in 0..MaxDeleted
      /\ deleted < MaxDeleted
      /\ UNCHANGED <<walClock, timeline, current, doneAt, next, okAt, failAt, partial,
                     dumpLsn, backlog, check>>
  BY DEF WalInv, WaTypeOK, DeleteSegment
<1>2. deleted' \in 0..MaxDeleted /\ deleted' # 0
  BY <1>1
<1>3. WaTypeOK'
  BY <1>1, <1>2 DEF WalInv, WaTypeOK
<1> QED
  BY <1>1, <1>2, <1>3 DEF WalInv, ArchiverLeads, NothingMissing, NothingBehind

\* The steps that touch neither archive nor reading keep the types.
LEMMA WalTypeKept ==
  ASSUME WalInv, \/ WalTick \/ CompleteSegment \/ FailArchive \/ TakeDump \/ Exit
  PROVE  WaTypeOK'
<1> DEFINE last == (current + 1) * SegBytes - 1
<1>0. /\ walClock \in 1..MaxWalTime /\ timeline \in 1..MaxTimeline /\ current \in 0..MaxSeg
      /\ next \in 0..current /\ doneAt \in [0..MaxSeg -> 0..MaxWalTime]
      /\ okAt \in 0..walClock /\ failAt \in 0..walClock
      /\ archive \subseteq Segment /\ partial \in BOOLEAN
      /\ dumpLsn \in -1..last
      /\ deleted \in 0..MaxDeleted /\ backlog \in BOOLEAN
      /\ check.pc \in {"idle", "listed"}
      /\ check.pc # "idle" => check.inv \subseteq Segment
  BY DEF WalInv, WaTypeOK
<1>1. /\ current * SegBytes \in Nat /\ last = current * SegBytes + SegBytes - 1
      /\ (current + 1 + 1) * SegBytes - 1 = last + SegBytes
  BY <1>0
<1> HIDE DEF last
<1>2. CASE WalTick \/ FailArchive \/ Exit
  <2>1. UNCHANGED <<current, dumpLsn>>
    BY <1>2, ZenonT(40) DEF WalTick, FailArchive, Exit
  <2>2. dumpLsn' \in -1..((current' + 1) * SegBytes - 1)
    BY <1>0, <2>1, Zenon DEF last
  <2>3. CASE WalTick
    BY <1>0, <2>1, <2>2, <2>3 DEF WalTick, WaTypeOK
  <2>4. CASE FailArchive
    <3>1. partial' \in BOOLEAN
      BY <1>0, <2>4, Zenon DEF FailArchive
    <3>2. /\ failAt' = walClock
          /\ UNCHANGED <<walClock, timeline, doneAt, next, okAt, archive, deleted, backlog,
                         check>>
      BY <2>4 DEF FailArchive
    <3> QED
      BY <1>0, <2>1, <2>2, <3>1, <3>2 DEF WaTypeOK
  <2>5. CASE Exit
    BY <1>0, <2>1, <2>2, <2>5 DEF Exit, WaTypeOK, NoReading
  <2> QED
    BY <1>2, <2>3, <2>4, <2>5
<1>3. CASE CompleteSegment
  <2>1. /\ current < MaxSeg /\ current' = current + 1
        /\ doneAt' = [doneAt EXCEPT ![current] = walClock]
        /\ UNCHANGED <<walClock, timeline, next, okAt, failAt, archive, partial, dumpLsn,
                       deleted, backlog, check>>
    BY <1>3 DEF CompleteSegment
  <2>2. (current' + 1) * SegBytes - 1 = last + SegBytes
    BY <1>1, <2>1, Zenon
  <2>3. dumpLsn' \in -1..((current' + 1) * SegBytes - 1)
    <3> DEFINE now == (current' + 1) * SegBytes - 1
    <3>1. now = last + SegBytes
      BY <2>2
    <3> HIDE DEF now
    <3>2. dumpLsn' \in -1..now
      BY <1>0, <1>1, <2>1, <3>1
    <3> QED
      BY <3>2, Zenon DEF now
  <2>4. /\ current' \in 0..MaxSeg /\ next' \in 0..current'
        /\ doneAt' \in [0..MaxSeg -> 0..MaxWalTime]
    BY <1>0, <2>1
  <2> QED
    BY <1>0, <2>1, <2>3, <2>4 DEF WaTypeOK
<1>4. CASE TakeDump
  <2>1. /\ dumpLsn' \in (current * SegBytes)..(current * SegBytes + SegBytes - 1)
        /\ UNCHANGED <<walClock, timeline, current, doneAt, next, okAt, failAt, archive,
                       partial, deleted, backlog, check>>
    BY <1>4 DEF TakeDump
  <2>2. dumpLsn' \in -1..last
    BY <1>1, <2>1
  <2>3. dumpLsn' \in -1..((current' + 1) * SegBytes - 1)
    BY <2>1, <2>2, Zenon DEF last
  <2> QED
    BY <1>0, <2>1, <2>3 DEF WaTypeOK
<1> QED
  BY <1>2, <1>3, <1>4

\* The archiver leads the archive, what it passed is there unless a file was
\* deleted, and a reading is a past archive (WAL archiving as src/ observes it).
THEOREM WalInvariant == WaSpec => []WalInv
<1>1. WaInit => WalInv
  <2> SUFFICES ASSUME WaInit PROVE WalInv
    OBVIOUS
  <2>1. dumpLsn \in -1..((current + 1) * SegBytes - 1)
    BY DEF WaInit
  <2>2. WaTypeOK
    <3>1. /\ walClock \in 1..MaxWalTime /\ timeline \in 1..MaxTimeline
          /\ current \in 0..MaxSeg /\ next \in 0..current
          /\ doneAt \in [0..MaxSeg -> 0..MaxWalTime]
      BY DEF WaInit
    <3>2. /\ okAt \in 0..walClock /\ failAt \in 0..walClock
          /\ deleted \in 0..MaxDeleted /\ check.pc = "idle"
      BY DEF WaInit, NoReading
    <3>3. archive \subseteq Segment /\ partial \in BOOLEAN /\ backlog \in BOOLEAN
      BY Zenon DEF WaInit
    <3> QED
      BY <2>1, <3>1, <3>2, <3>3 DEF WaTypeOK
  <2>3. ArchiverLeads /\ NothingMissing /\ NothingBehind
    BY DEF WaInit, ArchiverLeads, NothingMissing, NothingBehind, Contiguous, NoReading
  <2> QED
    BY <2>2, <2>3 DEF WalInv
<1>2. WalInv /\ [WaNext]_waVars => WalInv'
  <2> SUFFICES ASSUME WalInv, [WaNext]_waVars PROVE WalInv'
    OBVIOUS
  <2>1. CASE WalTick \/ CompleteSegment \/ FailArchive \/ TakeDump \/ Exit
    <3>1. WaTypeOK'
      BY <2>1, WalTypeKept
    <3>2. /\ UNCHANGED <<timeline, next, archive, deleted, backlog>>
          /\ check' = check \/ check'.pc = "idle"
      <4>1. CASE WalTick \/ FailArchive
        BY <4>1, Zenon DEF WalTick, FailArchive
      <4>2. CASE CompleteSegment \/ TakeDump
        BY <4>2 DEF CompleteSegment, TakeDump
      <4>3. CASE Exit
        BY <4>3 DEF Exit, NoReading
      <4> QED
        BY <2>1, <4>1, <4>2, <4>3
    <3> QED
      BY <3>1, <3>2, QuietKeeps
  <2>2. CASE UNCHANGED waVars
    <3>1. WaTypeOK'
      BY <2>2 DEF waVars, WalInv, WaTypeOK
    <3> QED
      BY <2>2, <3>1, QuietKeeps DEF waVars
  <2> QED
    BY <2>1, <2>2, ArchiveKeeps, FailoverKeeps, ReadKeeps, DeleteKeeps, Zenon DEF WaNext
<1> QED
  BY <1>1, <1>2, PTL DEF WaSpec

\* An archive said to reach the newest dump can roll it forward.
THEOREM CoverageRollsForward == WaSpec => []CoveredRollsForward
<1>1. WalInv => CoveredRollsForward
  <2> SUFFICES ASSUME WalInv, deleted = 0, ~ backlog, NEW r \in Reports,
                      CoverageOf(r) = "ok", NEW n \in LastSegment(r.inv)
               PROVE  /\ r.dumpLsn \div SegBytes <= IndexOf(n)
                      /\ \A i \in (r.dumpLsn \div SegBytes)..IndexOf(n) :
                           \E s \in r.inv : IndexOf(s) = i
    BY Zenon DEF CoveredRollsForward, RollsForward
  <2>1. check.pc = "listed" /\ r.inv = check.inv /\ r.dumpLsn = dumpLsn
    BY DEF Reports, Report
  <2>2. r.inv \subseteq Segment /\ Unbroken(r.inv) /\ dumpLsn \in Int
    <3>1. dumpLsn \in Int
      BY DEF WalInv, WaTypeOK
    <3> QED
      BY <2>1, <3>1 DEF WalInv, WaTypeOK, NothingBehind
  <2>3. PICK last \in LastSegment(r.inv) : ~ Before(last, SegmentHolding(r.dumpLsn))
    BY DEF CoverageOf
  <2>4. r.dumpLsn \in Nat
    BY <2>1, <2>2 DEF CoverageOf
  <2>5. n \in r.inv /\ last \in r.inv /\ n \in Segment /\ last \in Segment
    BY <2>2 DEF LastSegment
  <2>6. IndexOf(n) = IndexOf(last)
    BY <2>5, SegmentFields, IndexOrder DEF LastSegment
  <2> DEFINE held == SegmentHolding(r.dumpLsn)
             at == r.dumpLsn \div SegBytes
  <2>7. /\ held.log \in Nat /\ held.segno \in 0..(SegsPerLog - 1) /\ IndexOf(held) = at
    BY <2>4, IndexOfHolding
  <2>8. at \in Nat
    BY <2>4, DivMod
  <2> HIDE DEF held, at
  <2>9. at <= IndexOf(last)
    <3>1. ~ (IndexOf(last) < IndexOf(held)) /\ IndexOf(last) \in Nat
      BY <2>3, <2>5, <2>7, SegmentFields, OrderIsIndexOrder DEF held
    <3> QED
      BY <2>7, <2>8, <3>1
  <2> QED
    BY <2>2, <2>5, <2>6, <2>8, <2>9 DEF Unbroken, at
<1> QED
  BY <1>1, WalInvariant, PTL

-----------------------------------------------------------------------------
(* The signing keys.                                                        *)

\* The cached set was current at most one call before it was fetched.
CacheOK ==
  /\ jwks \in [keys : SUBSET Kids, fetched : Int, lastUnknown : Int,
               lock : Threads \cup {Nobody}]
  /\ jwks.fetched <= skNow
  /\ \A k \in jwks.keys : retiredAt[k] >= jwks.fetched - Timeout

\* What a thread holds: a call that has not timed out, an answer that was
\* current after it was asked for, a key that was good long enough.
CheckOK(c) ==
  /\ c.start <= skNow
  /\ c.pc \in {"fetch", "fetched"} => c.asked <= skNow /\ skNow <= c.asked + Timeout
  /\ c.pc = "fetched" => \A k \in c.keys : retiredAt[k] >= c.asked
  /\ c.pc \in {"claims", "verified"} =>
       retiredAt[KidOf[c.token]] > c.start - (JwksCache + Timeout)

\* A key the issuer publishes is not retired.
IssuerOK == \A k \in published : retiredAt[k] = Never

\* The inductive invariant.
SkInv == SkTypeOK /\ CacheOK /\ IssuerOK /\ \A r \in Threads : CheckOK(checks[r])

-----------------------------------------------------------------------------
\* The constants, as the provers want them.
LEMMA ConstantTypes ==
  /\ JwksCache \in Nat /\ JwksCache > 0 /\ Timeout \in Nat /\ Timeout > 0
  /\ Cooldown \in Nat /\ MaxSkTime \in Nat /\ Never \in Nat /\ Never > MaxSkTime
  /\ LongAgo \in Int /\ LongAgo <= 0
BY SigningKeysAssumption DEF Never, LongAgo

\* A check that has not begun.
LEMMA NoCheckOK == NoCheck \in Check /\ NoCheck.pc = "idle" /\ NoCheck.start = 0
<1>1. (CHOOSE t \in Tokens : TRUE) \in Tokens
  BY SigningKeysAssumption
<1> QED
  BY <1>1, ConstantTypes DEF NoCheck, Check, Times

\* A check with some of its fields replaced.
LEMMA Replaced ==
  ASSUME NEW c \in Check, NEW at \in Times,
         NEW pc \in {"claims", "verified", "fetch"}
  PROVE  /\ [c EXCEPT !.pc = pc, !.asked = at] \in Check
         /\ [c EXCEPT !.pc = pc, !.asked = at, !.keys = {}] \in Check
BY Zenon DEF Check

\* A refused check makes no claim.
LEMMA RefuseOK ==
  ASSUME NEW r \in Threads, SkInv, Refuse(r)
  PROVE  \E n \in Check : /\ checks' = [checks EXCEPT ![r] = n]
                          /\ CheckOK(n) /\ n.pc = "refused"
<1> DEFINE n == [NoCheck EXCEPT !.pc = "refused"]
<1>1. n \in Check /\ n.pc = "refused" /\ n.start = 0
  BY NoCheckOK DEF Check
<1>2. skNow \in Nat
  BY DEF SkInv, SkTypeOK, Times
<1>3. checks' = [checks EXCEPT ![r] = n]
  BY DEF Refuse
<1> HIDE DEF n
<1>4. CheckOK(n)
  BY <1>1, <1>2 DEF CheckOK
<1> QED
  BY <1>1, <1>3, <1>4, Zenon

\* A check that moves on keeps its token and its start.
LEMMA ToOK ==
  ASSUME NEW r \in Threads, SkInv, NEW pc \in {"claims", "verified"}, To(r, pc),
         retiredAt[Kid(r)] > checks[r].start - (JwksCache + Timeout)
  PROVE  \E n \in Check : /\ checks' = [checks EXCEPT ![r] = n]
                          /\ CheckOK(n) /\ n.pc = pc
<1> DEFINE n == [checks[r] EXCEPT !.pc = pc, !.asked = 0, !.keys = {}]
<1>1. checks[r] \in Check /\ checks \in [Threads -> Check]
  BY DEF SkInv, SkTypeOK
<1>2. n \in Check /\ n.pc = pc /\ n.token = checks[r].token
      /\ n.start = checks[r].start
  <2>1. 0 \in Times
    BY ConstantTypes DEF Times
  <2>2. n \in Check
    BY <1>1, <2>1, Replaced, Zenon
  <2> QED
    BY <1>1, <2>2 DEF Check
<1>3. checks' = [checks EXCEPT ![r] = n]
  BY DEF To
<1>4. checks[r].start <= skNow
  BY DEF SkInv, CheckOK
<1> HIDE DEF n
<1>5. CheckOK(n)
  BY <1>2, <1>4 DEF CheckOK, Kid
<1> QED
  BY <1>2, <1>3, <1>5, Zenon

\* A step of one thread that leaves the issuer and the clock alone keeps the
\* invariant if its own check and the cache are right.
LEMMA OneThread ==
  ASSUME NEW r \in Threads, SkInv, NEW n \in Check, CheckOK(n),
         checks' = [checks EXCEPT ![r] = n],
         UNCHANGED <<published, retiredAt, skNow>>, CacheOK',
         n.pc \in {"fetch", "fetched"} <=> jwks'.lock = r,
         \A q \in Threads \ {r} : jwks'.lock = q <=> jwks.lock = q
  PROVE  SkInv'
<1>1. checks' \in [Threads -> Check]
  BY DEF SkInv, SkTypeOK
<1>2. checks'[r] = n /\ \A q \in Threads \ {r} : checks'[q] = checks[q]
  BY DEF SkInv, SkTypeOK
<1>3. SkTypeOK'
  BY <1>1, <1>2 DEF SkInv, SkTypeOK
<1>4. IssuerOK'
  BY DEF SkInv, IssuerOK
<1>5. ASSUME NEW q \in Threads PROVE CheckOK(checks[q])'
  <2>1. CheckOK(checks'[q])
    BY <1>2 DEF SkInv
  <2> QED
    BY <2>1 DEF CheckOK
<1> QED
  BY <1>3, <1>4, <1>5 DEF SkInv

\* The cache is right after a step that leaves it and the clock alone.
LEMMA SameCache ==
  ASSUME SkInv, UNCHANGED <<jwks, retiredAt, skNow>>
  PROVE  CacheOK'
BY DEF SkInv, CacheOK

-----------------------------------------------------------------------------
\* The steps of a thread.
LEMMA KeyForKeeps ==
  ASSUME NEW r \in Threads, SkInv, KeyFor(r)
  PROVE  SkInv'
<1>0. /\ checks[r] \in Check /\ skNow \in Nat /\ skNow <= MaxSkTime
      /\ checks[r].start \in Nat /\ checks[r].start <= skNow
      /\ jwks \in [keys : SUBSET Kids, fetched : Int, lastUnknown : Int,
                   lock : Threads \cup {Nobody}]
      /\ retiredAt \in [Kids -> 0..Never]
  BY ConstantTypes DEF SkInv, SkTypeOK, CacheOK, CheckOK, Check, Times
<1>1. /\ UNCHANGED <<published, retiredAt, skNow>>
      /\ checks[r].pc = "key" /\ jwks.lock = Nobody
  BY DEF KeyFor
<1>2. Nobody # r
  BY SigningKeysAssumption
<1>3. CASE KeyFresh(r) /\ To(r, "claims") /\ UNCHANGED jwks
  <2>1. retiredAt[Kid(r)] \in Int /\ retiredAt[Kid(r)] >= jwks.fetched - Timeout
    BY <1>0, <1>3, ConstantTypes DEF KeyFresh, SkInv, CacheOK
  <2>2. checks[r].start - jwks.fetched < JwksCache
    BY <1>3 DEF KeyFresh
  <2>3. retiredAt[Kid(r)] > checks[r].start - (JwksCache + Timeout)
    BY <1>0, <2>1, <2>2, ConstantTypes
  <2>4. PICK n \in Check : /\ checks' = [checks EXCEPT ![r] = n]
                           /\ CheckOK(n) /\ n.pc = "claims"
    BY <1>3, <2>3, ToOK
  <2>5. CacheOK'
    BY <1>1, <1>3, SameCache
  <2> QED
    BY <1>1, <1>2, <1>3, <2>4, <2>5, OneThread, Zenon
<1>4. CASE Refuse(r) /\ UNCHANGED jwks
  <2>1. PICK n \in Check : /\ checks' = [checks EXCEPT ![r] = n]
                           /\ CheckOK(n) /\ n.pc = "refused"
    BY <1>4, RefuseOK
  <2>2. CacheOK'
    BY <1>1, <1>4, SameCache
  <2> QED
    BY <1>1, <1>2, <1>4, <2>1, <2>2, OneThread, Zenon
<1>5. CASE /\ jwks' = [jwks EXCEPT !.lock = r,
                 !.lastUnknown = IF Unknown(r) THEN checks[r].start ELSE @]
           /\ checks' = [checks EXCEPT ![r] =
                           [@ EXCEPT !.pc = "fetch", !.asked = skNow]]
  <2> DEFINE n == [checks[r] EXCEPT !.pc = "fetch", !.asked = skNow]
  <2>1. n \in Check /\ n.pc = "fetch" /\ n.asked = skNow /\ n.start = checks[r].start
    <3>1. skNow \in Times
      BY DEF SkInv, SkTypeOK
    <3>2. n \in Check
      BY <1>0, <3>1, Replaced, Zenon
    <3> QED
      BY <1>0, <3>2 DEF Check
  <2>2. checks' = [checks EXCEPT ![r] = n]
    BY <1>5
  <2> HIDE DEF n
  <2>3. CheckOK(n)
    BY <1>0, <2>1, ConstantTypes DEF CheckOK
  <2>4. /\ jwks' \in [keys : SUBSET Kids, fetched : Int, lastUnknown : Int,
                      lock : Threads \cup {Nobody}]
        /\ jwks'.fetched = jwks.fetched /\ jwks'.keys = jwks.keys /\ jwks'.lock = r
    <3> DEFINE u == IF Unknown(r) THEN checks[r].start ELSE jwks.lastUnknown
    <3>1. u \in Int
      BY <1>0
    <3>2. jwks' = [jwks EXCEPT !.lock = r, !.lastUnknown = u]
      BY <1>5
    <3> HIDE DEF u
    <3>3. jwks' = [keys |-> jwks.keys, fetched |-> jwks.fetched,
                   lastUnknown |-> u, lock |-> r]
      BY <1>0, <3>2, Zenon
    <3> QED
      BY <1>0, <3>1, <3>3
  <2>5. CacheOK'
    BY <1>1, <2>4 DEF SkInv, CacheOK
  <2>6. \A q \in Threads \ {r} : jwks'.lock # q /\ jwks.lock # q
    BY <1>1, <2>4, SigningKeysAssumption
  <2> QED
    BY <1>1, <2>1, <2>2, <2>3, <2>4, <2>5, <2>6, OneThread, Zenon
<1> QED
  BY <1>3, <1>4, <1>5 DEF KeyFor

\* What the issuer publishes is current when it answers.
LEMMA IssuerKeysKeeps ==
  ASSUME NEW r \in Threads, SkInv, IssuerKeys(r)
  PROVE  SkInv'
<1> DEFINE n == [checks[r] EXCEPT !.pc = "fetched", !.keys = published]
<1>0. /\ checks[r] \in Check /\ checks[r].asked \in Times /\ CheckOK(checks[r])
      /\ published \in SUBSET Kids
  BY DEF SkInv, SkTypeOK, Check
<1>1. /\ n \in Check /\ n.pc = "fetched" /\ n.keys = published
      /\ n.asked = checks[r].asked /\ n.start = checks[r].start
  BY <1>0, Zenon DEF Check
<1>2. /\ checks' = [checks EXCEPT ![r] = n] /\ checks[r].pc = "fetch"
      /\ UNCHANGED <<published, retiredAt, jwks, skNow>>
  BY DEF IssuerKeys
<1> HIDE DEF n
<1>3. \A k \in published : retiredAt[k] >= n.asked
  BY <1>0, <1>1, ConstantTypes DEF SkInv, IssuerOK, Times
<1>4. CheckOK(n)
  BY <1>0, <1>1, <1>2, <1>3 DEF CheckOK
<1>5. CacheOK'
  BY <1>2, SameCache
<1>6. jwks.lock = r
  BY <1>2 DEF SkInv, SkTypeOK
<1> QED
  BY <1>1, <1>2, <1>4, <1>5, <1>6, OneThread, Zenon

\* The lock a fetching thread gives back becomes nobody's.
LEMMA Unlocks ==
  ASSUME NEW r \in Threads, jwks.lock = r, jwks'.lock = Nobody
  PROVE  jwks'.lock # r /\ \A q \in Threads \ {r} : jwks'.lock = q <=> jwks.lock = q
BY SigningKeysAssumption

\* A fetched set replaces the cached one at most one call after it was asked for.
LEMMA KeysArriveKeeps ==
  ASSUME NEW r \in Threads, SkInv, KeysArrive(r)
  PROVE  SkInv'
<1>0. /\ checks[r] \in Check /\ skNow \in Nat /\ CheckOK(checks[r])
      /\ checks[r].start \in Nat /\ checks[r].asked \in Nat
      /\ checks[r].keys \in SUBSET Kids /\ checks[r].token \in Tokens
      /\ jwks \in [keys : SUBSET Kids, fetched : Int, lastUnknown : Int,
                   lock : Threads \cup {Nobody}]
      /\ retiredAt \in [Kids -> 0..Never]
  BY ConstantTypes DEF SkInv, SkTypeOK, CacheOK, Check, Times
<1>1. /\ UNCHANGED <<published, retiredAt, skNow>>
      /\ checks[r].pc = "fetched"
  BY DEF KeysArrive
<1>2. /\ jwks' \in [keys : SUBSET Kids, fetched : Int, lastUnknown : Int,
                    lock : Threads \cup {Nobody}]
      /\ jwks'.fetched = skNow /\ jwks'.keys = checks[r].keys
      /\ jwks'.lock = Nobody
  <2>1. jwks' = [keys |-> checks[r].keys, fetched |-> skNow,
                 lastUnknown |-> jwks.lastUnknown, lock |-> Nobody]
    BY <1>0, Zenon DEF KeysArrive
  <2> QED
    BY <1>0, <2>1
<1>3. /\ skNow <= checks[r].asked + Timeout /\ checks[r].start <= skNow
      /\ \A k \in checks[r].keys : retiredAt[k] >= checks[r].asked
  BY <1>0, <1>1 DEF CheckOK
<1>4. \A k \in checks[r].keys : retiredAt[k] \in Int /\ retiredAt[k] >= skNow - Timeout
  BY <1>0, <1>3, ConstantTypes
<1>5. CacheOK'
  BY <1>0, <1>1, <1>2, <1>4 DEF CacheOK
<1>6. jwks.lock = r
  BY <1>1 DEF SkInv, SkTypeOK
<1>7. CASE Kid(r) \in checks[r].keys /\ To(r, "claims")
  <2>1. retiredAt[Kid(r)] > checks[r].start - (JwksCache + Timeout)
    BY <1>0, <1>3, <1>4, <1>7, ConstantTypes, SMTT(20)
  <2>2. PICK n \in Check : /\ checks' = [checks EXCEPT ![r] = n]
                           /\ CheckOK(n) /\ n.pc = "claims"
    BY <1>7, <2>1, ToOK
  <2> QED
    BY <1>1, <1>2, <1>5, <1>6, <2>2, Unlocks, OneThread, Zenon
<1>8. CASE Refuse(r)
  <2>1. PICK n \in Check : /\ checks' = [checks EXCEPT ![r] = n]
                           /\ CheckOK(n) /\ n.pc = "refused"
    BY <1>8, RefuseOK
  <2> QED
    BY <1>1, <1>2, <1>5, <1>6, <2>1, Unlocks, OneThread, Zenon
<1> QED
  BY <1>7, <1>8 DEF KeysArrive

\* A failed fetch leaves the cached set as it was.
LEMMA KeysFailKeeps ==
  ASSUME NEW r \in Threads, SkInv, KeysFail(r)
  PROVE  SkInv'
<1>1. /\ UNCHANGED <<published, retiredAt, skNow>>
      /\ checks[r].pc \in {"fetch", "fetched"} /\ jwks.lock = r
  BY DEF KeysFail, SkInv, SkTypeOK
<1>2. /\ jwks' \in [keys : SUBSET Kids, fetched : Int, lastUnknown : Int,
                    lock : Threads \cup {Nobody}]
      /\ jwks'.fetched = jwks.fetched /\ jwks'.keys = jwks.keys
      /\ jwks'.lock = Nobody
  BY DEF KeysFail, AfterFailure, SkInv, CacheOK
<1>3. CacheOK'
  BY <1>1, <1>2 DEF SkInv, CacheOK
<1>4. PICK n \in Check : /\ checks' = [checks EXCEPT ![r] = n]
                         /\ CheckOK(n) /\ n.pc = "refused"
  BY RefuseOK DEF KeysFail
<1> QED
  BY <1>1, <1>2, <1>3, <1>4, Unlocks, OneThread, Zenon

\* The claims decide about a key that was good long enough.
LEMMA CheckClaimsKeeps ==
  ASSUME NEW r \in Threads, SkInv, CheckClaims(r)
  PROVE  SkInv'
<1>1. /\ UNCHANGED <<published, retiredAt, jwks, skNow>>
      /\ checks[r].pc = "claims" /\ jwks.lock # r
  BY DEF CheckClaims, SkInv, SkTypeOK
<1>2. CacheOK'
  BY <1>1, SameCache
<1>3. CASE To(r, "verified")
  <2>1. retiredAt[Kid(r)] > checks[r].start - (JwksCache + Timeout)
    BY <1>1 DEF SkInv, CheckOK, Kid
  <2>2. PICK n \in Check : /\ checks' = [checks EXCEPT ![r] = n]
                           /\ CheckOK(n) /\ n.pc = "verified"
    BY <1>3, <2>1, ToOK
  <2> QED
    BY <1>1, <1>2, <2>2, OneThread, Zenon
<1>4. CASE Refuse(r)
  <2>1. PICK n \in Check : /\ checks' = [checks EXCEPT ![r] = n]
                           /\ CheckOK(n) /\ n.pc = "refused"
    BY <1>4, RefuseOK
  <2> QED
    BY <1>1, <1>2, <2>1, OneThread, Zenon
<1> QED
  BY <1>3, <1>4 DEF CheckClaims

\* A request begins now.
LEMMA StartVerifyKeeps ==
  ASSUME NEW r \in Threads, NEW t \in Tokens, SkInv, StartVerify(r, t)
  PROVE  SkInv'
<1> DEFINE n == [NoCheck EXCEPT !.pc = "key", !.token = t, !.start = skNow]
<1>1. skNow \in Times /\ skNow \in Int
  BY ConstantTypes DEF SkInv, SkTypeOK, Times
<1>2. n \in Check /\ n.pc = "key" /\ n.start = skNow
  BY <1>1, NoCheckOK, Zenon DEF Check
<1>3. /\ checks' = [checks EXCEPT ![r] = n]
      /\ UNCHANGED <<published, retiredAt, jwks, skNow>>
      /\ checks[r].pc \notin {"fetch", "fetched"}
  BY DEF StartVerify
<1> HIDE DEF n
<1>4. CheckOK(n)
  BY <1>1, <1>2 DEF CheckOK
<1>5. jwks.lock # r
  BY <1>3 DEF SkInv, SkTypeOK
<1>6. CacheOK'
  BY <1>3, SameCache
<1> QED
  BY <1>2, <1>3, <1>4, <1>5, <1>6, OneThread, Zenon

\* A key retired now was good until now.
LEMMA RetireKeyKeeps ==
  ASSUME NEW k \in Kids, SkInv, RetireKey(k)
  PROVE  SkInv'
<1>0. /\ skNow \in Nat /\ skNow <= MaxSkTime /\ skNow \in Times
      /\ retiredAt \in [Kids -> 0..Never] /\ published \in SUBSET Kids
      /\ checks \in [Threads -> Check]
      /\ jwks \in [keys : SUBSET Kids, fetched : Int, lastUnknown : Int,
                   lock : Threads \cup {Nobody}]
  BY ConstantTypes DEF SkInv, SkTypeOK, CacheOK, Times
<1>1. /\ published' = published \ {k}
      /\ retiredAt' = [retiredAt EXCEPT ![k] = skNow]
      /\ UNCHANGED <<jwks, checks, skNow>>
  BY DEF RetireKey
<1>2. retiredAt'[k] = skNow /\ \A q \in Kids \ {k} : retiredAt'[q] = retiredAt[q]
  BY <1>0, <1>1
<1>3. SkTypeOK'
  <2>1. skNow \in 0..Never
    BY <1>0, ConstantTypes
  <2>2. retiredAt' \in [Kids -> 0..Never]
    BY <1>0, <1>1, <2>1
  <2> QED
    BY <1>0, <1>1, <2>2 DEF SkInv, SkTypeOK
<1>4. IssuerOK'
  BY <1>0, <1>1, <1>2 DEF SkInv, IssuerOK
<1>5. CacheOK'
  <2>1. skNow >= jwks.fetched - Timeout
    BY <1>0, ConstantTypes DEF SkInv, CacheOK
  <2>2. \A q \in jwks.keys : retiredAt'[q] >= jwks.fetched - Timeout
    BY <1>0, <1>2, <2>1 DEF SkInv, CacheOK
  <2> QED
    BY <1>1, <2>2 DEF SkInv, CacheOK
<1>6. ASSUME NEW r \in Threads PROVE CheckOK(checks[r])'
  <2> DEFINE c == checks[r]
  <2>1. /\ c \in Check /\ c.start \in Nat /\ c.asked \in Nat /\ c.token \in Tokens
        /\ c.keys \in SUBSET Kids /\ CheckOK(c)
    BY <1>0 DEF SkInv, Check, Times
  <2>2. KidOf[c.token] \in Kids
    BY <2>1, SigningKeysAssumption
  <2> HIDE DEF c
  <2>3. c.pc = "fetched" => \A q \in c.keys : retiredAt'[q] >= c.asked
    BY <1>0, <1>2, <2>1 DEF CheckOK
  <2>4. skNow > c.start - (JwksCache + Timeout)
    BY <1>0, <2>1, ConstantTypes DEF CheckOK
  <2>5. c.pc \in {"claims", "verified"} =>
          retiredAt'[KidOf[c.token]] > c.start - (JwksCache + Timeout)
    BY <1>2, <2>1, <2>2, <2>4, Zenon DEF CheckOK
  <2>6. c' = c
    BY <1>1 DEF c
  <2> QED
    BY <1>1, <2>1, <2>3, <2>5, Zenon DEF CheckOK, c
<1> QED
  BY <1>3, <1>4, <1>5, <1>6 DEF SkInv

\* A key published now is not retired.
LEMMA PublishKeyKeeps ==
  ASSUME NEW k \in Kids, SkInv, PublishKey(k)
  PROVE  SkInv'
<1>1. SkTypeOK' /\ IssuerOK'
  BY DEF PublishKey, SkInv, SkTypeOK, IssuerOK
<1>2. CacheOK'
  BY DEF PublishKey, SkInv, CacheOK
<1>3. \A r \in Threads : CheckOK(checks[r])'
  BY DEF PublishKey, SkInv, CheckOK
<1> QED
  BY <1>1, <1>2, <1>3 DEF SkInv

\* Time goes on, not past the timeout of a call.
LEMMA TickKeeps ==
  ASSUME SkInv, SkTick
  PROVE  SkInv'
<1>0. /\ skNow \in Nat /\ skNow < MaxSkTime /\ skNow' = skNow + 1
      /\ UNCHANGED <<published, retiredAt, jwks, checks>>
      /\ jwks.fetched \in Int
  BY ConstantTypes DEF SkTick, SkInv, SkTypeOK, CacheOK, Times
<1>1. SkTypeOK' /\ IssuerOK'
  BY <1>0, ConstantTypes DEF SkInv, SkTypeOK, IssuerOK, Times
<1>2. CacheOK'
  BY <1>0 DEF SkInv, CacheOK
<1>3. ASSUME NEW r \in Threads PROVE CheckOK(checks[r])'
  <2>1. /\ checks[r].start \in Nat /\ checks[r].asked \in Nat /\ CheckOK(checks[r])
    BY DEF SkInv, SkTypeOK, Check, Times
  <2>2. checks[r].pc \in {"fetch", "fetched"} => skNow < checks[r].asked + Timeout
    BY DEF SkTick
  <2> QED
    BY <1>0, <2>1, <2>2, ConstantTypes DEF CheckOK
<1> QED
  BY <1>1, <1>2, <1>3 DEF SkInv

\* The initial state: nothing fetched, nothing retired, nobody asking.
LEMMA InitKeeps ==
  ASSUME SkInit
  PROVE  SkInv
<1>1. SkTypeOK
  <2>1. skNow \in Times /\ Never \in 0..Never
    BY ConstantTypes DEF SkInit, Times
  <2>2. checks \in [Threads -> Check]
    BY NoCheckOK DEF SkInit
  <2>3. retiredAt \in [Kids -> 0..Never]
    BY <2>1 DEF SkInit
  <2>4. \A r \in Threads : checks[r].pc = "idle" /\ jwks.lock # r
    BY NoCheckOK, SigningKeysAssumption, Zenon DEF SkInit
  <2> QED
    BY <2>1, <2>2, <2>3, <2>4 DEF SkInit, SkTypeOK
<1>2. CacheOK
  BY ConstantTypes DEF SkInit, CacheOK
<1>3. IssuerOK
  BY DEF SkInit, IssuerOK
<1>4. \A r \in Threads : CheckOK(checks[r])
  <2>1. \A r \in Threads : checks[r].pc = "idle" /\ checks[r].start = 0
    BY NoCheckOK, Zenon DEF SkInit
  <2>2. skNow = 0
    BY DEF SkInit
  <2>3. ASSUME NEW r \in Threads PROVE CheckOK(checks[r])
    <3>1. checks[r].start <= skNow
      BY <2>1, <2>2
    <3>2. checks[r].pc \notin {"fetch", "fetched", "claims", "verified"}
      BY <2>1
    <3> QED
      BY <3>1, <3>2 DEF CheckOK
  <2> QED
    BY <2>3, Zenon
<1> QED
  BY <1>1, <1>2, <1>3, <1>4 DEF SkInv

\* Every step keeps the invariant.
LEMMA NextKeeps ==
  ASSUME SkInv, [SkNext]_skVars
  PROVE  SkInv'
<1>1. CASE \E r \in Threads : ThreadStep(r)
  BY <1>1, KeyForKeeps, IssuerKeysKeeps, KeysArriveKeeps, KeysFailKeeps,
     CheckClaimsKeeps DEF ThreadStep
<1>2. CASE \E r \in Threads : \E t \in Tokens : StartVerify(r, t)
  BY <1>2, StartVerifyKeeps
<1>3. CASE \E k \in Kids : RetireKey(k) \/ PublishKey(k)
  BY <1>3, RetireKeyKeeps, PublishKeyKeeps
<1>4. CASE SkTick
  BY <1>4, TickKeeps
<1>5. CASE UNCHANGED skVars
  BY <1>5, Zenon DEF skVars, SkInv, SkTypeOK, CacheOK, IssuerOK, CheckOK
<1> QED
  BY <1>1, <1>2, <1>3, <1>4, <1>5 DEF SkNext

-----------------------------------------------------------------------------
\* The verifier's lock is held exactly by the thread that fetches (_key_for).
THEOREM LockIsFetching == SkSpec => []SkTypeOK
<1>1. SkInit => SkInv
  BY InitKeeps
<1>2. SkInv /\ [SkNext]_skVars => SkInv'
  BY NextKeeps
<1>3. SkInv => SkTypeOK
  BY DEF SkInv
<1> QED
  BY <1>1, <1>2, <1>3, PTL DEF SkSpec

\* A retired key verifies no request that began a cache life and a call after
\* its retirement (JwtJwksVerifier).
THEOREM RetirementBound == SkSpec => []RetiredKeysFade
<1>1. SkInit => SkInv
  BY InitKeeps
<1>2. SkInv /\ [SkNext]_skVars => SkInv'
  BY NextKeeps
<1>3. SkInv => RetiredKeysFade
  BY Zenon DEF SkInv, CheckOK, RetiredKeysFade, Kid
<1> QED
  BY <1>1, <1>2, <1>3, PTL DEF SkSpec

-----------------------------------------------------------------------------
(* Counting.                                                               *)

INSTANCE FiniteSetTheorems

-----------------------------------------------------------------------------
INSTANCE WellFoundedInduction

\* A nonempty set of naturals has a least element.
LEMMA LeastNatural ==
  ASSUME NEW S, S \subseteq Nat, S # {}
  PROVE  \E n \in S : \A m \in S : n <= m
<1>1. IsWellFoundedOn(OpToRel(<, Nat), Nat)
  BY NatLessThanWellFounded, Zenon
<1>2. PICK n \in S : \A m \in S : ~ (<<m, n>> \in OpToRel(<, Nat))
  BY <1>1, WFMin, Zenon
<1>3. \A m \in S : <<m, n>> \in OpToRel(<, Nat) <=> m < n
  BY DEF OpToRel
<1>4. \A m \in S : ~ (m < n)
  BY <1>2, <1>3, Zenon
<1>5. n \in Nat /\ \A m \in S : m \in Nat
  OBVIOUS
<1>6. \A m \in S : n <= m
  BY <1>4, <1>5
<1> QED
  BY <1>6

\* A hole is counted right: nothing between its ends is archived.
LEMMA HolesCounted ==
  ASSUME NEW inv, inv \subseteq Segment, NEW hole \in Gaps(inv, TRUE)
  PROVE  hole.missing > 0 /\ hole.missing = Cardinality(AbsentIn(inv, hole))
<1>1. PICK p \in Consecutive(inv) :
        /\ ~ Adjacent(p[1], p[2])
        /\ hole = [after |-> p[1], before |-> p[2],
                   missing |-> IndexOf(p[2]) - IndexOf(p[1]) - 1]
  BY DEF Gaps
<1>2. PICK a \in inv, b \in inv : p = <<a, b>>
  BY DEF Consecutive
<1>3. /\ <<a, b>> \in Consecutive(inv) /\ ~ Adjacent(a, b)
      /\ a \in Segment /\ b \in Segment
      /\ hole.after = a /\ hole.before = b
      /\ hole.missing = IndexOf(b) - IndexOf(a) - 1
  BY <1>1, <1>2
<1>4. /\ a.timeline = b.timeline /\ IndexOf(a) < IndexOf(b)
      /\ \A s \in inv : s.timeline = a.timeline =>
                ~ (IndexOf(a) < IndexOf(s) /\ IndexOf(s) < IndexOf(b))
  BY <1>3, Neighbours
<1>5. IndexOf(a) \in Nat /\ IndexOf(b) \in Nat /\ IndexOf(b) # IndexOf(a) + 1
  BY <1>3, SegmentFields, AdjacentIndexes
<1>6. AbsentIn(inv, hole) = (IndexOf(a) + 1)..(IndexOf(b) - 1)
  <2>1. \A i \in (IndexOf(a) + 1)..(IndexOf(b) - 1) : SegmentAt(a.timeline, i) \notin inv
    <3> SUFFICES ASSUME NEW i \in (IndexOf(a) + 1)..(IndexOf(b) - 1),
                        SegmentAt(a.timeline, i) \in inv
                 PROVE  FALSE
      OBVIOUS
    <3>1. i \in Nat /\ IndexOf(a) < i /\ i < IndexOf(b)
      BY <1>5
    <3>2. IndexOf(SegmentAt(a.timeline, i)) = i /\ SegmentAt(a.timeline, i).timeline = a.timeline
      BY <3>1, IndexOfSegmentAt
    <3> QED
      BY <1>4, <3>1, <3>2
  <2> QED
    BY <1>3, <2>1 DEF AbsentIn
<1>7. Cardinality((IndexOf(a) + 1)..(IndexOf(b) - 1)) = IndexOf(b) - IndexOf(a) - 1
  BY <1>4, <1>5, FS_Interval
<1> QED
  BY <1>3, <1>4, <1>5, <1>6, <1>7

\* The nearest archived segments on both sides of a missing one of the same log are
\* the ends of a reported hole.
LEMMA HolesFound ==
  ASSUME NEW inv, inv \subseteq Segment, NEW a \in inv, NEW b \in inv, NEW sized \in BOOLEAN,
         a.timeline = b.timeline, a.log = b.log, NEW i \in IndexOf(a)..IndexOf(b),
         SegmentAt(a.timeline, i) \notin inv
  PROVE  \E hole \in Gaps(inv, sized) :
           /\ hole.after.timeline = a.timeline
           /\ IndexOf(hole.after) < i /\ i < IndexOf(hole.before)
<1>1. IndexOf(a) \in Nat /\ IndexOf(b) \in Nat /\ i \in Nat
  BY SegmentFields
<1>2. \A s \in inv : s.timeline = a.timeline => IndexOf(s) # i /\ IndexOf(s) \in Nat
  BY SegmentAtIndexOf, SegmentFields
<1>3. IndexOf(a) < i /\ i < IndexOf(b)
  BY <1>1, <1>2
<1> DEFINE Below == {s \in inv : s.timeline = a.timeline /\ IndexOf(s) < i}
           Above == {s \in inv : s.timeline = a.timeline /\ i < IndexOf(s)}
<1>4. PICK x \in Below : \A s \in Below : IndexOf(s) <= IndexOf(x)
  <2> DEFINE D == {i - IndexOf(s) : s \in Below}
  <2>1. D \subseteq Nat /\ D # {}
    BY <1>1, <1>2, <1>3
  <2>2. PICK n \in D : \A m \in D : n <= m
    <3> HIDE DEF D
    <3> QED
      BY <2>1, LeastNatural, Zenon
  <2>3. PICK x \in Below : n = i - IndexOf(x)
    BY <2>2
  <2>4. \A s \in Below : i - IndexOf(x) <= i - IndexOf(s)
    BY <2>2, <2>3
  <2> QED
    BY <1>1, <1>2, <2>4
<1>5. PICK y \in Above : \A s \in Above : IndexOf(y) <= IndexOf(s)
  <2> DEFINE D == {IndexOf(s) : s \in Above}
  <2>1. D \subseteq Nat /\ D # {}
    BY <1>1, <1>2, <1>3
  <2>2. PICK n \in D : \A m \in D : n <= m
    <3> HIDE DEF D
    <3> QED
      BY <2>1, LeastNatural, Zenon
  <2> QED
    BY <2>2
<1>6. /\ x \in inv /\ y \in inv /\ x \in Segment /\ y \in Segment
      /\ x.timeline = a.timeline /\ y.timeline = a.timeline
      /\ IndexOf(x) < i /\ i < IndexOf(y) /\ IndexOf(x) \in Nat /\ IndexOf(y) \in Nat
      /\ IndexOf(a) <= IndexOf(x) /\ IndexOf(y) <= IndexOf(b)
  BY <1>2, <1>3, <1>4, <1>5
<1>7. <<x, y>> \in Consecutive(inv)
  <2>1. \A s \in inv : s.timeline = x.timeline =>
          ~ (IndexOf(x) < IndexOf(s) /\ IndexOf(s) < IndexOf(y))
    BY <1>1, <1>2, <1>4, <1>5, <1>6
  <2> QED
    BY <1>6, <2>1, Neighbours
<1>8. ~ Adjacent(x, y)
  <2>1. x.log = y.log
    <3>1. /\ a.log <= x.log /\ x.log <= y.log /\ y.log <= b.log
      BY <1>1, <1>6, SegmentFields, IndexOrder DEF Before
    <3> QED
      BY <1>6, <3>1, SegmentFields
  <2> QED
    BY <1>1, <1>6, <2>1, AdjacentIndexes
<1> DEFINE hole == [after |-> x, before |-> y,
                    missing |-> IF sized THEN IndexOf(y) - IndexOf(x) - 1 ELSE -1]
<1>9. hole \in Gaps(inv, sized)
  BY <1>7, <1>8 DEF Gaps
<1>10. hole.after = x /\ hole.before = y
  OBVIOUS
<1> HIDE DEF hole
<1> QED
  BY <1>6, <1>9, <1>10

\* What every report says of holes is true of the segments it has read.
THEOREM HolesAreReported == WaSpec => []HolesAreRight
<1>1. WalInv => HolesAreRight
  <2> SUFFICES ASSUME WalInv, NEW r \in Reports
               PROVE  /\ Gaps(r.inv, Sized(r)) # {} => deleted > 0
                      /\ \A g \in Gaps(r.inv, TRUE) :
                           g.missing > 0 /\ g.missing = Cardinality(AbsentIn(r.inv, g))
                      /\ \A a, b \in r.inv : a.timeline = b.timeline /\ a.log = b.log =>
                           \A i \in IndexOf(a)..IndexOf(b) :
                             SegmentAt(a.timeline, i) \notin r.inv =>
                               \E g \in Gaps(r.inv, Sized(r)) :
                                 /\ g.after.timeline = a.timeline
                                 /\ IndexOf(g.after) < i /\ i < IndexOf(g.before)
    BY Zenon DEF HolesAreRight
  <2>1. check.pc = "listed" /\ r.inv = check.inv /\ Sized(r) \in BOOLEAN
    BY DEF Reports, Report, Sized
  <2>2. r.inv \subseteq Segment /\ deleted \in Nat
    BY <2>1 DEF WalInv, WaTypeOK
  <2>3. Gaps(r.inv, Sized(r)) # {} => deleted > 0
    <3>1. CASE deleted = 0
      <4>1. Contiguous(r.inv)
        BY <2>1, <3>1 DEF WalInv, NothingMissing
      <4> QED
        BY <2>1, <2>2, <4>1, NoHoles
    <3>2. CASE deleted # 0
      BY <2>2, <3>2
    <3> QED
      BY <3>1, <3>2
  <2>4. \A g \in Gaps(r.inv, TRUE) :
          g.missing > 0 /\ g.missing = Cardinality(AbsentIn(r.inv, g))
    BY <2>2, HolesCounted, Zenon
  <2>5. \A a, b \in r.inv : a.timeline = b.timeline /\ a.log = b.log =>
          \A i \in IndexOf(a)..IndexOf(b) :
            SegmentAt(a.timeline, i) \notin r.inv =>
              \E g \in Gaps(r.inv, Sized(r)) :
                /\ g.after.timeline = a.timeline
                /\ IndexOf(g.after) < i /\ i < IndexOf(g.before)
    <3> DEFINE held == r.inv
               size == Sized(r)
    <3>1. held \subseteq Segment /\ size \in BOOLEAN
      BY <2>1, <2>2
    <3> HIDE DEF held, size
    <3>2. \A a, b \in held : a.timeline = b.timeline /\ a.log = b.log =>
            \A i \in IndexOf(a)..IndexOf(b) :
              SegmentAt(a.timeline, i) \notin held =>
                \E g \in Gaps(held, size) :
                  /\ g.after.timeline = a.timeline
                  /\ IndexOf(g.after) < i /\ i < IndexOf(g.before)
      BY <3>1, HolesFound
    <3> QED
      BY <3>2, Zenon DEF held, size
  <2> QED
    BY <2>3, <2>4, <2>5, Zenon
<1> QED
  BY <1>1, WalInvariant, PTL

=============================================================================
