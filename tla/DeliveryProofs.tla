---------------------------- MODULE DeliveryProofs -----------------------------
(***************************************************************************)
(* The safety of Delivery for every number of writers, publishers, clients *)
(* and positions, and that it implements EventStream.                      *)
(***************************************************************************)
EXTENDS Delivery, Sequences, TLAPS

-----------------------------------------------------------------------------
(* Rows.                                                                   *)

\* Every statement on a delivery row yields a delivery row.
LEMMA DeliveryRows ==
  ASSUME NEW row \in DeliveryRow, NEW owner \in Owners
  PROVE  /\ NoDelivery \in DeliveryRow /\ NewDelivery \in DeliveryRow
         /\ ClaimedRow(row, owner) \in DeliveryRow
         /\ AckedRow(row) \in DeliveryRow /\ RetriedRow(row) \in DeliveryRow
         /\ DeliveryAfter(row) \in DeliveryRow
<1>1. /\ row.attempts \in Nat /\ row.lease \in 0..Lease /\ row.next \in 0..RetryDelay
      /\ row.state \in {"absent", "PENDING", "CLAIMED", "ACKED"}
      /\ row.owner \in Owners \cup {NoOwner}
  BY DEF DeliveryRow
<1>2. OneLess(row.lease) \in 0..Lease /\ OneLess(row.next) \in 0..RetryDelay
  BY <1>1, DeliveryTimeAssumption DEF OneLess
<1>3. 0 \in 0..Lease /\ Lease \in 0..Lease /\ 0 \in 0..RetryDelay
      /\ RetryDelay \in 0..RetryDelay /\ row.attempts + 1 \in Nat
  BY <1>1, DeliveryTimeAssumption
<1> QED BY <1>1, <1>2, <1>3
        DEF DeliveryRow, NoDelivery, NewDelivery, ClaimedRow, AckedRow, RetriedRow,
            DeliveryAfter

\* A publisher's memory is a batch, a claim in hand and an outcome.
Memory == [batch : SUBSET Claim, cur : Claim \cup {NoClaim}, ok : BOOLEAN]

\* What a publisher holds is made of claims.
LEMMA HeldClaims ==
  ASSUME DeliveryTypeOK, NEW p \in Publishers
  PROVE  /\ publisher[p] \in Memory
         /\ InHand(p) \subseteq Claim
         /\ \A c \in InHand(p) : c.event \in Event /\ c.event.seq \in Positions
                                 /\ c.attempts \in Nat
<1>1. publisher[p] \in Memory
  BY DEF DeliveryTypeOK, Memory
<1>2. InHand(p) \subseteq Claim
  BY <1>1 DEF InHand, Memory
<1> QED BY <1>1, <1>2 DEF Claim, Event

\* An event whose row is committed is no NoEvent, and its position is reached.
LEMMA StoredPosition ==
  ASSUME DeliveryTypeOK, LogOK, NEW e, Stored(e)
  PROVE  e.seq \in Positions /\ e.seq <= last /\ outbox[e.seq] # NoEvent
<1>1. e.seq \in Positions
  BY DEF Stored, Event
<1>2. outbox[e.seq] # NoEvent
  BY NoEventAssumption DEF Stored
<1> QED BY <1>1, <1>2 DEF LogOK

-----------------------------------------------------------------------------
(* Frames: what each conjunct of the invariant reads.                      *)

\* The log reads the two event tables and the Case's last position.
LEMMA LogFrame ==
  ASSUME LogOK, UNCHANGED <<outbox, delivery, last>>
  PROVE  LogOK'
BY DEF LogOK

\* Open appends are read against the committed rows.
LEMMA WriterFrame ==
  ASSUME WriterOK, UNCHANGED <<outbox, last, writer>>
  PROVE  WriterOK'
BY DEF WriterOK, HasId

\* Claims are read against the rows they were taken from and the broker.
LEMMA ClaimsFrame ==
  ASSUME ClaimsOK, UNCHANGED <<outbox, delivery, publisher, wire>>
  PROVE  ClaimsOK'
BY DEF ClaimsOK, InHand, Stored

\* That claims are told apart is about the publishers' memory alone.
LEMMA UniqueFrame ==
  ASSUME ClaimIsUnique, UNCHANGED publisher
  PROVE  ClaimIsUnique'
BY DEF ClaimIsUnique, InHand

\* Acknowledged rows are read against the broker.
LEMMA AckedFrame ==
  ASSUME AckedIsSent, UNCHANGED <<outbox, delivery, wire>>
  PROVE  AckedIsSent'
BY DEF AckedIsSent

\* The broker is read against the committed rows.
LEMMA WireFrame ==
  ASSUME WireOK, UNCHANGED <<outbox, wire>>
  PROVE  WireOK'
BY DEF WireOK, Stored

\* The projection is read against the committed rows.
LEMMA ProjFrame ==
  ASSUME ProjOK, UNCHANGED <<outbox, last, proj>>
  PROVE  ProjOK'
BY DEF ProjOK, BufferIsPastGap

\* The clients are read against the Case's last position.
LEMMA TailFrame ==
  ASSUME TailOK, UNCHANGED <<last, tail>>
  PROVE  TailOK'
BY DEF TailOK, TailIsComplete

-----------------------------------------------------------------------------
(* Appending.                                                              *)

\* A step that only takes the next position for a new id, or gives it back,
\* keeps the invariant (append_event(), append_outbox(), a rollback).
LEMMA WritersKeep ==
  ASSUME DeliveryInv, NEW w \in Writers, NEW e \in Event \cup {NoEvent},
         writer' = [writer EXCEPT ![w] = e],
         e = NoEvent \/ (CaseUnlocked /\ e.seq = last + 1 /\ ~HasId(outbox, e.id)),
         UNCHANGED <<outbox, delivery, last, publisher, wire, proj, tail, faults>>
  PROVE  DeliveryInv'
<1>1. writer' \in [Writers -> Event \cup {NoEvent}]
  BY DEF DeliveryInv, DeliveryTypeOK
<1>2. DeliveryTypeOK'
  BY <1>1 DEF DeliveryInv, DeliveryTypeOK
<1>3. WriterOK'
  <2> SUFFICES ASSUME NEW u \in Writers, writer'[u] # NoEvent
               PROVE  /\ writer'[u].seq = last + 1
                      /\ ~HasId(outbox, writer'[u].id)
                      /\ \A v \in Writers : v # u => writer'[v] = NoEvent
    BY DEF WriterOK, HasId
  <2>1. \A v \in Writers : writer'[v] = IF v = w THEN e ELSE writer[v]
    BY DEF DeliveryInv, DeliveryTypeOK
  <2>2. CASE e = NoEvent
    BY <2>1, <2>2 DEF DeliveryInv, WriterOK
  <2>3. CASE e # NoEvent
    BY <2>1, <2>3 DEF CaseUnlocked
  <2> QED BY <2>2, <2>3
<1>4. LogOK' /\ ClaimsOK' /\ ClaimIsUnique' /\ AckedIsSent' /\ WireOK' /\ ProjOK' /\ TailOK'
  BY LogFrame, ClaimsFrame, UniqueFrame, AckedFrame, WireFrame, ProjFrame, TailFrame
     DEF DeliveryInv
<1> QED BY <1>2, <1>3, <1>4 DEF DeliveryInv

\* A commit adds one row at the next position and leaves the others.
LEMMA CommitRow ==
  ASSUME DeliveryInv, NEW w \in Writers, CommitAppend(w)
  PROVE  /\ writer[w] \in Event /\ writer[w].seq = last + 1
         /\ last' = last + 1 /\ last' \in Positions
         /\ outbox' \in EventColumn /\ delivery' \in [Positions -> DeliveryRow]
         /\ outbox'[last'] = writer[w] /\ delivery'[last'] = NewDelivery
         /\ \A n \in Positions : n # last' =>
              outbox'[n] = outbox[n] /\ delivery'[n] = delivery[n]
         /\ outbox[last'] = NoEvent /\ delivery[last'].state = "absent"
         /\ ~HasId(outbox, writer[w].id)
         /\ \A v \in Writers : writer'[v] = NoEvent
<1>1. writer[w] \in Event /\ writer[w].seq = last + 1 /\ ~HasId(outbox, writer[w].id)
  BY DEF CommitAppend, DeliveryInv, DeliveryTypeOK, WriterOK
<1>2. last' = last + 1 /\ last' \in Positions
  BY <1>1 DEF CommitAppend, Event
<1>3. NewDelivery \in DeliveryRow
  BY DeliveryTimeAssumption DEF NewDelivery, DeliveryRow
<1>4. /\ outbox' = [outbox EXCEPT ![last'] = writer[w]]
      /\ delivery' = [delivery EXCEPT ![last'] = NewDelivery]
  BY <1>1, <1>2 DEF CommitAppend
<1>5. outbox \in EventColumn /\ delivery \in [Positions -> DeliveryRow] /\ last \in 0..MaxSeq
  BY DEF DeliveryInv, DeliveryTypeOK
<1>6. outbox' \in EventColumn /\ delivery' \in [Positions -> DeliveryRow]
  BY <1>1, <1>2, <1>3, <1>4, <1>5 DEF EventColumn
<1>7. /\ outbox'[last'] = writer[w] /\ delivery'[last'] = NewDelivery
      /\ \A n \in Positions : n # last' =>
           outbox'[n] = outbox[n] /\ delivery'[n] = delivery[n]
  BY <1>2, <1>4, <1>5 DEF EventColumn
<1>8. outbox[last'] = NoEvent /\ delivery[last'].state = "absent"
  BY <1>2, <1>5 DEF DeliveryInv, LogOK
<1>9. \A v \in Writers : writer'[v] = NoEvent
  BY DEF CommitAppend, DeliveryInv, DeliveryTypeOK, WriterOK
<1> QED BY <1>1, <1>2, <1>6, <1>7, <1>8, <1>9

\* A commit keeps the invariant.
LEMMA CommitKeeps ==
  ASSUME DeliveryInv, NEW w \in Writers, CommitAppend(w)
  PROVE  DeliveryInv'
<1>0. UNCHANGED <<publisher, wire, proj, tail, faults>>
  BY DEF CommitAppend
<1>1. last \in 0..MaxSeq /\ last' = last + 1 /\ last' \in 0..MaxSeq
  BY CommitRow DEF DeliveryInv, DeliveryTypeOK, Positions
<1>2. DeliveryTypeOK'
  <2>1. writer' \in [Writers -> Event \cup {NoEvent}]
    BY DEF CommitAppend, DeliveryInv, DeliveryTypeOK
  <2> QED BY <1>0, <1>1, <2>1, CommitRow DEF DeliveryInv, DeliveryTypeOK
<1>3. ASSUME NEW e, Stored(e) PROVE Stored(e)' /\ e.seq # last'
  BY <1>3, CommitRow, NoEventAssumption DEF Stored, Event
<1>4. LogOK'
  <2>1. \A n \in Positions : outbox'[n] # NoEvent <=> n <= last'
    BY <1>1, CommitRow, NoEventAssumption DEF DeliveryInv, LogOK, Positions
  <2>2. \A n \in Positions : outbox'[n] # NoEvent => outbox'[n].seq = n
    BY <1>1, CommitRow DEF DeliveryInv, LogOK
  <2>3. \A m, n \in Positions :
          outbox'[m] # NoEvent /\ outbox'[n] # NoEvent /\ outbox'[m].id = outbox'[n].id
            => m = n
    BY CommitRow DEF DeliveryInv, LogOK, HasId
  <2>4. \A n \in Positions : delivery'[n].state = "absent" <=> n > last'
    BY <1>1, CommitRow DEF DeliveryInv, LogOK, Positions, NewDelivery
  <2> QED BY <2>1, <2>2, <2>3, <2>4 DEF LogOK
<1>5. WriterOK'
  BY CommitRow DEF WriterOK
<1>6. ClaimsOK' /\ ClaimIsUnique' /\ WireOK'
  <2>1. \A p \in Publishers : InHand(p)' = InHand(p)
    BY <1>0 DEF InHand
  <2>2. \A e : Stored(e) => delivery'[e.seq] = delivery[e.seq]
    BY <1>3, CommitRow DEF Stored, Event
  <2> QED BY <1>0, <1>3, <2>1, <2>2 DEF DeliveryInv, ClaimsOK, ClaimIsUnique, WireOK
<1>7. AckedIsSent'
  BY <1>0, CommitRow DEF DeliveryInv, AckedIsSent, NewDelivery
<1>8. ProjOK'
  <2>1. proj'.last <= last' /\ proj' = proj /\ proj.last <= last /\ proj.last \in 0..MaxSeq
    BY <1>0, <1>1 DEF DeliveryInv, DeliveryTypeOK, ProjOK, Projection
  <2>2. \A n \in Positions : n <= proj.last => outbox'[n] = outbox[n]
    BY <1>1, <2>1, CommitRow DEF Positions
  <2>3. \A n \in Positions : proj.buffer[n] # NoEvent => outbox'[n] = outbox[n]
    BY CommitRow DEF DeliveryInv, ProjOK
  <2> QED BY <2>1, <2>2, <2>3 DEF DeliveryInv, ProjOK, BufferIsPastGap
<1>9. TailOK'
  <2>1. \A t \in Tails : tail[t].cursor \in 0..MaxSeq /\ tail[t].page \in SUBSET Positions
    BY DEF DeliveryInv, DeliveryTypeOK
  <2>2. \A t \in Tails : tail[t].cursor <= last'
    BY <1>1, <2>1 DEF DeliveryInv, TailOK
  <2>3. \A t \in Tails : \A n \in tail[t].page : n <= last'
    BY <1>1, <2>1 DEF DeliveryInv, TailOK, Positions
  <2> QED BY <1>0, <2>2, <2>3 DEF DeliveryInv, TailOK, TailIsComplete
<1> QED BY <1>2, <1>4, <1>5, <1>6, <1>7, <1>8, <1>9 DEF DeliveryInv

-----------------------------------------------------------------------------
(* Publishing.                                                             *)

\* A step on delivery columns, publishers and broker alone keeps the
\* invariant, if no row vanishes or loses attempts, only what the broker has
\* is acknowledged, and the claims stay sound and unique.
LEMMA PublishingKeeps ==
  ASSUME DeliveryInv, UNCHANGED <<outbox, last, writer, proj, tail>>,
         delivery' \in [Positions -> DeliveryRow],
         publisher' \in [Publishers -> Memory],
         faults' \in 0..MaxFaults,
         wire \subseteq wire', \A e \in wire' : Stored(e),
         \A n \in Positions :
           /\ delivery'[n].state = "absent" <=> delivery[n].state = "absent"
           /\ delivery'[n].state = "ACKED" =>
                delivery[n].state = "ACKED" \/ outbox[n] \in wire',
         ClaimsOK', ClaimIsUnique'
  PROVE  DeliveryInv'
<1>1. DeliveryTypeOK'
  BY DEF DeliveryInv, DeliveryTypeOK, Memory, Stored
<1>2. LogOK'
  BY DEF DeliveryInv, LogOK
<1>3. WriterOK' /\ ProjOK' /\ TailOK'
  BY WriterFrame, ProjFrame, TailFrame DEF DeliveryInv
<1>4. WireOK' /\ AckedIsSent'
  BY DEF DeliveryInv, WireOK, AckedIsSent, Stored
<1> QED BY <1>1, <1>2, <1>3, <1>4 DEF DeliveryInv

\* Claims stay sound and unique when nobody claims.
LEMMA HandsKeep ==
  ASSUME DeliveryInv, UNCHANGED outbox, wire \subseteq wire',
         delivery' \in [Positions -> DeliveryRow],
         \A n \in Positions : delivery'[n].attempts = delivery[n].attempts,
         \A q \in Publishers :
           /\ InHand(q)' \subseteq InHand(q)
           /\ publisher'[q].cur # NoClaim /\ publisher'[q].ok
                => publisher'[q].cur.event \in wire'
  PROVE  ClaimsOK' /\ ClaimIsUnique'
<1>1. ASSUME NEW q \in Publishers, NEW c \in InHand(q)'
      PROVE  Stored(c.event)' /\ c.attempts <= delivery'[c.event.seq].attempts
  <2>1. c \in InHand(q)
    BY <1>1
  <2>2. Stored(c.event) /\ c.attempts <= delivery[c.event.seq].attempts
        /\ c.event.seq \in Positions
    BY <2>1, HeldClaims DEF DeliveryInv, ClaimsOK
  <2> QED BY <2>2 DEF Stored
<1>2. ClaimsOK'
  BY <1>1 DEF ClaimsOK
<1>3. ClaimIsUnique'
  BY DEF DeliveryInv, ClaimIsUnique
<1> QED BY <1>2, <1>3

\* A claim raises the attempts of its rows past every claim in memory.
LEMMA ClaimKeeps ==
  ASSUME DeliveryInv, NEW p \in Publishers, NEW rows \in SUBSET Positions,
         claim_outbox(p, rows)
  PROVE  DeliveryInv'
<1> DEFINE Row(n) == ClaimedRow(delivery[n], OwnerOf[p])
<1> DEFINE Taken(n) == [event |-> outbox[n], attempts |-> delivery'[n].attempts]
<1>0. UNCHANGED <<outbox, last, writer, wire, proj, tail, faults>>
  BY DEF claim_outbox
<1>1. /\ delivery \in [Positions -> DeliveryRow] /\ outbox \in EventColumn
      /\ publisher \in [Publishers -> Memory]
  BY DEF DeliveryInv, DeliveryTypeOK, Memory
<1>2. \A n \in Positions : delivery'[n] = IF n \in rows THEN Row(n) ELSE delivery[n]
  BY DEF claim_outbox
<1>3. \A n \in Positions : Row(n) \in DeliveryRow
  BY <1>1, DeliveryRows, OwnerOfAssumption
<1>4. delivery' \in [Positions -> DeliveryRow]
  <2>1. delivery' = [n \in Positions |-> IF n \in rows THEN Row(n) ELSE delivery[n]]
    BY DEF claim_outbox
  <2> QED BY <1>1, <1>3, <2>1
<1>5. \A n \in Positions : /\ delivery[n].attempts \in Nat
                           /\ delivery'[n].attempts =
                                IF n \in rows THEN delivery[n].attempts + 1
                                ELSE delivery[n].attempts
  <2>1. \A n \in Positions : delivery[n].attempts \in Nat
    BY <1>1 DEF DeliveryRow
  <2>2. \A n \in Positions : Row(n).attempts = delivery[n].attempts + 1
    BY DEF ClaimedRow
  <2> QED BY <1>2, <2>1, <2>2
<1>6. \A n \in rows : delivery[n].state # "absent" /\ delivery'[n].state = "CLAIMED"
  BY <1>2 DEF claim_outbox, Due, ClaimedRow
<1>7. \A n \in rows : /\ outbox[n] \in Event /\ outbox[n].seq = n
                      /\ Stored(outbox[n])
  <2> SUFFICES ASSUME NEW n \in rows
               PROVE  outbox[n] \in Event /\ outbox[n].seq = n /\ Stored(outbox[n])
    OBVIOUS
  <2>1. n \in Positions /\ last \in 0..MaxSeq
    BY DEF DeliveryInv, DeliveryTypeOK
  <2>2. outbox[n] # NoEvent
    BY <1>6, <2>1 DEF DeliveryInv, LogOK, Positions
  <2>3. outbox[n] \in Event /\ outbox[n].seq = n
    BY <1>1, <2>1, <2>2 DEF EventColumn, DeliveryInv, LogOK
  <2> QED BY <2>3 DEF Stored
<1>8. /\ publisher'[p] = [batch |-> {Taken(n) : n \in rows}, cur |-> NoClaim, ok |-> FALSE]
      /\ \A q \in Publishers : q # p => publisher'[q] = publisher[q]
  BY <1>1, Zenon DEF claim_outbox
<1>9. \A n \in rows : Taken(n) \in Claim
  BY <1>5, <1>7 DEF Claim
<1>10. publisher' \in [Publishers -> Memory]
  <2>1. publisher'[p] \in Memory
    BY <1>8, <1>9 DEF Memory
  <2>2. publisher' = [publisher EXCEPT ![p] = publisher'[p]]
    BY <1>1, <1>8 DEF claim_outbox
  <2> QED BY <1>1, <2>1, <2>2
<1>11. /\ InHand(p)' = {Taken(n) : n \in rows}
       /\ \A q \in Publishers : q # p => InHand(q)' = InHand(q)
  BY <1>8 DEF InHand
<1>12. ASSUME NEW q \in Publishers, NEW c \in InHand(q)
       PROVE  /\ c.event.seq \in Positions /\ Stored(c.event)'
              /\ c.attempts \in Nat
              /\ c.attempts <= delivery[c.event.seq].attempts
              /\ c.attempts <= delivery'[c.event.seq].attempts
  <2>1. c.event.seq \in Positions /\ c.attempts \in Nat
    BY <1>12, HeldClaims DEF DeliveryInv
  <2>2. Stored(c.event) /\ c.attempts <= delivery[c.event.seq].attempts
    BY <1>12 DEF DeliveryInv, ClaimsOK
  <2>3. Stored(c.event)'
    BY <1>0, <2>2 DEF Stored
  <2> QED BY <1>5, <2>1, <2>2, <2>3
<1>13. ClaimsOK'
  <2>1. ASSUME NEW n \in rows
        PROVE  /\ outbox[n] \in Event /\ outbox'[outbox[n].seq] = outbox[n]
               /\ delivery'[n].attempts <= delivery'[outbox[n].seq].attempts
    BY <1>0, <1>5, <1>7, <2>1 DEF Stored
  <2>2. \A q \in Publishers : \A c \in InHand(q)' :
          Stored(c.event)' /\ c.attempts <= delivery'[c.event.seq].attempts
    <3> SUFFICES ASSUME NEW q \in Publishers, NEW c \in InHand(q)'
                 PROVE  Stored(c.event)' /\ c.attempts <= delivery'[c.event.seq].attempts
      OBVIOUS
    <3>1. CASE q # p
      BY <1>11, <1>12, <3>1
    <3>2. CASE q = p
      <4>1. PICK n \in rows : c = Taken(n)
        BY <1>11, <3>2
      <4>2. c.event = outbox[n] /\ c.attempts = delivery'[n].attempts
        BY <4>1
      <4> QED BY <2>1, <4>2 DEF Stored
    <3> QED BY <3>1, <3>2
  <2>3. \A q \in Publishers : publisher'[q].cur # NoClaim /\ publisher'[q].ok
                                => publisher'[q].cur.event \in wire'
    BY <1>0, <1>8 DEF DeliveryInv, ClaimsOK
  <2> QED BY <2>2, <2>3 DEF ClaimsOK
<1>14. ClaimIsUnique'
  <2>1. ASSUME NEW q \in Publishers, NEW c \in InHand(q), NEW n \in rows,
               c.event.seq = Taken(n).event.seq
        PROVE  c.attempts # Taken(n).attempts
    <3>1. c.event.seq = n
      BY <1>7, <2>1
    <3>2. Taken(n).attempts = delivery[n].attempts + 1 /\ delivery[n].attempts \in Nat
      BY <1>5
    <3>3. c.attempts <= delivery[n].attempts /\ c.attempts \in Nat
      BY <1>12, <3>1
    <3> QED BY <3>2, <3>3
  <2> SUFFICES ASSUME NEW q \in Publishers, NEW r \in Publishers, q # r,
                      NEW c \in InHand(q)', NEW d \in InHand(r)',
                      c.event.seq = d.event.seq
               PROVE  c.attempts # d.attempts
    BY DEF ClaimIsUnique
  <2>2. CASE q = p
    BY <1>11, <2>1, <2>2
  <2>3. CASE r = p
    BY <1>11, <2>1, <2>3
  <2>4. CASE q # p /\ r # p
    BY <1>11, <2>4 DEF DeliveryInv, ClaimIsUnique
  <2> QED BY <2>2, <2>3, <2>4
<1>15. \A n \in Positions :
         /\ delivery'[n].state = "absent" <=> delivery[n].state = "absent"
         /\ delivery'[n].state = "ACKED" => delivery[n].state = "ACKED"
  BY <1>2, <1>6
<1>16. faults' \in 0..MaxFaults /\ wire \subseteq wire' /\ \A e \in wire' : Stored(e)
  BY <1>0 DEF DeliveryInv, DeliveryTypeOK, WireOK
<1> QED BY <1>0, <1>4, <1>10, <1>13, <1>14, <1>15, <1>16, PublishingKeeps

\* publish() returns or raises: the event moves from the batch to cur.
LEMMA PublishKeeps ==
  ASSUME DeliveryInv, NEW p \in Publishers, NEW c \in publisher[p].batch,
         PublishOk(p, c) \/ PublishRaise(p, c)
  PROVE  DeliveryInv'
<1>0. UNCHANGED <<outbox, delivery, last, writer, proj, tail>>
  BY DEF PublishOk, PublishRaise, Published
<1>1. PICK ok \in BOOLEAN :
        /\ Published(p, c, ok)
        /\ ok => c.event \in wire'
        /\ wire \subseteq wire' /\ wire' \subseteq wire \cup {c.event}
        /\ faults' \in 0..MaxFaults
  <2>1. faults \in 0..MaxFaults
    BY DEF DeliveryInv, DeliveryTypeOK
  <2>2. CASE PublishOk(p, c)
    <3>1. /\ Published(p, c, TRUE) /\ c.event \in wire' /\ faults' = faults
          /\ wire \subseteq wire' /\ wire' \subseteq wire \cup {c.event}
      BY <2>2, Zenon DEF PublishOk
    <3> QED BY <2>1, <3>1, Zenon
  <2>3. CASE PublishRaise(p, c)
    <3>1. faults' \in 0..MaxFaults
      BY <2>1, <2>3, DeliveryBoundAssumption DEF PublishRaise
    <3>2. /\ Published(p, c, FALSE)
          /\ wire \subseteq wire' /\ wire' \subseteq wire \cup {c.event}
      BY <2>3, Zenon DEF PublishRaise
    <3> QED BY <3>1, <3>2, Zenon
  <2> QED BY <2>2, <2>3
<1>2. publisher \in [Publishers -> Memory] /\ publisher[p] \in Memory
  BY DEF DeliveryInv, DeliveryTypeOK, Memory
<1>3. /\ publisher'[p] = [batch |-> publisher[p].batch \ {c}, cur |-> c, ok |-> ok]
      /\ \A q \in Publishers : q # p => publisher'[q] = publisher[q]
      /\ publisher[p].cur = NoClaim
  BY <1>1, <1>2 DEF Published
<1>4. publisher' \in [Publishers -> Memory]
  <2>1. publisher'[p] \in Memory
    BY <1>2, <1>3 DEF Memory
  <2>2. publisher' = [publisher EXCEPT ![p] = publisher'[p]]
    BY <1>1, <1>2, <1>3 DEF Published
  <2> QED BY <1>2, <2>1, <2>2
<1>5. c \in InHand(p) /\ Stored(c.event)
  BY DEF InHand, DeliveryInv, ClaimsOK
<1>6. \A q \in Publishers :
        /\ InHand(q)' \subseteq InHand(q)
        /\ publisher'[q].cur # NoClaim /\ publisher'[q].ok
             => publisher'[q].cur.event \in wire'
  <2>1. InHand(p)' \subseteq InHand(p)
    BY <1>3 DEF InHand
  <2>2. \A q \in Publishers : q # p => InHand(q)' = InHand(q)
    BY <1>3 DEF InHand
  <2>3. wire \subseteq wire' /\ (ok => c.event \in wire')
    BY <1>1
  <2>4. publisher'[p].ok => publisher'[p].cur.event \in wire'
    BY <1>3, <2>3
  <2> QED BY <1>3, <2>1, <2>2, <2>3, <2>4 DEF DeliveryInv, ClaimsOK
<1>7. delivery' \in [Positions -> DeliveryRow]
  BY <1>0 DEF DeliveryInv, DeliveryTypeOK
<1>8. \A e \in wire' : Stored(e)
  BY <1>1, <1>5 DEF DeliveryInv, WireOK
<1>9. ClaimsOK' /\ ClaimIsUnique'
  BY <1>0, <1>1, <1>6, <1>7, HandsKeep
<1> QED BY <1>0, <1>1, <1>4, <1>7, <1>8, <1>9, PublishingKeeps

\* A publisher drops what it has in hand, after settling it or not.
LEMMA SettleKeeps ==
  ASSUME DeliveryInv, NEW p \in Publishers, NextDelivery(p) \/ Abandon(p),
         UNCHANGED <<outbox, last, writer, wire, proj, tail>>,
         faults' \in 0..MaxFaults,
         delivery' = delivery \/ \E n \in Positions :
           /\ delivery[n].state = "CLAIMED"
           /\ \/ delivery' = [delivery EXCEPT ![n] = RetriedRow(delivery[n])]
              \/ /\ delivery' = [delivery EXCEPT ![n] = AckedRow(delivery[n])]
                 /\ outbox[n] \in wire
  PROVE  DeliveryInv'
<1>1. publisher \in [Publishers -> Memory] /\ publisher[p] \in Memory
      /\ delivery \in [Positions -> DeliveryRow]
  BY DEF DeliveryInv, DeliveryTypeOK, Memory
<1>2. /\ publisher'[p] = Idle
         \/ publisher'[p] = [batch |-> publisher[p].batch, cur |-> NoClaim, ok |-> FALSE]
      /\ \A q \in Publishers : q # p => publisher'[q] = publisher[q]
      /\ publisher' = [publisher EXCEPT ![p] = publisher'[p]]
  BY <1>1, ZenonT(40) DEF NextDelivery, Abandon
<1>3. publisher' \in [Publishers -> Memory]
  <2>1. publisher[p].batch \in SUBSET Claim
    BY <1>1 DEF Memory
  <2>2. \A B \in SUBSET Claim : [batch |-> B, cur |-> NoClaim, ok |-> FALSE] \in Memory
    BY DEF Memory
  <2>3. publisher'[p] \in Memory
    BY <1>2, <2>1, <2>2 DEF Idle
  <2> QED BY <1>1, <1>2, <2>3
<1>4. \A q \in Publishers :
        /\ InHand(q)' \subseteq InHand(q)
        /\ publisher'[q].cur # NoClaim /\ publisher'[q].ok
             => publisher'[q].cur.event \in wire'
  <2>1. publisher'[p].batch \subseteq publisher[p].batch /\ publisher'[p].cur = NoClaim
    BY <1>2 DEF Idle
  <2>2. InHand(p)' \subseteq InHand(p)
    BY <2>1 DEF InHand
  <2>3. \A q \in Publishers : q # p => InHand(q)' = InHand(q)
    BY <1>2 DEF InHand
  <2> QED BY <1>2, <2>1, <2>2, <2>3 DEF DeliveryInv, ClaimsOK
<1> DEFINE RowKept(k) ==
             /\ delivery'[k].attempts = delivery[k].attempts
             /\ delivery'[k].state = "absent" <=> delivery[k].state = "absent"
             /\ delivery'[k].state = "ACKED" =>
                  delivery[k].state = "ACKED" \/ outbox[k] \in wire'
<1>5. delivery' \in [Positions -> DeliveryRow] /\ \A k \in Positions : RowKept(k)
  <2>1. CASE delivery' = delivery
    BY <1>1, <2>1
  <2>2. ASSUME NEW n \in Positions, delivery[n].state = "CLAIMED", NEW row \in DeliveryRow,
               delivery' = [delivery EXCEPT ![n] = row],
               row.attempts = delivery[n].attempts, row.state # "absent",
               row.state = "ACKED" => outbox[n] \in wire
        PROVE  delivery' \in [Positions -> DeliveryRow] /\ \A k \in Positions : RowKept(k)
    BY <1>1, <2>2
  <2>3. CASE delivery' # delivery
    <3>1. PICK n \in Positions :
            /\ delivery[n].state = "CLAIMED"
            /\ \/ delivery' = [delivery EXCEPT ![n] = RetriedRow(delivery[n])]
               \/ /\ delivery' = [delivery EXCEPT ![n] = AckedRow(delivery[n])]
                  /\ outbox[n] \in wire
      BY <2>3
    <3>2. /\ RetriedRow(delivery[n]) \in DeliveryRow /\ AckedRow(delivery[n]) \in DeliveryRow
          /\ RetriedRow(delivery[n]).attempts = delivery[n].attempts
          /\ AckedRow(delivery[n]).attempts = delivery[n].attempts
          /\ RetriedRow(delivery[n]).state = "PENDING"
          /\ AckedRow(delivery[n]).state = "ACKED"
      <4>1. delivery[n] \in DeliveryRow /\ OwnerOf[p] \in Owners
        BY <1>1, OwnerOfAssumption
      <4> QED BY <4>1, DeliveryRows DEF RetriedRow, AckedRow
    <3> QED BY <1>1, <2>2, <3>1, <3>2
  <2> QED BY <1>1, <2>1, <2>3
<1>6. wire \subseteq wire' /\ \A e \in wire' : Stored(e)
  BY DEF DeliveryInv, WireOK
<1>7. ClaimsOK' /\ ClaimIsUnique'
  BY <1>4, <1>5, <1>6, HandsKeep, Zenon
<1> QED BY <1>3, <1>5, <1>6, <1>7, PublishingKeeps

\* Every step of a publisher keeps the invariant.
LEMMA PublisherKeeps ==
  ASSUME DeliveryInv, NEW p \in Publishers, PublisherStep(p)
  PROVE  DeliveryInv'
<1> DEFINE c == publisher[p].cur
<1> DEFINE n == c.event.seq
<1>1. faults \in 0..MaxFaults
  BY DEF DeliveryInv, DeliveryTypeOK
<1>2. ASSUME c # NoClaim
      PROVE  n \in Positions /\ outbox[n] = c.event /\ (publisher[p].ok => c.event \in wire)
  <2>1. c \in InHand(p)
    BY <1>2 DEF InHand
  <2> QED BY <1>2, <2>1, HeldClaims DEF DeliveryInv, ClaimsOK, Stored
<1>3. CASE \E rows \in SUBSET Positions : claim_outbox(p, rows)
  BY <1>3, ClaimKeeps
<1>4. CASE \E d \in publisher[p].batch : PublishOk(p, d) \/ PublishRaise(p, d)
  BY <1>4, PublishKeeps
<1>5. CASE ack_outbox(p)
  <2>1. c # NoClaim /\ publisher[p].ok
    BY <1>5, Zenon DEF ack_outbox
  <2>2. n \in Positions /\ outbox[n] \in wire
    BY <1>2, <2>1
  <2>3. UNCHANGED <<outbox, last, writer, wire, proj, tail>> /\ faults' \in 0..MaxFaults
    BY <1>1, <1>5, Zenon DEF ack_outbox
  <2>4. NextDelivery(p) \/ Abandon(p)
    BY <1>5, Zenon DEF ack_outbox
  <2>5. \/ delivery' = delivery
        \/ /\ delivery[n].state = "CLAIMED"
           /\ delivery' = [delivery EXCEPT ![n] = AckedRow(delivery[n])]
    BY <1>5, ZenonT(40) DEF ack_outbox, HoldsDelivery
  <2> QED BY <2>2, <2>3, <2>4, <2>5, SettleKeeps
<1>6. CASE retry_outbox(p)
  <2>1. c # NoClaim
    BY <1>6 DEF retry_outbox
  <2>2. n \in Positions
    BY <1>2, <2>1
  <2>3. UNCHANGED <<outbox, last, writer, wire, proj, tail>> /\ faults' \in 0..MaxFaults
    BY <1>1, <1>6, Zenon DEF retry_outbox
  <2>4. NextDelivery(p) \/ Abandon(p)
    BY <1>6 DEF retry_outbox
  <2>5. \/ delivery' = delivery
        \/ /\ delivery[n].state = "CLAIMED"
           /\ delivery' = [delivery EXCEPT ![n] = RetriedRow(delivery[n])]
    BY <1>6, ZenonT(40) DEF retry_outbox, HoldsDelivery
  <2> QED BY <2>2, <2>3, <2>4, <2>5, SettleKeeps
<1>7. CASE Crash(p)
  <2>1. UNCHANGED <<outbox, delivery, last, writer, wire, proj, tail>> /\ Abandon(p)
    BY <1>7 DEF Crash
  <2>2. faults' \in 0..MaxFaults
    BY <1>1, <1>7, DeliveryBoundAssumption DEF Crash
  <2> QED BY <2>1, <2>2, SettleKeeps
<1> QED BY <1>3, <1>4, <1>5, <1>6, <1>7, Zenon DEF PublisherStep

\* The clock changes leases and delays only.
LEMMA TickKeeps ==
  ASSUME DeliveryInv, Tick
  PROVE  DeliveryInv'
<1>1. UNCHANGED <<outbox, last, writer, publisher, wire, proj, tail>>
  BY DEF Tick
<1>2. faults' \in 0..MaxFaults
  <2>1. faults \in Nat /\ (faults' = faults \/ faults' = faults + 1) /\ faults' <= MaxFaults
    BY DEF Tick, DeliveryInv, DeliveryTypeOK
  <2> QED BY <2>1, DeliveryBoundAssumption
<1>3. delivery \in [Positions -> DeliveryRow] /\ publisher \in [Publishers -> Memory]
  BY DEF DeliveryInv, DeliveryTypeOK, Memory
<1>4. \A n \in Positions : DeliveryAfter(delivery[n]) \in DeliveryRow
  <2> SUFFICES ASSUME NEW row \in DeliveryRow PROVE DeliveryAfter(row) \in DeliveryRow
    BY <1>3
  <2>1. OneLess(row.lease) \in 0..Lease /\ OneLess(row.next) \in 0..RetryDelay
    BY DeliveryTimeAssumption DEF DeliveryRow, OneLess
  <2> QED BY <2>1 DEF DeliveryAfter, DeliveryRow
<1>5. /\ delivery' \in [Positions -> DeliveryRow]
      /\ \A n \in Positions : /\ delivery'[n].attempts = delivery[n].attempts
                              /\ delivery'[n].state = delivery[n].state
  BY <1>4 DEF Tick, DeliveryAfter
<1>6. ClaimsOK' /\ ClaimIsUnique'
  <2>1. \A q \in Publishers :
          /\ InHand(q)' \subseteq InHand(q)
          /\ publisher'[q].cur # NoClaim /\ publisher'[q].ok
               => publisher'[q].cur.event \in wire'
    BY <1>1 DEF InHand, DeliveryInv, ClaimsOK
  <2> QED BY <1>1, <1>5, <2>1, HandsKeep
<1>7. wire \subseteq wire' /\ (\A e \in wire' : Stored(e)) /\ publisher' \in [Publishers -> Memory]
  BY <1>1, <1>3 DEF DeliveryInv, WireOK
<1> QED BY <1>1, <1>2, <1>5, <1>6, <1>7, PublishingKeeps, Zenon

-----------------------------------------------------------------------------
(* The projection.                                                         *)

\* A buffer row of the projection is committed and past the next position.
LEMMA ProjectionTypes ==
  ASSUME DeliveryInv
  PROVE  /\ proj.last \in 0..MaxSeq /\ last \in 0..MaxSeq /\ proj.last <= last
         /\ proj.applied \in EventColumn /\ proj.buffer \in EventColumn
         /\ outbox \in EventColumn
BY DEF DeliveryInv, DeliveryTypeOK, Projection, ProjOK

\* No stored event is refused (ingest() raises no CONFLICT), and one that is
\* applied is the next one.
LEMMA DecisionOnStored ==
  ASSUME DeliveryInv, NEW e, Stored(e)
  PROVE  /\ Decision(proj, e) # "conflict"
         /\ Decision(proj, e) = "apply" => e.seq = proj.last + 1
         /\ Decision(proj, e) = "buffer_gap" => e.seq > proj.last + 1
<1>1. e.seq \in Positions /\ e.seq <= last /\ outbox[e.seq] = e /\ e \in Event /\ e # NoEvent
  BY StoredPosition, NoEventAssumption DEF DeliveryInv, Stored
<1>2. \A n \in Positions : outbox[n] # NoEvent /\ outbox[n].id = e.id => n = e.seq
  BY <1>1 DEF DeliveryInv, LogOK
<1>3. /\ \A n \in Positions : proj.applied[n] = IF n <= proj.last THEN outbox[n] ELSE NoEvent
      /\ \A n \in Positions : proj.buffer[n] # NoEvent
           => proj.buffer[n] = outbox[n] /\ n > proj.last + 1
  BY DEF DeliveryInv, ProjOK, BufferIsPastGap
<1>4. HasId(proj.applied, e.id) => proj.applied[e.seq] = e /\ e.seq <= proj.last
  BY <1>1, <1>2, <1>3 DEF HasId
<1>5. HasId(proj.buffer, e.id) => proj.buffer[e.seq] = e
  BY <1>1, <1>2, <1>3 DEF HasId
<1>6. proj.applied[e.seq] # NoEvent \/ e.seq <= proj.last => HasId(proj.applied, e.id)
  BY <1>1, <1>3 DEF HasId
<1>7. proj.buffer[e.seq] # NoEvent => HasId(proj.buffer, e.id)
  BY <1>1, <1>3 DEF HasId
<1>8. e.seq \in Int /\ proj.last \in Int
  BY <1>1, ProjectionTypes DEF Positions
<1> QED BY <1>4, <1>5, <1>6, <1>7, <1>8 DEF Decision

\* A projection between two steps of ingest(): applied is the committed
\* prefix up to last, the buffer holds committed events past it.
Consistent(q) ==
  /\ q.last \in 0..MaxSeq /\ q.last <= last
  /\ \A k \in Positions : q.applied[k] = IF k <= q.last THEN outbox[k] ELSE NoEvent
  /\ \A k \in Positions : q.buffer[k] # NoEvent => q.buffer[k] = outbox[k] /\ k > q.last

\* _drain() turns a consistent projection into one whose buffer lies past a
\* real gap.
LEMMA DrainKeeps ==
  ASSUME DeliveryInv, NEW q, Consistent(q), NEW n, DrainsTo(q, n),
         proj' = Drained(q, n), UNCHANGED <<outbox, last>>
  PROVE  proj' \in Projection /\ ProjOK' /\ proj'.last >= q.last
<1>1. /\ n \in Int /\ q.last \in Int /\ last \in Int /\ n >= q.last /\ n <= MaxSeq
      /\ n \in 0..MaxSeq /\ MaxSeq \in Nat
  BY ProjectionTypes, SeqAssumption DEF DrainsTo, Consistent
<1>2. n <= last
  <2>1. CASE n = q.last
    BY <2>1 DEF Consistent
  <2>2. CASE n > q.last
    <3>1. n \in Positions /\ q.buffer[n] # NoEvent
      BY <1>1, <2>2 DEF DrainsTo, Positions, Consistent
    <3> QED BY <3>1 DEF Consistent, DeliveryInv, LogOK
  <2> QED BY <1>1, <2>1, <2>2
<1>3. /\ proj'.last = n
      /\ proj'.applied = [k \in Positions |-> IF q.last < k /\ k <= n
                                                THEN q.buffer[k] ELSE q.applied[k]]
      /\ proj'.buffer = [k \in Positions |-> IF q.last < k /\ k <= n
                                               THEN NoEvent ELSE q.buffer[k]]
  BY DEF Drained
<1>4. \A k \in Positions : k \in Int /\ k >= 1 /\ k <= MaxSeq
  BY <1>1 DEF Positions
<1>5. \A k \in Positions : q.last < k /\ k <= n => q.buffer[k] # NoEvent
  BY <1>1, <1>4 DEF DrainsTo
<1>6. \A k \in Positions : proj'.applied[k] = IF k <= n THEN outbox[k] ELSE NoEvent
  BY <1>1, <1>3, <1>4, <1>5 DEF Consistent
<1>7. \A k \in Positions : proj'.buffer[k] # NoEvent =>
        proj'.buffer[k] = outbox[k] /\ k > n + 1
  <2> SUFFICES ASSUME NEW k \in Positions, proj'.buffer[k] # NoEvent
               PROVE  proj'.buffer[k] = outbox[k] /\ k > n + 1
    OBVIOUS
  <2>1. ~(q.last < k /\ k <= n) /\ proj'.buffer[k] = q.buffer[k]
    BY <1>3
  <2>2. q.buffer[k] = outbox[k] /\ k > q.last
    BY <2>1 DEF Consistent
  <2>3. k # n + 1
    BY <1>1, <1>4, <2>1 DEF DrainsTo
  <2> QED BY <1>1, <1>4, <2>1, <2>2, <2>3
<1>8. \A k \in Positions : /\ proj'.applied[k] \in Event \cup {NoEvent}
                           /\ proj'.buffer[k] \in Event \cup {NoEvent}
  BY <1>6, <1>7, ProjectionTypes DEF EventColumn
<1>9. proj' \in Projection
  <2>1. proj'.applied \in EventColumn /\ proj'.buffer \in EventColumn
    BY <1>3, <1>8 DEF EventColumn
  <2>2. proj' = [last |-> proj'.last, applied |-> proj'.applied, buffer |-> proj'.buffer]
    BY DEF Drained
  <2> QED BY <1>1, <1>3, <2>1, <2>2 DEF Projection
<1> QED BY <1>1, <1>2, <1>3, <1>6, <1>7, <1>9 DEF ProjOK, BufferIsPastGap

\* ingest() keeps the projection in order and never moves it back; only
\* "apply" moves it.
LEMMA IngestProjects ==
  ASSUME DeliveryInv, NEW e \in wire, ingest(e)
  PROVE  proj' \in Projection /\ ProjOK' /\ proj'.last >= proj.last
<1>1. Stored(e) /\ e.seq \in Positions /\ e.seq <= last /\ outbox[e.seq] = e /\ e \in Event
      /\ e # NoEvent
  BY StoredPosition, NoEventAssumption DEF DeliveryInv, WireOK, Stored
<1>2. UNCHANGED <<outbox, last>>
  BY DEF ingest
<1>3. /\ proj.last \in 0..MaxSeq /\ last \in 0..MaxSeq /\ proj.last <= last
      /\ proj.applied \in EventColumn /\ proj.buffer \in EventColumn
      /\ \A k \in Positions : k \in Int
  BY ProjectionTypes DEF Positions
<1>4. /\ \A k \in Positions : proj.applied[k] = IF k <= proj.last THEN outbox[k] ELSE NoEvent
      /\ \A k \in Positions : proj.buffer[k] # NoEvent
           => proj.buffer[k] = outbox[k] /\ k > proj.last + 1
  BY DEF DeliveryInv, ProjOK, BufferIsPastGap
<1>5. CASE Decision(proj, e) = "buffer_gap" /\ proj' = Buffered(proj, e)
  <2>1. e.seq > proj.last + 1
    BY <1>1, <1>5, DecisionOnStored
  <2>2. /\ proj'.last = proj.last /\ proj'.applied = proj.applied
        /\ proj'.buffer = [proj.buffer EXCEPT ![e.seq] = e]
    BY <1>5 DEF Buffered
  <2>3. \A k \in Positions : proj'.buffer[k] = IF k = e.seq THEN e ELSE proj.buffer[k]
    BY <1>1, <1>3, <2>2 DEF EventColumn
  <2>4. proj'.buffer \in EventColumn
    BY <1>1, <1>3, <2>2 DEF EventColumn
  <2>5. proj' \in Projection
    BY <1>3, <1>5, <2>2, <2>4 DEF Projection, Buffered
  <2>6. ProjOK'
    BY <1>1, <1>2, <1>3, <1>4, <2>1, <2>2, <2>3 DEF ProjOK, BufferIsPastGap
  <2> QED BY <1>3, <2>2, <2>5, <2>6
<1>6. CASE \E n \in 0..MaxSeq : DrainsTo(proj, n) /\ proj' = Drained(proj, n)
  <2>1. Consistent(proj)
    BY <1>3, <1>4 DEF Consistent
  <2> QED BY <1>2, <1>6, <2>1, DrainKeeps
<1>7. CASE /\ Decision(proj, e) = "apply"
           /\ \E n \in 0..MaxSeq : /\ DrainsTo(Applied(proj, e), n)
                                   /\ proj' = Drained(Applied(proj, e), n)
  <2> DEFINE q == Applied(proj, e)
  <2>1. e.seq = proj.last + 1
    BY <1>1, <1>7, DecisionOnStored
  <2>2. /\ q.last = e.seq /\ q.buffer = proj.buffer
        /\ q.applied = [proj.applied EXCEPT ![e.seq] = e]
    BY DEF Applied
  <2>3. \A k \in Positions : q.applied[k] = IF k = e.seq THEN e ELSE proj.applied[k]
    BY <1>1, <1>3, <2>2 DEF EventColumn
  <2> HIDE DEF q
  <2>4. Consistent(q)
    <3>1. q.last \in 0..MaxSeq /\ q.last <= last
      BY <1>1, <1>3, <2>2 DEF Positions
    <3>2. \A k \in Positions : q.applied[k] = IF k <= q.last THEN outbox[k] ELSE NoEvent
      BY <1>1, <1>3, <1>4, <2>1, <2>2, <2>3
    <3>3. \A k \in Positions : q.buffer[k] # NoEvent => q.buffer[k] = outbox[k] /\ k > q.last
      BY <1>3, <1>4, <2>1, <2>2
    <3> QED BY <3>1, <3>2, <3>3 DEF Consistent
  <2>5. proj' \in Projection /\ ProjOK' /\ proj'.last >= q.last
    BY <1>2, <1>7, <2>4, DrainKeeps DEF q
  <2>6. proj'.last \in Int
    BY <2>5 DEF Projection
  <2> QED BY <1>3, <2>1, <2>2, <2>5, <2>6
<1> QED BY <1>5, <1>6, <1>7 DEF ingest

-----------------------------------------------------------------------------
(* The initial state, appends and the consumer.                            *)

\* The tables start empty and nobody holds anything.
LEMMA DeliveryInitially ==
  ASSUME Init
  PROVE  DeliveryInv
<1>1. NoDelivery \in DeliveryRow
  BY DeliveryTimeAssumption DEF NoDelivery, DeliveryRow
<1>2. NoEvents \in EventColumn /\ \A n \in Positions : NoEvents[n] = NoEvent
  BY DEF NoEvents, EventColumn
<1>3. 0 \in 0..MaxSeq /\ 0 \in 0..MaxFaults
  BY SeqAssumption, DeliveryBoundAssumption
<1>4. \A p \in Publishers : publisher[p] = Idle /\ InHand(p) = {}
  BY DEF Init, InHand, Idle
<1>5. DeliveryTypeOK
  <2>1. Idle \in Memory
    BY Zenon DEF Idle, Memory
  <2>2. proj \in Projection
    BY <1>2, <1>3 DEF Init, NewProjection, Projection
  <2>3. publisher \in [Publishers -> Memory]
    BY <2>1 DEF Init
  <2>4. tail \in [Tails -> [cursor : 0..MaxSeq, page : SUBSET Positions,
                            seen : SUBSET Positions]]
    BY <1>3 DEF Init
  <2>5. delivery \in [Positions -> DeliveryRow] /\ outbox \in EventColumn
        /\ writer \in [Writers -> Event \cup {NoEvent}]
    BY <1>1, <1>2 DEF Init
  <2>6. last \in 0..MaxSeq /\ faults \in 0..MaxFaults /\ wire \subseteq Event
    BY <1>3 DEF Init
  <2> QED BY <2>2, <2>3, <2>4, <2>5, <2>6 DEF DeliveryTypeOK, Memory
<1>6. LogOK
  <2>1. \A n \in Positions : outbox[n] = NoEvent /\ delivery[n].state = "absent"
    BY <1>2 DEF Init, NoDelivery
  <2>2. last = 0 /\ \A n \in Positions : n > 0 /\ ~(n <= 0)
    BY DEF Init, Positions
  <2> QED BY <2>1, <2>2 DEF LogOK
<1>7. WriterOK
  BY DEF Init, WriterOK
<1>8. ClaimsOK /\ ClaimIsUnique
  BY <1>4 DEF ClaimsOK, ClaimIsUnique, Idle
<1>9. AckedIsSent /\ WireOK
  BY DEF Init, AckedIsSent, WireOK, NoDelivery
<1>10. ProjOK
  BY <1>2 DEF Init, ProjOK, BufferIsPastGap, NewProjection, Positions
<1>11. TailOK
  <2>1. \A t \in Tails : tail[t].cursor = 0 /\ tail[t].page = {} /\ tail[t].seen = {}
    BY DEF Init
  <2>2. last = 0 /\ 1..0 = {}
    BY DEF Init
  <2>3. TailIsComplete
    BY <2>1, <2>2, Zenon DEF TailIsComplete
  <2>4. \A t \in Tails : tail[t].cursor <= last /\ tail[t].page = {}
    BY <2>1, <2>2
  <2> QED BY <2>3, <2>4 DEF TailOK
<1> QED BY <1>5, <1>6, <1>7, <1>8, <1>9, <1>10, <1>11 DEF DeliveryInv

\* ingest() keeps the invariant.
LEMMA IngestKeeps ==
  ASSUME DeliveryInv, NEW e \in wire, ingest(e)
  PROVE  DeliveryInv'
<1>1. UNCHANGED <<outbox, delivery, last, writer, publisher, wire, tail, faults>>
  BY DEF ingest
<1>2. proj' \in Projection /\ ProjOK'
  BY IngestProjects
<1>3. DeliveryTypeOK'
  BY <1>1, <1>2 DEF DeliveryInv, DeliveryTypeOK
<1>4. LogOK' /\ WriterOK' /\ ClaimsOK' /\ ClaimIsUnique' /\ AckedIsSent' /\ WireOK' /\ TailOK'
  BY <1>1, LogFrame, WriterFrame, ClaimsFrame, UniqueFrame, AckedFrame, WireFrame, TailFrame
     DEF DeliveryInv
<1> QED BY <1>2, <1>3, <1>4 DEF DeliveryInv

\* Every append step keeps the invariant.
LEMMA AppendKeeps ==
  ASSUME DeliveryInv, NEW w \in Writers, AppendStep(w)
  PROVE  DeliveryInv'
<1>1. ASSUME NEW id \in Ids, append_event(w, id) PROVE DeliveryInv'
  <2>1. last + 1 \in Positions
    <3>1. last \in 0..MaxSeq /\ last < MaxSeq
      BY <1>1 DEF append_event, DeliveryInv, DeliveryTypeOK
    <3> QED BY <3>1, SeqAssumption DEF Positions
  <2> DEFINE e == [seq |-> last + 1, id |-> id]
  <2>2. e \in Event \cup {NoEvent} /\ e.seq = last + 1 /\ e.id = id
    BY <2>1 DEF Event
  <2>3. writer' = [writer EXCEPT ![w] = e] /\ CaseUnlocked /\ ~HasId(outbox, id)
    BY <1>1 DEF append_event
  <2> HIDE DEF e
  <2> QED BY <1>1, <2>2, <2>3, WritersKeep, Zenon DEF append_event
<1>2. ASSUME NEW e \in Event, append_outbox(w, e) PROVE DeliveryInv'
  <2>1. /\ writer' = [writer EXCEPT ![w] = e]
        /\ CaseUnlocked /\ e.seq = last + 1 /\ ~HasId(outbox, e.id)
        /\ UNCHANGED <<outbox, delivery, last, publisher, wire, proj, tail, faults>>
    BY <1>2 DEF append_outbox
  <2> QED BY <2>1, WritersKeep, Zenon
<1>3. CASE RollbackAppend(w)
  BY <1>3, WritersKeep, ZenonT(40) DEF RollbackAppend
<1> QED BY <1>1, <1>2, <1>3, CommitKeeps DEF AppendStep

-----------------------------------------------------------------------------
(* The refinement.                                                         *)

\* Sequences that agree everywhere are equal, and what a prefix holds.
LEMMA SameSequence ==
  ASSUME NEW S, NEW s \in Seq(S), NEW t \in Seq(S), Len(s) = Len(t),
         \A n \in 1..Len(s) : s[n] = t[n]
  PROVE  s = t
OBVIOUS

LEMMA PrefixOf ==
  ASSUME NEW S, NEW s \in Seq(S), NEW k \in 0..Len(s)
  PROVE  /\ SubSeq(s, 1, k) \in Seq(S) /\ Len(SubSeq(s, 1, k)) = k
         /\ \A n \in 1..k : SubSeq(s, 1, k)[n] = s[n]
OBVIOUS

\* The log is a sequence of ids, and the consumed events are its prefix.
LogFacts ==
  /\ last \in Nat /\ proj.last \in Nat /\ proj.last <= last
  /\ Log \in Seq(Ids) /\ Len(Log) = last
  /\ \A n \in 1..last : Log[n] = outbox[n].id /\ outbox[n] # NoEvent /\ n \in Positions
  /\ Consumed \in Seq(Ids) /\ Len(Consumed) = proj.last
  /\ \A n \in 1..proj.last : Consumed[n] = Log[n]

\* The mapped tables are sequences (Log and Consumed).
LEMMA LogIsSequence ==
  ASSUME DeliveryInv
  PROVE  LogFacts
<1>1. /\ last \in 0..MaxSeq /\ proj.last \in 0..MaxSeq /\ proj.last <= last
      /\ outbox \in EventColumn
  BY ProjectionTypes
<1>2. \A n \in 1..last : n \in Positions /\ n <= MaxSeq
  BY <1>1, SeqAssumption DEF Positions
<1>3. \A n \in 1..last : outbox[n] # NoEvent /\ outbox[n].id \in Ids
  BY <1>1, <1>2 DEF DeliveryInv, LogOK, EventColumn, Event
<1>4. \A n \in 1..proj.last : n \in 1..last /\ proj.applied[n] = outbox[n]
  BY <1>1, <1>2 DEF DeliveryInv, ProjOK
<1>5. Log \in [1..last -> Ids] /\ Consumed \in [1..proj.last -> Ids]
  BY <1>3, <1>4 DEF Log, Consumed
<1>6. \A k \in Nat : \A f \in [1..k -> Ids] : f \in Seq(Ids) /\ Len(f) = k
  OBVIOUS
<1>7. last \in Nat /\ proj.last \in Nat
  BY <1>1
<1>8. Log \in Seq(Ids) /\ Len(Log) = last /\ Consumed \in Seq(Ids) /\ Len(Consumed) = proj.last
  BY <1>5, <1>6, <1>7
<1>9. \A n \in 1..last : Log[n] = outbox[n].id
  BY DEF Log
<1>10. \A n \in 1..proj.last : Consumed[n] = Log[n]
  BY <1>4, <1>9 DEF Consumed
<1> QED BY <1>1, <1>2, <1>3, <1>7, <1>8, <1>9, <1>10, ZenonT(40) DEF LogFacts

\* A commit publishes the next id in the stream.
LEMMA CommitPublishes ==
  ASSUME DeliveryInv, LogFacts, LogFacts', NEW w \in Writers, CommitAppend(w)
  PROVE  Stream!Next
<1> DEFINE id == writer[w].id
<1>1. /\ last' = last + 1 /\ last' \in Positions /\ writer[w] \in Event
      /\ outbox'[last'] = writer[w] /\ ~HasId(outbox, id)
      /\ \A n \in Positions : n # last' => outbox'[n] = outbox[n]
  BY CommitRow, ZenonT(40)
<1>0. id \in Ids /\ proj' = proj /\ last \in Nat
  BY <1>1, ZenonT(40) DEF CommitAppend, Event, LogFacts
<1>2. /\ Log \in Seq(Ids) /\ Len(Log) = last
      /\ \A n \in 1..last : Log[n] = outbox[n].id /\ outbox[n] # NoEvent /\ n \in Positions
  BY DEF LogFacts
<1>3. Log' \in Seq(Ids) /\ Len(Log') = last' /\ \A n \in 1..last' : Log'[n] = outbox'[n].id
  BY DEF LogFacts
<1>4. \A n \in DOMAIN Log : Log[n] # id
  BY <1>1, <1>2 DEF HasId
<1> HIDE DEF id
<1>5. Log' = Append(Log, id)
  <2>0. writer[w].id = id
    BY DEF id
  <2>1. /\ Append(Log, id) \in Seq(Ids) /\ Len(Append(Log, id)) = last + 1
        /\ \A n \in 1..last : Append(Log, id)[n] = Log[n]
        /\ Append(Log, id)[last + 1] = id
    BY <1>0, <1>1, <1>2
  <2>2. \A n \in 1..last + 1 : Log'[n] = Append(Log, id)[n]
    BY <1>0, <1>1, <1>2, <1>3, <2>0, <2>1
  <2> QED BY <1>1, <1>3, <2>1, <2>2, SameSequence
<1>6. Consumed' = Consumed
  BY <1>0 DEF Consumed
<1> QED BY <1>0, <1>4, <1>5, <1>6 DEF Stream!Next, Stream!Publish

\* An ingest consumes some of the stream in order, or nothing.
LEMMA IngestConsumes ==
  ASSUME DeliveryInv, LogFacts, LogFacts', NEW e \in wire, ingest(e)
  PROVE  Stream!Next \/ UNCHANGED <<Log, Consumed>>
<1>1. outbox' = outbox /\ last' = last /\ proj'.last >= proj.last
  BY IngestProjects DEF ingest
<1>2. Log' = Log
  BY <1>1 DEF Log
<1>3. /\ Log \in Seq(Ids) /\ Len(Log) = last /\ last \in Nat
      /\ Consumed \in Seq(Ids) /\ Len(Consumed) = proj.last /\ proj.last \in Nat
      /\ \A n \in 1..proj.last : Consumed[n] = Log[n]
  BY ZenonT(40) DEF LogFacts
<1>4. /\ Consumed' \in Seq(Ids) /\ Len(Consumed') = proj'.last
      /\ proj'.last \in Nat /\ proj'.last <= last
      /\ \A n \in 1..proj'.last : Consumed'[n] = Log[n]
  BY <1>1, <1>2, ZenonT(40) DEF LogFacts
<1>5. CASE proj'.last = proj.last
  <2>1. Consumed' = Consumed
    BY <1>3, <1>4, <1>5, SameSequence
  <2> QED BY <1>2, <2>1
<1>6. CASE proj'.last > proj.last
  <2> DEFINE k == proj'.last
  <2>1. k \in Len(Consumed) + 1 .. Len(Log)
    BY <1>3, <1>4, <1>6
  <2>2. k \in 0..Len(Log)
    BY <1>3, <1>4
  <2>3. /\ SubSeq(Log, 1, k) \in Seq(Ids)
        /\ Len(SubSeq(Log, 1, k)) = k
        /\ \A n \in 1..k : SubSeq(Log, 1, k)[n] = Log[n]
    BY <1>3, <2>2, PrefixOf
  <2>4. Consumed' = SubSeq(Log, 1, k)
    BY <1>4, <2>3, SameSequence
  <2> HIDE DEF k
  <2> QED BY <1>2, <2>1, <2>4 DEF Stream!Next, Stream!Consume
<1> QED BY <1>1, <1>3, <1>4, <1>5, <1>6

\* Every step is a step of the stream, or none.
LEMMA StreamStep ==
  ASSUME DeliveryInv, LogFacts, LogFacts', [Next]_vars
  PROVE  [Stream!Next]_(Stream!vars)
<1> SUFFICES Stream!Next \/ UNCHANGED <<Log, Consumed>>
  BY DEF Stream!vars
<1>1. CASE outbox' = outbox /\ last' = last /\ proj' = proj
  BY <1>1 DEF Log, Consumed
<1>2. \/ outbox' = outbox /\ last' = last /\ proj' = proj
      \/ \E w \in Writers : CommitAppend(w)
      \/ \E e \in wire : ingest(e)
  BY Zenon DEF Next, vars, AppendStep, PublisherStep, TailStep, append_event, append_outbox,
         RollbackAppend, claim_outbox, PublishOk, PublishRaise, Published, ack_outbox,
         retry_outbox, Crash, Poll, Yield, Reconnect, Tick
<1> QED BY <1>1, <1>2, CommitPublishes, IngestConsumes

\* No step takes an acknowledgement back.
LEMMA AckedStep ==
  ASSUME DeliveryInv, [Next]_vars
  PROVE  \A n \in Positions : delivery[n].state = "ACKED" =>
           delivery'[n].state = "ACKED" /\ outbox'[n] = outbox[n]
<1> DEFINE Final == \A n \in Positions : delivery[n].state = "ACKED" =>
                      delivery'[n].state = "ACKED" /\ outbox'[n] = outbox[n]
<1>1. delivery \in [Positions -> DeliveryRow]
  BY DEF DeliveryInv, DeliveryTypeOK
<1>2. CASE delivery' = delivery /\ outbox' = outbox
  BY <1>2
<1>3. ASSUME NEW w \in Writers, CommitAppend(w) PROVE Final
  BY <1>3, CommitRow
<1>4. ASSUME NEW p \in Publishers, NEW rows \in SUBSET Positions, claim_outbox(p, rows)
      PROVE  Final
  BY <1>4 DEF claim_outbox, Due
<1>5. ASSUME NEW p \in Publishers, ack_outbox(p) PROVE Final
  <2> DEFINE k == publisher[p].cur.event.seq
  <2>1. outbox' = outbox
        /\ \/ delivery' = delivery
           \/ /\ delivery[k].state = "CLAIMED"
              /\ delivery' = [delivery EXCEPT ![k] = AckedRow(delivery[k])]
    BY <1>5, ZenonT(40) DEF ack_outbox, HoldsDelivery
  <2> QED BY <1>1, <2>1
<1>6. ASSUME NEW p \in Publishers, retry_outbox(p) PROVE Final
  <2> DEFINE k == publisher[p].cur.event.seq
  <2>1. outbox' = outbox
        /\ \/ delivery' = delivery
           \/ /\ delivery[k].state = "CLAIMED"
              /\ delivery' = [delivery EXCEPT ![k] = RetriedRow(delivery[k])]
    BY <1>6, ZenonT(40) DEF retry_outbox, HoldsDelivery
  <2> QED BY <1>1, <2>1
<1>7. CASE Tick
  BY <1>7, ZenonT(40) DEF Tick, DeliveryAfter
<1>8. \/ delivery' = delivery /\ outbox' = outbox
      \/ \E w \in Writers : CommitAppend(w)
      \/ \E p \in Publishers : \/ \E rows \in SUBSET Positions : claim_outbox(p, rows)
                               \/ ack_outbox(p) \/ retry_outbox(p)
      \/ Tick
  BY ZenonT(40) DEF Next, vars, AppendStep, PublisherStep, TailStep, append_event, append_outbox,
              RollbackAppend, PublishOk, PublishRaise, Published, Crash, ingest, Poll,
              Yield, Reconnect
<1> QED BY <1>2, <1>3, <1>4, <1>5, <1>6, <1>7, <1>8, ZenonT(40)

-----------------------------------------------------------------------------
(* Tails.                                                                  *)

INSTANCE FiniteSetTheorems

\* An interval is finite.
LEMMA IntervalFinite == \A a, b \in Int : IsFiniteSet(a .. b)
BY FS_Interval

\* What a client's record must satisfy: TailOK for one client.
TailRecord == [cursor : 0..MaxSeq, page : SUBSET Positions, seen : SUBSET Positions]

Sound(rec) ==
  /\ rec \in TailRecord
  /\ rec.seen = 1 .. rec.cursor
  /\ rec.cursor <= last
  /\ \A n \in rec.page : /\ n > rec.cursor /\ n <= last
                         /\ \A m \in rec.cursor + 1 .. n : m \in rec.page

\* A step that leaves one client sound keeps the invariant.
LEMMA TailsKeep ==
  ASSUME DeliveryInv, NEW t \in Tails, NEW rec, Sound(rec),
         tail' = [tail EXCEPT ![t] = rec],
         UNCHANGED <<outbox, delivery, last, writer, publisher, wire, proj, faults>>
  PROVE  DeliveryInv'
<1>1. tail \in [Tails -> TailRecord] /\ rec \in TailRecord
  BY DEF DeliveryInv, DeliveryTypeOK, TailRecord, Sound
<1>2. tail' \in [Tails -> TailRecord]
  BY <1>1
<1>3. DeliveryTypeOK'
  BY <1>2, Zenon DEF DeliveryInv, DeliveryTypeOK, TailRecord
<1>4. \A u \in Tails : tail'[u] = IF u = t THEN rec ELSE tail[u]
  BY <1>1
<1>5. TailOK'
  BY <1>4 DEF DeliveryInv, TailOK, TailIsComplete, Sound
<1>6. LogOK' /\ WriterOK' /\ ClaimsOK' /\ ClaimIsUnique' /\ AckedIsSent' /\ WireOK' /\ ProjOK'
  BY LogFrame, WriterFrame, ClaimsFrame, UniqueFrame, AckedFrame, WireFrame, ProjFrame
     DEF DeliveryInv
<1> QED BY <1>3, <1>5, <1>6 DEF DeliveryInv

\* Every step of a client keeps the invariant: pages have no hole because
\* the committed positions have none.
LEMMA TailKeeps ==
  ASSUME DeliveryInv, NEW t \in Tails, TailStep(t)
  PROVE  DeliveryInv'
<1> DEFINE rec == tail[t]
<1>1. Sound(rec)
  BY DEF DeliveryInv, DeliveryTypeOK, TailOK, TailIsComplete, TailRecord, Sound
<1>2. /\ rec.cursor \in 0..MaxSeq /\ rec.page \in SUBSET Positions /\ last \in 0..MaxSeq
      /\ rec.seen \in SUBSET Positions
      /\ \A n \in Positions : n \in Int /\ n >= 1 /\ n <= MaxSeq
      /\ MaxSeq \in Int
      /\ tail \in [Tails -> TailRecord]
  BY <1>1, SeqAssumption DEF Sound, TailRecord, DeliveryInv, DeliveryTypeOK, Positions
<1>3. \A n \in Positions : outbox[n] # NoEvent <=> n <= last
  BY DEF DeliveryInv, LogOK
<1>4. UNCHANGED <<outbox, delivery, last, writer, publisher, wire, proj, faults>>
  BY DEF TailStep, Poll, Yield, Reconnect
<1> HIDE DEF rec
<1>5. CASE Poll(t)
  <2> DEFINE page == Page(outbox, rec.cursor, TailLimit)
  <2> DEFINE new == [cursor |-> rec.cursor, page |-> page, seen |-> rec.seen]
  <2> DEFINE Upto(n) == {m \in rec.cursor + 1 .. n : outbox[m] # NoEvent}
  <2>1. tail' = [tail EXCEPT ![t] = new]
    BY <1>5 DEF Poll, rec
  <2>2. ASSUME NEW n \in page, NEW m \in rec.cursor + 1 .. n
        PROVE  n > rec.cursor /\ n <= last /\ m \in page
    <3>1. /\ n \in Positions /\ n > rec.cursor /\ outbox[n] # NoEvent
          /\ Cardinality(Upto(n)) <= TailLimit
      BY DEF Page
    <3>2. m \in Positions /\ m > rec.cursor /\ m <= n /\ n <= last
      BY <1>2, <1>3, <2>2, <3>1 DEF Positions
    <3>3. outbox[m] # NoEvent
      BY <1>2, <1>3, <3>1, <3>2
    <3>4. IsFiniteSet(Upto(n))
      <4>0. rec.cursor + 1 \in Int /\ n \in Int
        BY <1>2, <3>1
      <4>1. IsFiniteSet(rec.cursor + 1 .. n)
        BY <4>0, IntervalFinite, Zenon
      <4> QED BY <4>1, FS_Subset, ZenonT(40)
    <3>5. Upto(m) \in SUBSET Upto(n)
      BY <1>2, <3>1, <3>2
    <3>6. /\ Cardinality(Upto(m)) <= Cardinality(Upto(n))
          /\ Cardinality(Upto(m)) \in Nat /\ Cardinality(Upto(n)) \in Nat
      BY <3>4, <3>5, FS_Subset, FS_CardinalityType
    <3>7. Cardinality(Upto(m)) <= TailLimit
      BY <3>1, <3>6, DeliveryBoundAssumption
    <3> QED BY <3>1, <3>2, <3>3, <3>7 DEF Page
  <2>3. ASSUME NEW n \in page
        PROVE  /\ n > rec.cursor /\ n <= last
               /\ \A m \in rec.cursor + 1 .. n : m \in page
    <3>1. n \in Positions /\ n > rec.cursor
      BY DEF Page
    <3>2. n \in rec.cursor + 1 .. n
      BY <1>2, <3>1
    <3> QED BY <2>2, <3>2
  <2>4. page \in SUBSET Positions
    BY DEF Page
  <2> HIDE DEF page
  <2>5. Sound(new)
    BY <1>1, <1>2, <2>3, <2>4 DEF Sound, TailRecord
  <2> QED BY <1>4, <2>1, <2>5, TailsKeep, ZenonT(40)
<1>6. CASE Yield(t)
  <2>1. PICK n \in rec.page :
          /\ \A m \in rec.page : n <= m
          /\ tail' = [tail EXCEPT ![t] = [cursor |-> n, page |-> rec.page \ {n},
                                          seen |-> rec.seen \cup {n}]]
    BY <1>2, <1>6, ZenonT(40) DEF Yield, rec
  <2> DEFINE new == [cursor |-> n, page |-> rec.page \ {n}, seen |-> rec.seen \cup {n}]
  <2>2. n \in Positions /\ n > rec.cursor /\ n <= last
        /\ \A m \in rec.cursor + 1 .. n : m \in rec.page
    BY <1>1, <1>2 DEF Sound
  <2>3. n = rec.cursor + 1
    <3>1. rec.cursor + 1 \in rec.page
      BY <1>2, <2>2
    <3> QED BY <1>2, <2>1, <2>2, <3>1
  <2>4. rec.seen \cup {n} = 1..n
    BY <1>1, <1>2, <2>3 DEF Sound
  <2>5. \A k \in rec.page \ {n} : /\ k > n /\ k <= last
                                  /\ \A m \in n + 1 .. k : m \in rec.page \ {n}
    <3> SUFFICES ASSUME NEW k \in rec.page \ {n}
                 PROVE  k > n /\ k <= last /\ \A m \in n + 1 .. k : m \in rec.page \ {n}
      OBVIOUS
    <3>1. k \in Int /\ n \in Int /\ n <= k /\ k # n /\ k <= last
      BY <1>1, <1>2, <2>1, <2>2 DEF Sound
    <3>2. \A m \in rec.cursor + 1 .. k : m \in rec.page
      BY <1>1 DEF Sound
    <3> QED BY <1>2, <2>3, <3>1, <3>2
  <2>6. new \in TailRecord
    BY <1>2, <2>2 DEF TailRecord
  <2>7. Sound(new)
    BY <2>2, <2>4, <2>5, <2>6 DEF Sound
  <2> QED BY <1>4, <2>1, <2>7, TailsKeep, Zenon
<1>7. CASE Reconnect(t)
  <2> DEFINE new == [cursor |-> rec.cursor, page |-> {}, seen |-> rec.seen]
  <2>1. tail' = [tail EXCEPT ![t] = new]
    BY <1>7 DEF Reconnect, rec
  <2>2. Sound(new)
    BY <1>1, <1>2, Zenon DEF Sound, TailRecord
  <2> QED BY <1>4, <2>1, <2>2, TailsKeep, Zenon
<1> QED BY <1>5, <1>6, <1>7 DEF TailStep

-----------------------------------------------------------------------------
(* The invariant and what follows from it.                                 *)

\* No step, of whatever process, breaks the invariant.
LEMMA DeliveryNext ==
  ASSUME DeliveryInv, [Next]_vars
  PROVE  DeliveryInv'
<1>1. CASE UNCHANGED vars
  <2> USE <1>1 DEF vars
  <2>1. DeliveryTypeOK'
    BY DEF DeliveryInv, DeliveryTypeOK
  <2>2. LogOK' /\ WriterOK' /\ ClaimsOK' /\ ClaimIsUnique'
    BY LogFrame, WriterFrame, ClaimsFrame, UniqueFrame DEF DeliveryInv
  <2>3. AckedIsSent' /\ WireOK' /\ ProjOK' /\ TailOK'
    BY AckedFrame, WireFrame, ProjFrame, TailFrame DEF DeliveryInv
  <2> QED BY <2>1, <2>2, <2>3 DEF DeliveryInv
<1> QED BY <1>1, AppendKeeps, PublisherKeeps, IngestKeeps, TailKeeps, TickKeeps DEF Next

\* The invariant is inductive.
THEOREM DeliveryInvariant == Spec => []DeliveryInv
<1>1. Init => DeliveryInv
  BY DeliveryInitially
<1>2. DeliveryInv /\ [Next]_vars => DeliveryInv'
  BY DeliveryNext
<1> QED BY <1>1, <1>2, PTL DEF Spec

\* Types hold throughout.
THEOREM DeliveryTypeCorrect == Spec => []DeliveryTypeOK
BY DeliveryInvariant, PTL DEF DeliveryInv

\* Claims of one event are told apart by their attempt (claim_outbox()).
THEOREM ClaimsUnique == Spec => []ClaimIsUnique
BY DeliveryInvariant, PTL DEF DeliveryInv

\* Delivery is at least once: nothing is acknowledged that was not sent
\* (publish_once()).
THEOREM AckedSent == Spec => []AckedIsSent
BY DeliveryInvariant, PTL DEF DeliveryInv

\* The consumer never meets a CONFLICT (ingest()).
THEOREM NoIngestConflict == Spec => []IngestNeverConflicts
<1>1. DeliveryInv => IngestNeverConflicts
  BY DecisionOnStored DEF DeliveryInv, WireOK, IngestNeverConflicts
<1> QED BY <1>1, DeliveryInvariant, PTL

\* The gap buffer never holds what could be applied (_drain()).
THEOREM BufferPastGap == Spec => []BufferIsPastGap
<1>1. DeliveryInv => BufferIsPastGap
  BY DEF DeliveryInv, ProjOK
<1> QED BY <1>1, DeliveryInvariant, PTL

\* No client of the event stream misses an event (PostgresEventTail).
THEOREM TailsComplete == Spec => []TailIsComplete
<1>1. DeliveryInv => TailIsComplete
  BY DEF DeliveryInv, TailOK
<1> QED BY <1>1, DeliveryInvariant, PTL

\* An acknowledgement is final (ack_outbox(), retry_outbox()).
THEOREM AckedStays == Spec => AckedIsFinal
<1> DEFINE Final == \A n \in Positions : delivery[n].state = "ACKED" =>
                      delivery'[n].state = "ACKED" /\ outbox'[n] = outbox[n]
<1>1. DeliveryInv /\ [Next]_vars => [Final]_vars
  BY AckedStep, Zenon
<1> QED BY <1>1, DeliveryInvariant, PTL DEF Spec, AckedIsFinal

\* The event tables implement the in-order stream: a consumer sees the
\* committed events of the Case in order, none missing and none twice, under
\* every interleaving of appends, rollbacks, retries, takeovers, duplicates
\* and reorderings (append_event(), publish_once(), ingest()).
THEOREM DeliveryRefinesStream == Spec => InOrderStream
<1>1. Init => Stream!Init
  <2> SUFFICES ASSUME Init PROVE Log = << >> /\ Consumed = << >>
    BY DEF Stream!Init
  <2>1. last = 0 /\ proj.last = 0 /\ 1..0 = {}
    BY DEF Init, NewProjection
  <2> QED BY <2>1 DEF Log, Consumed
<1>2. DeliveryInv => LogFacts
  BY LogIsSequence
<1>3. DeliveryInv /\ LogFacts /\ LogFacts' /\ [Next]_vars => [Stream!Next]_(Stream!vars)
  BY StreamStep
<1> QED BY <1>1, <1>2, <1>3, DeliveryInvariant, PTL DEF Spec, InOrderStream, Stream!Spec
=============================================================================
