------------------------------- MODULE Delivery -------------------------------
(***************************************************************************)
(* The events of one Case on their way out: transactions that append them, *)
(* publishers that claim, publish and acknowledge them, a broker, a        *)
(* consumer that keeps a projection, and clients that tail the table.      *)
(*                                                                         *)
(* An append is two actions, so that the time between the insert and the   *)
(* commit of its transaction is seen; every other transaction is one.      *)
(* Publishing happens outside transactions and is an action of its own.    *)
(***************************************************************************)
EXTENDS OutboxTable

CONSTANTS Writers,     \* transactions that append events
          Publishers,  \* publisher processes
          OwnerOf,     \* the delivery_owner each publisher runs under
          Tails,       \* clients of the event stream
          TailLimit,   \* page size of a tail
          NoClaim,     \* no delivery in hand
          MaxFaults    \* bound: crashes, broker errors and overrun leases

ASSUME OwnerOfAssumption == OwnerOf \in [Publishers -> Owners]
ASSUME DeliveryBoundAssumption == MaxFaults \in Nat /\ TailLimit \in Nat \ {0}

VARIABLES outbox,      \* aftercare_outbox: the event at each position
          delivery,    \* its delivery columns
          last,        \* last_case_seq of aftercare_case_event_sequences
          writer,      \* the uncommitted event of each open transaction
          publisher,   \* publish_once() of each publisher
          wire,        \* events the broker has accepted
          proj,        \* the consumer's projection tables
          tail,        \* cursor, unread page and events yielded, per client
          faults

vars == <<outbox, delivery, last, writer, publisher, wire, proj, tail, faults>>

\* An OutboxDelivery in a publisher's memory.
Claim == [event : Event, attempts : Nat]

ASSUME NoClaimAssumption == NoClaim \notin Claim

\* batch: deliveries not yet published; cur: the one published last, its
\* outcome in ok, to be acknowledged or retried next.
Idle == [batch |-> {}, cur |-> NoClaim, ok |-> FALSE]

InHand(p) == publisher[p].batch \cup ({publisher[p].cur} \ {NoClaim})

Init ==
  /\ outbox = NoEvents
  /\ delivery = [n \in Positions |-> NoDelivery]
  /\ last = 0
  /\ writer = [w \in Writers |-> NoEvent]
  /\ publisher = [p \in Publishers |-> Idle]
  /\ wire = {}
  /\ proj = NewProjection
  /\ tail = [t \in Tails |-> [cursor |-> 0, page |-> {}, seen |-> {}]]
  /\ faults = 0

-----------------------------------------------------------------------------
(* Appending.  The Case row and the sequence row are locked until the      *)
(* transaction ends, so that one writer at a time is past this point.      *)

CaseUnlocked == \A w \in Writers : writer[w] = NoEvent

\* Mutant of append_event: the sequence row is read without a lock.
append_eventUnlocked(w, id) ==
  /\ writer[w] = NoEvent
  /\ ~HasId(outbox, id)
  /\ last < MaxSeq
  /\ writer' = [writer EXCEPT ![w] = [seq |-> last + 1, id |-> id]]
  /\ UNCHANGED <<outbox, delivery, last, publisher, wire, proj, tail, faults>>

\* append_event(), up to the commit.  An id that is already stored is a
\* replay or a CONFLICT and writes nothing.
append_event(w, id) ==
  /\ CaseUnlocked
  /\ ~HasId(outbox, id)
  /\ last < MaxSeq
  /\ writer' = [writer EXCEPT ![w] = [seq |-> last + 1, id |-> id]]
  /\ UNCHANGED <<outbox, delivery, last, publisher, wire, proj, tail, faults>>

\* append_outbox(), up to the commit: the caller names the position, and any
\* but the next one is refused.
append_outbox(w, e) ==
  /\ CaseUnlocked
  /\ ~HasId(outbox, e.id)
  /\ e.seq = last + 1
  /\ writer' = [writer EXCEPT ![w] = e]
  /\ UNCHANGED <<outbox, delivery, last, publisher, wire, proj, tail, faults>>

\* The transaction of the append commits: row and counter become visible.
CommitAppend(w) ==
  /\ writer[w] # NoEvent
  /\ outbox' = [outbox EXCEPT ![writer[w].seq] = writer[w]]
  /\ delivery' = [delivery EXCEPT ![writer[w].seq] = NewDelivery]
  /\ last' = writer[w].seq
  /\ writer' = [writer EXCEPT ![w] = NoEvent]
  /\ UNCHANGED <<publisher, wire, proj, tail, faults>>

\* It rolls back: the position is free again.
RollbackAppend(w) ==
  /\ writer[w] # NoEvent
  /\ writer' = [writer EXCEPT ![w] = NoEvent]
  /\ UNCHANGED <<outbox, delivery, last, publisher, wire, proj, tail, faults>>

-----------------------------------------------------------------------------
(* publish_once().                                                         *)

\* claim_outbox().  SKIP LOCKED and LIMIT leave out any of the due rows.
claim_outbox(p, rows) ==
  /\ publisher[p] = Idle
  /\ rows # {} /\ \A n \in rows : Due(delivery[n])
  /\ delivery' = [n \in Positions |-> IF n \in rows
                                        THEN ClaimedRow(delivery[n], OwnerOf[p])
                                        ELSE delivery[n]]
  /\ publisher' = [publisher EXCEPT
                     ![p] = [batch |-> {[event |-> outbox[n],
                                         attempts |-> delivery'[n].attempts] : n \in rows},
                             cur |-> NoClaim, ok |-> FALSE]]
  /\ UNCHANGED <<outbox, last, writer, wire, proj, tail, faults>>

\* publisher.publish() returns, or raises: then the broker may have the
\* event all the same.
Published(p, c, ok) ==
  /\ publisher[p].cur = NoClaim
  /\ c \in publisher[p].batch
  /\ publisher' = [publisher EXCEPT ![p] = [batch |-> @.batch \ {c}, cur |-> c,
                                            ok |-> ok]]
  /\ UNCHANGED <<outbox, delivery, last, writer, proj, tail>>

PublishOk(p, c) ==
  /\ Published(p, c, TRUE)
  /\ wire' = wire \cup {c.event}
  /\ UNCHANGED faults

PublishRaise(p, c) ==
  /\ faults < MaxFaults
  /\ Published(p, c, FALSE)
  /\ wire' \in {wire, wire \cup {c.event}}
  /\ faults' = faults + 1

\* The loop goes on with the rest of the batch.
NextDelivery(p) ==
  publisher' = [publisher EXCEPT ![p] = [batch |-> @.batch, cur |-> NoClaim, ok |-> FALSE]]

\* An exception leaves publish_once(): the rest of the batch is abandoned.
Abandon(p) == publisher' = [publisher EXCEPT ![p] = Idle]

\* Mutant of ack_outbox: the outcome of publish() is not looked at.
ack_outboxAlways(p) ==
  LET c == publisher[p].cur
      n == c.event.seq
  IN  /\ c # NoClaim
      /\ \/ /\ HoldsDelivery(delivery[n], OwnerOf[p], c.attempts)
            /\ delivery' = [delivery EXCEPT ![n] = AckedRow(delivery[n])]
            /\ NextDelivery(p)
         \/ /\ delivery[n].state = "ACKED"
            /\ NextDelivery(p) /\ UNCHANGED delivery
      /\ UNCHANGED <<outbox, last, writer, wire, proj, tail, faults>>

\* ack_outbox(): a row already ACKED counts as acknowledged, any other row
\* not held any more is LEASE_LOST.
ack_outbox(p) ==
  LET c == publisher[p].cur
      n == c.event.seq
  IN  /\ c # NoClaim /\ publisher[p].ok
      /\ \/ /\ HoldsDelivery(delivery[n], OwnerOf[p], c.attempts)
            /\ delivery' = [delivery EXCEPT ![n] = AckedRow(delivery[n])]
            /\ NextDelivery(p)
         \/ /\ delivery[n].state = "ACKED"
            /\ NextDelivery(p) /\ UNCHANGED delivery
         \/ /\ ~HoldsDelivery(delivery[n], OwnerOf[p], c.attempts)
            /\ delivery[n].state # "ACKED"
            /\ Abandon(p) /\ UNCHANGED delivery
      /\ UNCHANGED <<outbox, last, writer, wire, proj, tail, faults>>

\* retry_outbox(): LEASE_LOST, or CONFLICT on an ACKED row, if not held.
retry_outbox(p) ==
  LET c == publisher[p].cur
      n == c.event.seq
  IN  /\ c # NoClaim /\ ~publisher[p].ok
      /\ \/ /\ HoldsDelivery(delivery[n], OwnerOf[p], c.attempts)
            /\ delivery' = [delivery EXCEPT ![n] = RetriedRow(delivery[n])]
            /\ NextDelivery(p)
         \/ /\ ~HoldsDelivery(delivery[n], OwnerOf[p], c.attempts)
            /\ Abandon(p) /\ UNCHANGED delivery
      /\ UNCHANGED <<outbox, last, writer, wire, proj, tail, faults>>

\* The publisher process dies, or the transaction of an ack or retry fails.
Crash(p) ==
  /\ publisher[p] # Idle
  /\ faults < MaxFaults
  /\ faults' = faults + 1
  /\ Abandon(p)
  /\ UNCHANGED <<outbox, delivery, last, writer, wire, proj, tail>>

-----------------------------------------------------------------------------
(* ProjectionRepository.ingest() of an event the broker hands over, at any *)
(* time, in any order and any number of times.  A conflict changes nothing.*)
ingest(e) ==
  /\ e \in wire
  /\ LET d == Decision(proj, e)
     IN  \/ /\ d = "buffer_gap"
            /\ proj' = Buffered(proj, e)
         \/ /\ d = "retained"
            /\ \E n \in 0..MaxSeq : DrainsTo(proj, n) /\ proj' = Drained(proj, n)
         \/ /\ d = "apply"
            /\ \E n \in 0..MaxSeq : /\ DrainsTo(Applied(proj, e), n)
                                    /\ proj' = Drained(Applied(proj, e), n)
  /\ UNCHANGED <<outbox, delivery, last, writer, publisher, wire, tail, faults>>

-----------------------------------------------------------------------------
(* PostgresEventTail.                                                      *)

\* One poll: the page is read in a transaction that ends before the yields.
Poll(t) ==
  /\ tail[t].page = {}
  /\ tail' = [tail EXCEPT ![t] = [cursor |-> @.cursor, seen |-> @.seen,
                                  page |-> Page(outbox, @.cursor, TailLimit)]]
  /\ UNCHANGED <<outbox, delivery, last, writer, publisher, wire, proj, faults>>

\* The next event of the page goes to the client.
Yield(t) ==
  \E n \in tail[t].page :
    /\ \A m \in tail[t].page : n <= m
    /\ tail' = [tail EXCEPT ![t] = [cursor |-> n, page |-> @.page \ {n},
                                    seen |-> @.seen \cup {n}]]
    /\ UNCHANGED <<outbox, delivery, last, writer, publisher, wire, proj, faults>>

\* The stream ends, or breaks; the client comes back with Last-Event-ID.
Reconnect(t) ==
  /\ tail[t].page # {}
  /\ tail' = [tail EXCEPT ![t] = [cursor |-> @.cursor, page |-> {}, seen |-> @.seen]]
  /\ UNCHANGED <<outbox, delivery, last, writer, publisher, wire, proj, faults>>

-----------------------------------------------------------------------------
(* The database clock.  A lease that runs out in a live publisher's hand   *)
(* counts as a fault.                                                      *)

Overrun ==
  \E p \in Publishers : \E c \in InHand(p) :
    /\ HoldsDelivery(delivery[c.event.seq], OwnerOf[p], c.attempts)
    /\ delivery[c.event.seq].lease = 1

Tick ==
  /\ faults' = IF Overrun THEN faults + 1 ELSE faults
  /\ faults' <= MaxFaults
  /\ delivery' = [n \in Positions |-> DeliveryAfter(delivery[n])]
  /\ UNCHANGED <<outbox, last, writer, publisher, wire, proj, tail>>

-----------------------------------------------------------------------------
AppendStep(w) ==
  \/ \E id \in Ids : append_event(w, id)
  \/ \E e \in Event : append_outbox(w, e)
  \/ CommitAppend(w)
  \/ RollbackAppend(w)

PublisherStep(p) ==
  \/ \E rows \in SUBSET Positions : claim_outbox(p, rows)
  \/ \E c \in publisher[p].batch : PublishOk(p, c) \/ PublishRaise(p, c)
  \/ ack_outbox(p)
  \/ retry_outbox(p)
  \/ Crash(p)

TailStep(t) == Poll(t) \/ Yield(t) \/ Reconnect(t)

Next ==
  \/ \E w \in Writers : AppendStep(w)
  \/ \E p \in Publishers : PublisherStep(p)
  \/ \E e \in wire : ingest(e)
  \/ \E t \in Tails : TailStep(t)
  \/ Tick

Spec == Init /\ [][Next]_vars

-----------------------------------------------------------------------------
(* Properties.                                                             *)

\* Every column and every process's memory stays within its type.
DeliveryTypeOK ==
  /\ outbox \in EventColumn
  /\ delivery \in [Positions -> DeliveryRow]
  /\ last \in 0..MaxSeq
  /\ writer \in [Writers -> Event \cup {NoEvent}]
  /\ publisher \in [Publishers -> [batch : SUBSET Claim, cur : Claim \cup {NoClaim},
                                   ok : BOOLEAN]]
  /\ wire \subseteq Event
  /\ proj \in Projection
  /\ tail \in [Tails -> [cursor : 0..MaxSeq, page : SUBSET Positions,
                         seen : SUBSET Positions]]
  /\ faults \in 0..MaxFaults

\* Two publishers, even under one owner name, never hold the same attempt of
\* an event: at most one of them can acknowledge or retry it (claim_outbox(),
\* events.py 330-336).
ClaimIsUnique ==
  \A p, q \in Publishers : p # q =>
    \A c \in InHand(p), d \in InHand(q) :
      c.event.seq = d.event.seq => c.attempts # d.attempts

\* An acknowledged event is with the broker, whatever crashed, expired or was
\* retried in between: delivery is at least once (publish_once()).
AckedIsSent ==
  \A n \in Positions : delivery[n].state = "ACKED" => outbox[n] \in wire

\* What the broker holds never contradicts what the consumer has stored:
\* ingest() raises no CONFLICT on any redelivery, reordering or duplicate.
IngestNeverConflicts == \A e \in wire : Decision(proj, e) # "conflict"

\* An event whose predecessors have all been applied is applied too, in whatever
\* order they came: none is left behind in the gap buffer, where nothing would
\* look for it until the next delivery (_drain(), projection.py 168-203).
BufferIsPastGap ==
  \A n \in Positions : proj.buffer[n] # NoEvent => n > proj.last + 1

\* A client has been shown every event up to its cursor, though rows are
\* committed while it pages and it may reconnect at any point
\* (list_case_events(), PostgresEventTail).
TailIsComplete == \A t \in Tails : tail[t].seen = 1 .. tail[t].cursor

\* An acknowledged row is never claimed, retried or rewritten again
\* (ack_outbox(), retry_outbox()).
AckedIsFinal ==
  [][\A n \in Positions : delivery[n].state = "ACKED" =>
       delivery'[n].state = "ACKED" /\ outbox'[n] = outbox[n]]_vars

\* The log and the consumed prefix that the tables stand for.
Log == [n \in 1..last |-> outbox[n].id]
Consumed == [n \in 1..proj.last |-> proj.applied[n].id]

Stream == INSTANCE EventStream WITH log <- Log, consumed <- Consumed

\* The tables implement the in-order event stream: the consumer applies the
\* Case's events in commit order, none missing and none twice (append_event(),
\* ingest()).
InOrderStream == Stream!Spec

-----------------------------------------------------------------------------
(* The inductive invariant behind the safety properties.                   *)

Stored(e) == e \in Event /\ outbox[e.seq] = e

\* Committed positions are 1..last, each with its own id and delivery row.
LogOK ==
  /\ \A n \in Positions : outbox[n] # NoEvent <=> n <= last
  /\ \A n \in Positions : outbox[n] # NoEvent => outbox[n].seq = n
  /\ \A m, n \in Positions :
       outbox[m] # NoEvent /\ outbox[n] # NoEvent /\ outbox[m].id = outbox[n].id => m = n
  /\ \A n \in Positions : delivery[n].state = "absent" <=> n > last

\* One transaction at a time holds the next position, for a new id.
WriterOK ==
  \A w \in Writers : writer[w] # NoEvent =>
    /\ writer[w].seq = last + 1
    /\ ~HasId(outbox, writer[w].id)
    /\ \A v \in Writers : v # w => writer[v] = NoEvent

\* What publishers hold is committed and of no later attempt than the row.
ClaimsOK ==
  \A p \in Publishers :
    /\ \A c \in InHand(p) :
         Stored(c.event) /\ c.attempts <= delivery[c.event.seq].attempts
    /\ publisher[p].cur # NoClaim /\ publisher[p].ok => publisher[p].cur.event \in wire

WireOK == \A e \in wire : Stored(e)

\* Applied is the committed prefix; the buffer copies rows past the gap.
ProjOK ==
  /\ proj.last <= last
  /\ \A n \in Positions :
       proj.applied[n] = IF n <= proj.last THEN outbox[n] ELSE NoEvent
  /\ \A n \in Positions : proj.buffer[n] # NoEvent => proj.buffer[n] = outbox[n]
  /\ BufferIsPastGap

\* A page starts right after the cursor and has no hole.
TailOK ==
  /\ TailIsComplete
  /\ \A t \in Tails :
       /\ tail[t].cursor <= last
       /\ \A n \in tail[t].page :
            /\ n > tail[t].cursor /\ n <= last
            /\ \A m \in tail[t].cursor + 1 .. n : m \in tail[t].page

DeliveryInv ==
  /\ DeliveryTypeOK
  /\ LogOK /\ WriterOK
  /\ ClaimsOK /\ ClaimIsUnique /\ AckedIsSent
  /\ WireOK /\ ProjOK /\ TailOK
=============================================================================
