----------------------------- MODULE OutboxTable ------------------------------
(***************************************************************************)
(* The rows of aftercare_outbox and of the projection tables of one Case,  *)
(* and the statements that EventRepository and ProjectionRepository issue  *)
(* against them.                                                           *)
(*                                                                         *)
(* An event is its position and its event_id: an id stands for the whole   *)
(* immutable content.  As in RunTable, a timestamp is the time left until  *)
(* it, in clock ticks.                                                     *)
(***************************************************************************)
EXTENDS Integers, FiniteSets

CONSTANTS MaxSeq,      \* bound: positions of the Case
          Ids,         \* event_id values
          NoEvent,     \* no row
          Owners,      \* delivery_owner strings
          NoOwner,     \* SQL NULL in delivery_owner
          Lease,       \* length of a delivery lease, in clock ticks
          RetryDelay   \* retry_delay of publish_once(), in clock ticks

Positions == 1..MaxSeq

Event == [seq : Positions, id : Ids]

ASSUME SeqAssumption == MaxSeq \in Nat
ASSUME DeliveryTimeAssumption == Lease \in Nat \ {0} /\ RetryDelay \in Nat
ASSUME NoEventAssumption == NoEvent \notin Event
ASSUME NoDeliveryOwnerAssumption == NoOwner \notin Owners

-----------------------------------------------------------------------------
(* Delivery columns.                                                       *)

DeliveryRow == [state : {"absent", "PENDING", "CLAIMED", "ACKED"},
                owner : Owners \cup {NoOwner}, attempts : Nat,
                lease : 0..Lease, next : 0..RetryDelay]

NoDelivery == [state |-> "absent", owner |-> NoOwner, attempts |-> 0,
               lease |-> 0, next |-> 0]

\* The column defaults of a row just inserted.
NewDelivery == [state |-> "PENDING", owner |-> NoOwner, attempts |-> 0,
                lease |-> 0, next |-> 0]

\* The candidates of claim_outbox().
Due(row) ==
  \/ row.state = "PENDING" /\ row.next = 0
  \/ row.state = "CLAIMED" /\ row.lease = 0

\* The UPDATE of claim_outbox(); next_attempt_at stays.
ClaimedRow(row, owner) ==
  [state |-> "CLAIMED", owner |-> owner, attempts |-> row.attempts + 1,
   lease |-> Lease, next |-> row.next]

\* The WHERE clause of ack_outbox() and of retry_outbox().
HoldsDelivery(row, owner, attempts) ==
  /\ row.state = "CLAIMED"
  /\ row.owner = owner
  /\ row.attempts = attempts
  /\ row.lease > 0

AckedRow(row) ==
  [state |-> "ACKED", owner |-> NoOwner, attempts |-> row.attempts,
   lease |-> 0, next |-> row.next]

RetriedRow(row) ==
  [state |-> "PENDING", owner |-> NoOwner, attempts |-> row.attempts,
   lease |-> 0, next |-> RetryDelay]

OneLess(n) == IF n > 0 THEN n - 1 ELSE 0

\* A delivery row one clock tick later.
DeliveryAfter(row) ==
  [state |-> row.state, owner |-> row.owner, attempts |-> row.attempts,
   lease |-> OneLess(row.lease), next |-> OneLess(row.next)]

-----------------------------------------------------------------------------
(* A consumer's projection: last_case_seq of its position row, and the     *)
(* events of its applied and buffer tables by case_seq.                    *)

EventColumn == [Positions -> Event \cup {NoEvent}]

Projection == [last : 0..MaxSeq, applied : EventColumn, buffer : EventColumn]

NoEvents == [n \in Positions |-> NoEvent]

NewProjection == [last |-> 0, applied |-> NoEvents, buffer |-> NoEvents]

HasId(table, id) == \E n \in Positions : table[n] # NoEvent /\ table[n].id = id

\* What ingest() decides on event e.  A row that agrees with e in id agrees
\* with it in everything or the ingest is refused.
Decision(p, e) ==
  IF HasId(p.applied, e.id)
    THEN IF p.applied[e.seq] = e /\ p.last >= e.seq THEN "replay" ELSE "conflict"
  ELSE IF HasId(p.buffer, e.id)
    THEN IF p.buffer[e.seq] = e THEN "retained" ELSE "conflict"
  ELSE IF \/ p.applied[e.seq] # NoEvent
          \/ p.buffer[e.seq] # NoEvent
          \/ e.seq <= p.last
    THEN "conflict"
  ELSE IF e.seq = p.last + 1 THEN "apply" ELSE "buffer_gap"

Buffered(p, e) == [last |-> p.last, applied |-> p.applied,
                   buffer |-> [p.buffer EXCEPT ![e.seq] = e]]

Applied(p, e) == [last |-> e.seq,
                  applied |-> [p.applied EXCEPT ![e.seq] = e],
                  buffer |-> p.buffer]

\* Mutant of DrainsTo: the buffer is looked at once, not until a gap.
DrainsOnce(p, n) ==
  n = IF p.last < MaxSeq /\ p.buffer[p.last + 1] # NoEvent THEN p.last + 1 ELSE p.last

\* The loop of _drain() ends at n.
DrainsTo(p, n) ==
  /\ n \in p.last .. MaxSeq
  /\ \A k \in p.last + 1 .. n : p.buffer[k] # NoEvent
  /\ n < MaxSeq => p.buffer[n + 1] = NoEvent

\* The tables after _drain() has moved the events up to n.
Drained(p, n) ==
  [last    |-> n,
   applied |-> [k \in Positions |-> IF p.last < k /\ k <= n
                                      THEN p.buffer[k] ELSE p.applied[k]],
   buffer  |-> [k \in Positions |-> IF p.last < k /\ k <= n
                                      THEN NoEvent ELSE p.buffer[k]]]

-----------------------------------------------------------------------------
\* Mutant of Page: the newest rows come first.
PageNewest(outbox, cursor, limit) ==
  {n \in Positions :
     /\ outbox[n] # NoEvent
     /\ n > cursor
     /\ Cardinality({m \in n .. MaxSeq : outbox[m] # NoEvent}) <= limit}

(* The positions list_case_events() returns: the first `limit' committed   *)
(* ones after the cursor.                                                  *)
Page(outbox, cursor, limit) ==
  {n \in Positions :
     /\ outbox[n] # NoEvent
     /\ n > cursor
     /\ Cardinality({m \in cursor + 1 .. n : outbox[m] # NoEvent}) <= limit}
=============================================================================
