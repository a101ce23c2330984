----------------------------- MODULE EventStream ------------------------------
(***************************************************************************)
(* What the event tables of one Case promise a consumer, with no word of   *)
(* publishers, leases, retries or gaps: events enter one log, each id at   *)
(* most once, and the consumer applies the log from its start, in order,   *)
(* without a hole and without a repetition.                                *)
(***************************************************************************)
EXTENDS Naturals, Sequences

CONSTANT Ids

VARIABLES log, consumed

vars == <<log, consumed>>

Init == log = << >> /\ consumed = << >>

Publish(id) ==
  /\ \A n \in DOMAIN log : log[n] # id
  /\ log' = Append(log, id)
  /\ UNCHANGED consumed

\* One transaction of the consumer may apply several events.
Consume ==
  /\ \E k \in Len(consumed) + 1 .. Len(log) : consumed' = SubSeq(log, 1, k)
  /\ UNCHANGED log

Next == Consume \/ \E id \in Ids : Publish(id)

Spec == Init /\ [][Next]_vars
=============================================================================
