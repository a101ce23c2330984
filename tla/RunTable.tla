------------------------------- MODULE RunTable -------------------------------
(***************************************************************************)
(* The rows of aftercare_runs and of aftercare_execution_queue, and the    *)
(* statements that RunRepository issues against them.                      *)
(*                                                                         *)
(* A timestamp is kept as the time left until it, in clock ticks, so that  *)
(* `lease_until > clock_timestamp()' is `lease > 0' and a passed deadline  *)
(* is 0: all the code ever does with these columns is compare them with    *)
(* the database clock.                                                     *)
(***************************************************************************)
EXTENDS Integers

CONSTANTS Owners,      \* lease_owner strings of the worker processes
          NoOwner,     \* SQL NULL in lease_owner
          Lease,       \* length of a lease, in clock ticks
          MaxDelay     \* longest retry backoff, in clock ticks

ASSUME LeaseAssumption == Lease \in Nat \ {0}
ASSUME DelayAssumption == MaxDelay \in Nat
ASSUME NoOwnerAssumption == NoOwner \notin Owners

-----------------------------------------------------------------------------
(* Rows.                                                                   *)

RunState == {"READY", "RUNNING", "WAITING_INPUT", "WAITING_APPROVAL",
             "RETRY_AT", "REVIEW", "COMPLETED", "CANCELLED"}

Terminal == {"COMPLETED", "CANCELLED"}

RunRow == [state : RunState, token : Nat, owner : Owners \cup {NoOwner},
           lease : 0..Lease, avail : 0..MaxDelay]

QueueRow == [state : {"READY", "IN_FLIGHT", "absent"}, avail : 0..MaxDelay]

\* A Run as admission inserts it.
NewRun == [state |-> "READY", token |-> 0, owner |-> NoOwner,
           lease |-> 0, avail |-> 0]

NoQueueRow == [state |-> "absent", avail |-> 0]

(* What is left of n ticks after d more have passed.                       *)
Left(n, d) == IF n > d THEN n - d ELSE 0

RunAfter(row, d) == [row EXCEPT !.lease = Left(row.lease, d),
                                !.avail = Left(row.avail, d)]

QueueAfter(q, d) == [q EXCEPT !.avail = Left(q.avail, d)]

-----------------------------------------------------------------------------
(* The lifecycle graph.                                                    *)

Transitions ==
  [s \in RunState |->
     CASE s = "READY" -> {"RUNNING", "CANCELLED"}
       [] s = "RUNNING" -> RunState \ {"RUNNING"}
       [] s \in Terminal -> {}
       [] OTHER -> {"READY", "CANCELLED"}]

ValidTransition(from, to) == to \in Transitions[from]

-----------------------------------------------------------------------------
(* RunRepository.                                                          *)

ExpiredLease(row) == row.state = "RUNNING" /\ row.lease = 0

\* The WHERE clause of claim().
Claimable(row) == row.state = "READY" \/ ExpiredLease(row)

\* Mutant of Dispatchable: expired IN_FLIGHT rows are not taken back.
DispatchableReadyOnly(row, q) ==
  /\ q.state = "READY" /\ q.avail = 0
  /\ row.state = "READY" \/ (row.state = "RETRY_AT" /\ row.avail = 0)

\* The WHERE clause of claim_next() on a queue row and its Run row.
Dispatchable(row, q) ==
  /\ \/ q.state = "READY" /\ q.avail = 0
     \/ q.state = "IN_FLIGHT" /\ ExpiredLease(row)
  /\ \/ Claimable(row)
     \/ row.state = "RETRY_AT" /\ row.avail = 0

\* Mutant of Claimed: the claim keeps the old fencing_token.
ClaimedSameFence(row, owner) ==
  [state |-> "RUNNING", token |-> row.token, owner |-> owner,
   lease |-> Lease, avail |-> 0]

\* The UPDATE of claim() and of claim_next(): a new fence and a full lease.
\* claim_next() first takes a due RETRY_AT row back to READY, which clears
\* available_at.
Claimed(row, owner) ==
  [state |-> "RUNNING", token |-> row.token + 1, owner |-> owner,
   lease |-> Lease, avail |-> 0]

\* Mutant of HoldsLease: the fencing_token is not compared.
HoldsLeaseByOwner(row, owner, token) ==
  row.state = "RUNNING" /\ row.owner = owner /\ row.lease > 0

\* owner, token and unexpired lease of a claim, as every fenced statement
\* checks them (renew, transition out of RUNNING, CheckpointRepository.save).
HoldsLease(row, owner, token) ==
  /\ row.state = "RUNNING"
  /\ row.owner = owner
  /\ row.token = token
  /\ row.lease > 0

\* The UPDATE of transition(): leaves RUNNING, so no lease survives.
Moved(row, target, delay) ==
  [state |-> target, token |-> row.token, owner |-> NoOwner, lease |-> 0,
   avail |-> IF target = "RETRY_AT" THEN delay ELSE 0]

-----------------------------------------------------------------------------

(* The trigger aftercare_runs_execution_queue_sync: the queue row that     *)
(* goes with a Run row just written, given the queue row q before it.      *)
QueueSync(row, q) ==
  CASE row.state = "RUNNING" ->
         [state |-> "IN_FLIGHT",
          avail |-> IF q.state = "absent" THEN 0 ELSE q.avail]
    [] row.state \in {"READY", "RETRY_AT"} ->
         [state |-> "READY", avail |-> row.avail]
    [] OTHER -> NoQueueRow
=============================================================================
