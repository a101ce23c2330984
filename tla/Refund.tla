-------------------------------- MODULE Refund --------------------------------
(***************************************************************************)
(* One approved refund, end to end: an approval Run parked on its wait, the*)
(* approval record, the Action ledger row and the payment provider behind  *)
(* it, with everyone who may act on them: dispatchers that approve, request*)
(* and record the refund (SyntheticAftercareFlow), operators deciding over *)
(* the API, expiry and timeout scans, and the generic Worker daemons that  *)
(* share the dispatch queue.                                               *)
(*                                                                         *)
(* One action is one transaction, or the provider call between two.        *)
(***************************************************************************)
EXTENDS WaitTable

CONSTANTS Dispatchers,      \* callers of approve_and_confirm_refund()
          ProviderWorker,   \* the lease_owner they all use
          ReviewWorker,     \* the lease_owner of reject_approval_to_review()
          ApprovalWorker,   \* the lease_owner of request_refund_approval()
          Daemons,          \* lease_owners of Worker daemons
          Deciders,         \* (approver, decision key, reason) triples
          Nobody,           \* no decision yet
          Lag,              \* how far the caller's clock is off the database's
          MaxToken          \* bound: fencing tokens of the Run

ASSUME RefundOwners ==
  /\ {ProviderWorker, ReviewWorker, ApprovalWorker} \cup Daemons \subseteq Owners
  /\ Nobody \notin Deciders
  /\ ProviderWorker \notin Daemons
ASSUME RefundBounds == Lag \in Nat /\ MaxToken \in Nat /\ MaxSignal = 1

VARIABLES run,        \* the approval Run
          wait,       \* its wait, generation 1
          inbox,      \* signals for that wait: the decision, if any
          approval,   \* the row of aftercare_approvals
          action,     \* the row of aftercare_actions
          provider,   \* what the payment provider did under the Action's key
          proc,       \* the dispatchers
          daemon,     \* the fence each Worker daemon believes it holds
          now         \* the database clock

vars == <<run, wait, inbox, approval, action, provider, proc, daemon, now>>

ActionState == {"absent", "RESERVED", "REQUESTED", "UNKNOWN", "CONFIRMED", "FAILED"}

ActionTransitions ==
  [s \in ActionState |->
     CASE s = "RESERVED" -> {"REQUESTED", "FAILED"}
       [] s = "REQUESTED" -> {"UNKNOWN", "CONFIRMED", "FAILED"}
       [] s = "UNKNOWN" -> {"CONFIRMED", "FAILED"}
       [] OTHER -> {}]

Receipt == {"UNKNOWN", "CONFIRMED", "FAILED"}

Decision == {"absent", "PENDING", "APPROVED", "REJECTED", "EXPIRED"}

Proc == [pc : {"idle", "approved", "requested", "answered", "raised"},
         token : Nat, receipt : Receipt \cup {"none"}]

IdleProc == [pc |-> "idle", token |-> 0, receipt |-> "none"]

Exists == approval.decision # "absent"

CanClaim == Exists /\ Claimable(run) /\ run.token < MaxToken

RetryDue == run.state = "RETRY_AT" /\ run.avail = 0 /\ run.token < MaxToken

-----------------------------------------------------------------------------
(* request_refund_approval(): Run, Action, wait and approval, one commit.  *)

request_refund_approval(created) ==
  /\ ~ Exists
  /\ now < created + WaitLength
  /\ run' = Moved(Claimed(NewRun, ApprovalWorker), "WAITING_APPROVAL", 0)
  /\ action' = [state |-> "RESERVED", token |-> 0]
  /\ wait' = Activated(NewWait(created))
  /\ approval' = [decision |-> "PENDING", by |-> Nobody,
                  expires |-> created + WaitLength]
  /\ UNCHANGED <<inbox, provider, proc, daemon, now>>

-----------------------------------------------------------------------------
(* ApprovalRepository.decide(): a first decision needs the Run parked on   *)
(* the open wait and an unexpired request; it stores its own signal and    *)
(* settles the wait.  woken is the Run it leaves behind.                   *)

FirstDecision ==
  /\ approval.decision = "PENDING"
  /\ run.state = "WAITING_APPROVAL"
  /\ wait.state \in {"PENDING", "ACTIVE"}
  /\ now < approval.expires

ReplayedDecision(by, decision) ==
  approval.decision = decision /\ approval.by = by

DecisionSignal == [id |-> 1, generation |-> 1, fits |-> TRUE,
                   received |-> now, ahead |-> FALSE]

Woken(signals) == IF Over(wait, 1, signals, now) THEN Moved(run, "READY", 0) ELSE run

\* Mutant of Decided: the decision is recorded but the wait is left alone.
DecidedOnly(by, decision) ==
  /\ approval' = [approval EXCEPT !.decision = decision, !.by = by]
  /\ inbox' = {DecisionSignal}
  /\ UNCHANGED wait

Decided(by, decision) ==
  /\ approval' = [approval EXCEPT !.decision = decision, !.by = by]
  /\ inbox' = {DecisionSignal}
  /\ wait' = IF Over(wait, 1, inbox', now) THEN Settled(wait, 1, inbox', now)
                                           ELSE wait

\* Mutant of decide_approval: a changed replay overwrites the decision.
decide_approvalChanged(by, decision) ==
  /\ \/ FirstDecision /\ Decided(by, decision) /\ run' = Woken(inbox')
     \/ /\ approval.decision \in {"APPROVED", "REJECTED"}
        /\ approval' = [approval EXCEPT !.decision = decision, !.by = by]
        /\ UNCHANGED <<inbox, wait, run>>
  /\ UNCHANGED <<action, provider, proc, daemon, now>>

\* decide() on behalf of an operator, over the API.
decide_approval(by, decision) ==
  /\ FirstDecision
  /\ Decided(by, decision)
  /\ run' = Woken(inbox')
  /\ UNCHANGED <<action, provider, proc, daemon, now>>

\* reject_approval_to_review(): the decision, and the woken Run to REVIEW.
\* The whole of it rolls back when the Run cannot be claimed.
RejectFirst(by) ==
  LET woken == Woken({DecisionSignal})
  IN  /\ FirstDecision
      /\ Decided(by, "REJECTED")
      /\ Claimable(woken)
      /\ run' = Moved(Claimed(woken, ReviewWorker), "REVIEW", 0)

RejectReplay(by) ==
  /\ ReplayedDecision(by, "REJECTED")
  /\ CanClaim
  /\ run' = Moved(Claimed(run, ReviewWorker), "REVIEW", 0)
  /\ UNCHANGED <<approval, wait, inbox>>

reject_approval_to_review(by) ==
  /\ RejectFirst(by) \/ RejectReplay(by)
  /\ UNCHANGED <<action, provider, proc, daemon, now>>

\* ApprovalRepository.expire(): leaves Run and wait alone.
expire ==
  /\ approval.decision = "PENDING"
  /\ now >= approval.expires
  /\ approval' = [approval EXCEPT !.decision = "EXPIRED"]
  /\ UNCHANGED <<run, wait, inbox, action, provider, proc, daemon, now>>

\* WaitRepository.resolve_timeout() on the approval's wait.
resolve_timeout ==
  /\ run.state = "WAITING_APPROVAL"
  /\ Over(wait, 1, inbox, now)
  /\ wait' = Settled(wait, 1, inbox, now)
  /\ run' = Moved(run, "READY", 0)
  /\ UNCHANGED <<inbox, approval, action, provider, proc, daemon, now>>

-----------------------------------------------------------------------------
(* approve_and_confirm_refund(), a transaction at a time.                  *)

Goto(d, pc) == proc' = [proc EXCEPT ![d].pc = pc]

\* First transaction: decide, or replay the decision.  It returns at once
\* when the Action is already CONFIRMED.
Approve(d, by) ==
  /\ proc[d].pc = "idle"
  /\ \/ /\ FirstDecision
        /\ Decided(by, "APPROVED")
        /\ run' = Woken(inbox')
     \/ /\ ReplayedDecision(by, "APPROVED")
        /\ UNCHANGED <<approval, inbox, wait, run>>
  /\ Goto(d, IF action.state = "CONFIRMED" THEN "idle" ELSE "approved")
  /\ UNCHANGED <<action, provider, daemon, now>>

\* Mutant of Requested: the Action is marked only with the receipt.
RequestedLater(token) ==
  /\ approval.decision = "APPROVED"
  /\ now < approval.expires
  /\ UNCHANGED action

\* mark_requested(): only a RESERVED Action needs the approval, which must
\* still be valid; any other state is handed back as it is.
Requested(token) ==
  IF action.state = "RESERVED"
    THEN /\ approval.decision = "APPROVED"
         /\ now < approval.expires
         /\ action' = [state |-> "REQUESTED", token |-> token]
    ELSE UNCHANGED action

\* Second transaction: claim the Run and request the Action, or neither.
ClaimAndRequest(d) ==
  /\ proc[d].pc = "approved"
  /\ CanClaim
  /\ run' = Claimed(run, ProviderWorker)
  /\ Requested(run.token + 1)
  /\ proc' = [proc EXCEPT ![d] = [pc |-> "requested", token |-> run.token + 1,
                                  receipt |-> "none"]]
  /\ UNCHANGED <<wait, inbox, approval, provider, daemon, now>>

\* The provider call, outside any transaction: the request may be lost, the
\* provider executes it at most once per idempotency key, and its answer may
\* be lost too.
ProviderRequest(d) ==
  /\ proc[d].pc = "requested"
  /\ provider' \in IF provider = "none" THEN {"none", "done", "refused"}
                                        ELSE {provider}
  /\ \E receipt \in {"UNKNOWN"}
         \cup (IF provider' = "done" THEN {"CONFIRMED"} ELSE {})
         \cup (IF provider' = "refused" THEN {"FAILED"} ELSE {}) :
       proc' = [proc EXCEPT ![d].pc = "answered", ![d].receipt = receipt]
  /\ UNCHANGED <<run, wait, inbox, approval, action, daemon, now>>

\* Mutant of Recordable: the receipt is written without the Run's fence.
RecordableUnfenced(d) ==
  \/ action.state = proc[d].receipt
  \/ proc[d].receipt \in ActionTransitions[action.state]

\* mark_receipt() accepts: fenced, and a legal transition or an exact replay.
Recordable(d) ==
  /\ HoldsLease(run, ProviderWorker, proc[d].token)
  /\ \/ action.state = proc[d].receipt
     \/ proc[d].receipt \in ActionTransitions[action.state]

\* Third transaction, CONFIRMED: Action and Run together.
ConfirmRefund(d) ==
  /\ proc[d].pc = "answered"
  /\ proc[d].receipt = "CONFIRMED"
  /\ Recordable(d)
  /\ action' = IF action.state = "CONFIRMED" THEN action
               ELSE [state |-> "CONFIRMED", token |-> proc[d].token]
  /\ run' = Moved(run, "COMPLETED", 0)
  /\ proc' = [proc EXCEPT ![d] = IdleProc]
  /\ UNCHANGED <<wait, inbox, approval, provider, daemon, now>>

\* Third transaction, any other receipt: the receipt and the move to REVIEW
\* are written, and the exception raised inside the transaction takes both
\* back.
RaiseUnconfirmed(d) ==
  /\ proc[d].pc = "answered"
  /\ proc[d].receipt # "CONFIRMED"
  /\ Recordable(d)
  /\ Goto(d, "raised")
  /\ UNCHANGED <<run, wait, inbox, approval, action, provider, daemon, now>>

\* The call ends: an exception (LEASE_LOST, FORBIDDEN, CONFLICT) or a crash.
Leave(d) ==
  /\ proc[d].pc # "idle"
  /\ proc' = [proc EXCEPT ![d] = IdleProc]
  /\ UNCHANGED <<run, wait, inbox, approval, action, provider, daemon, now>>

-----------------------------------------------------------------------------
(* The Worker daemons claim whatever the queue offers.                     *)

DaemonClaim(w) ==
  /\ daemon[w] = 0
  /\ CanClaim \/ RetryDue
  /\ run' = Claimed(run, w)
  /\ daemon' = [daemon EXCEPT ![w] = run.token + 1]
  /\ UNCHANGED <<wait, inbox, approval, action, provider, proc, now>>

DaemonCommit(w, target) ==
  /\ daemon[w] # 0
  /\ HoldsLease(run, w, daemon[w])
  /\ run' = Moved(run, target, 0)
  /\ daemon' = [daemon EXCEPT ![w] = 0]
  /\ UNCHANGED <<wait, inbox, approval, action, provider, proc, now>>

DaemonLeave(w) ==
  /\ daemon[w] # 0
  /\ daemon' = [daemon EXCEPT ![w] = 0]
  /\ UNCHANGED <<run, wait, inbox, approval, action, provider, proc, now>>

ResolveReview(target) ==
  /\ run.state = "REVIEW"
  /\ run' = Moved(run, target, 0)
  /\ UNCHANGED <<wait, inbox, approval, action, provider, proc, daemon, now>>

Tick ==
  /\ now < MaxInstant
  /\ now' = now + 1
  /\ run' = RunAfter(run, 1)
  /\ UNCHANGED <<wait, inbox, approval, action, provider, proc, daemon>>

-----------------------------------------------------------------------------
Init ==
  /\ run = NewRun
  /\ wait = NoWait
  /\ inbox = {}
  /\ approval = [decision |-> "absent", by |-> Nobody, expires |-> 0]
  /\ action = [state |-> "absent", token |-> 0]
  /\ provider = "none"
  /\ proc = [d \in Dispatchers |-> IdleProc]
  /\ daemon = [w \in Daemons |-> 0]
  /\ now = 0

\* The instants the requester's clock may show (bound: the model's time
\* reaches the deadline).
Clock == {t \in Instant : /\ now - Lag <= t /\ t <= now + Lag
                         /\ t + WaitLength <= MaxInstant}

DispatcherStep(d) ==
  \/ \E by \in Deciders : Approve(d, by)
  \/ ClaimAndRequest(d)
  \/ ProviderRequest(d)
  \/ ConfirmRefund(d)
  \/ RaiseUnconfirmed(d)
  \/ Leave(d)

DaemonStep(w) ==
  \/ DaemonClaim(w)
  \/ \E target \in {"READY", "RETRY_AT", "REVIEW", "COMPLETED"} :
       DaemonCommit(w, target)
  \/ DaemonLeave(w)

Next ==
  \/ \E t \in Clock : request_refund_approval(t)
  \/ \E by \in Deciders, decision \in {"APPROVED", "REJECTED"} :
       decide_approval(by, decision)
  \/ \E by \in Deciders : reject_approval_to_review(by)
  \/ expire
  \/ resolve_timeout
  \/ \E d \in Dispatchers : DispatcherStep(d)
  \/ \E w \in Daemons : DaemonStep(w)
  \/ \E target \in {"READY", "CANCELLED"} : ResolveReview(target)
  \/ Tick

Spec == Init /\ [][Next]_vars

-----------------------------------------------------------------------------
(* Properties.                                                             *)

\* Every column and every in-memory value stays within its type.
RefundTypeOK ==
  /\ run \in RunRow
  /\ wait \in WaitRow
  /\ inbox \subseteq Signal
  /\ approval \in [decision : Decision, by : Deciders \cup {Nobody},
                   expires : Nat]
  /\ action \in [state : ActionState, token : Nat]
  /\ provider \in {"none", "done", "refused"}
  /\ proc \in [Dispatchers -> Proc]
  /\ daemon \in [Daemons -> Nat]
  /\ now \in Instant

\* Money moves only on an approval: once the Action was requested or the
\* provider acted, the approval is and stays APPROVED, whichever of decision,
\* rejection, expiry, timeout and crash came in between (decide, expire,
\* lock_for_dispatch).
RefundIsApproved ==
  (provider # "none" \/ action.state \notin {"absent", "RESERVED"})
    => approval.decision = "APPROVED"

\* The ledger is never behind the provider: before the provider can have acted
\* the Action left RESERVED, so a crash during the call leaves a row to
\* reconcile; and CONFIRMED is written only for a refund that was executed
\* (approve_and_confirm_refund).
RefundIsRecorded ==
  /\ provider # "none" => action.state \notin {"absent", "RESERVED"}
  /\ action.state = "CONFIRMED" => provider = "done"

\* A decision and the wait it answers stand together: a satisfied wait was
\* satisfied by a recorded decision, and a recorded decision satisfied its
\* wait, unless the requester's clock ran ahead and the wait's created_at is
\* later than the decision (decide and resolve_locked in one transaction).
DecisionSettlesWait ==
  approval.decision \in {"APPROVED", "REJECTED"} <=>
    \/ wait.state = "SATISFIED"
    \/ \E s \in inbox : s.received < wait.created

\* A refund is confirmed in the commit that completes its Run, under the
\* Run's newest fence, and nothing reopens either: no stale dispatcher writes
\* a confirmation for a Run that a daemon or another dispatcher has taken
\* over (mark_receipt, transition).
ConfirmedCompletesRun ==
  action.state = "CONFIRMED" =>
    run.state = "COMPLETED" /\ action.token = run.token

\* An unconfirmed provider answer is durable once the dispatcher has reported
\* it: the Action is UNKNOWN or already reconciled.  (What the design says;
\* the exception rolls the record back.)
UnknownIsRecorded ==
  \A d \in Dispatchers :
    (proc[d].pc = "raised" /\ proc[d].receipt = "UNKNOWN") =>
      action.state \in {"UNKNOWN", "CONFIRMED", "FAILED"}
=============================================================================
