------------------------------- MODULE Worker ---------------------------------
(***************************************************************************)
(* Worker processes executing Runs: run_once / run_next claim a Run and a  *)
(* slot in one transaction, the Harness then runs outside any transaction  *)
(* while a heartbeat thread renews the lease, and one final transaction    *)
(* saves the checkpoint, moves the Run and releases the slot, all under    *)
(* the fence of the claim.                                                 *)
(*                                                                         *)
(* One action is one database transaction (the row locks it takes make it  *)
(* atomic for the others) or one local step of a worker.  The clock may    *)
(* still advance between two statements of a transaction; where that can   *)
(* be observed the action takes the advance d as a parameter.              *)
(***************************************************************************)
EXTENDS SlotTable

CONSTANTS Workers,        \* worker processes
          OwnerOf,        \* the lease_owner each is started with
          NoRun,          \* what an idle worker is executing
          MaxLimit,       \* largest max_active_slots an operator sets
          Configurable,   \* scopes whose limit an operator sets
          Drift,          \* ticks that may pass inside a transaction
          MaxSteps,       \* max_steps of a slice
          MaxVersion,     \* bound: checkpoint_version at which routes end
          MaxFaults       \* bound: crashes, stalls and failed renewals

ASSUME OwnerAssumption == OwnerOf \in [Workers -> Owners]
ASSUME WorkersFinite == IsFiniteSet(Workers)
ASSUME NoRunAssumption == NoRun \notin Runs
ASSUME BoundAssumption ==
  /\ MaxLimit \in Nat
  /\ Drift \in Nat
  /\ MaxSteps \in Nat \ {0}
  /\ MaxVersion \in Nat
  /\ MaxFaults \in Nat
ASSUME ConfigurableAssumption == Configurable \subseteq Scopes

VARIABLES runs,      \* aftercare_runs
          queue,     \* aftercare_execution_queue
          slots,     \* aftercare_execution_slots
          limits,    \* aftercare_admission_limits
          ckpts,     \* aftercare_checkpoints: the rows of each Run
          slice,     \* the slice each worker is executing, in memory
          faults     \* how many faults have happened (bounds the model)

vars == <<runs, queue, slots, limits, ckpts, slice, faults>>

-----------------------------------------------------------------------------
(* Checkpoints and slices.                                                 *)

Step == {"model", "tool", "evaluate", "retry", "review", "complete"}

Checkpoint == [version : Nat, token : Nat, step : Step]

\* _initial_checkpoint(): what the Harness starts from when none is saved.
InitialCheckpoint == [version |-> 1, token |-> 1, step |-> "model"]

\* CheckpointRepository.get_latest().
Latest(rows) ==
  IF rows = {} THEN InitialCheckpoint
  ELSE CHOOSE c \in rows : \A d \in rows : d.version <= c.version

Slice == [pc : {"idle", "harness", "returned"}, run : Runs \cup {NoRun},
          token : Nat, slot : BOOLEAN, beat : {"up", "failed"},
          prev : Checkpoint, next : Checkpoint, proposal : BOOLEAN]

Idle == [pc |-> "idle", run |-> NoRun, token |-> 0, slot |-> FALSE,
         beat |-> "up", prev |-> InitialCheckpoint,
         next |-> InitialCheckpoint, proposal |-> FALSE]

\* The worker's claim is still the execution right of its Run.
Holds(w) == /\ slice[w].pc # "idle"
            /\ HoldsLease(runs[slice[w].run], OwnerOf[w], slice[w].token)

-----------------------------------------------------------------------------
(* Time.  A live worker whose lease runs out has been stalled for longer   *)
(* than the heartbeat interval allows: that is a fault of the environment. *)

Stalled(d) == {w \in Workers : /\ Holds(w)
                               /\ slice[w].beat = "up"
                               /\ runs[slice[w].run].lease <= d}

Fault(n) == faults + n <= MaxFaults /\ faults' = faults + n

RunsAfter(d) == [r \in Runs |-> RunAfter(runs[r], d)]
QueuesAfter(d) == [r \in Runs |-> QueueAfter(queue[r], d)]
SlotsAfter(d) == [r \in Runs |-> SlotAfter(slots[r], d)]

Tick ==
  /\ Fault(Cardinality(Stalled(1)))
  /\ runs' = RunsAfter(1)
  /\ queue' = QueuesAfter(1)
  /\ slots' = SlotsAfter(1)
  /\ UNCHANGED <<limits, ckpts, slice>>

-----------------------------------------------------------------------------
(* Claiming.  The Run is claimed at one reading of the clock, the slot is  *)
(* acquired d ticks later; RATE_LIMITED rolls the claim back as well.      *)

ClaimAndSlot(w, r, d) ==
  LET row == Claimed(runs[r], OwnerOf[w])
      free == SlotsAfter(d)
  IN  /\ slice[w].pc = "idle"
      /\ ~ SlotRefused(free, limits, r, OwnerOf[w], row.token)
      /\ Fault(Cardinality(Stalled(d)))
      /\ runs' = [RunsAfter(d) EXCEPT ![r] = RunAfter(row, d)]
      /\ queue' = [QueuesAfter(d) EXCEPT
                     ![r] = QueueAfter(QueueSync(row, queue[r]), d)]
      /\ slots' = SlotAcquired(free, limits, r, OwnerOf[w], row.token)
      /\ slice' = [slice EXCEPT ![w] =
                     [Idle EXCEPT !.pc = "harness", !.run = r,
                                  !.token = row.token,
                                  !.slot = LimitedScopes(limits, r) # {},
                                  !.prev = Latest(ckpts[r])]]
      /\ UNCHANGED <<limits, ckpts>>

RunOnce(w, r, d) ==
  /\ Claimable(runs[r])
  /\ ClaimAndSlot(w, r, d)

RunNext(w, r, d) ==
  /\ Dispatchable(runs[r], queue[r])
  /\ ~ Saturated(slots, limits, r)
  /\ ClaimAndSlot(w, r, d)

-----------------------------------------------------------------------------
(* The heartbeat thread.  It renews Run and slot in one transaction; any   *)
(* exception makes it stop for good, leaving a failure for the slice.      *)

HeartbeatRenew(w, d) ==
  LET r == slice[w].run
  IN  /\ slice[w].pc = "harness"
      /\ slice[w].beat = "up"
      /\ Holds(w)
      /\ slice[w].slot =>
           SlotRenewable(SlotsAfter(d), r, OwnerOf[w], slice[w].token)
      /\ Fault(Cardinality(Stalled(d) \ {w}))
      /\ runs' = [RunsAfter(d) EXCEPT ![r].lease = Left(Lease, d)]
      /\ queue' = QueuesAfter(d)
      /\ slots' = IF slice[w].slot
                    THEN [SlotsAfter(d) EXCEPT ![r].lease = Lease]
                    ELSE SlotsAfter(d)
      /\ UNCHANGED <<limits, ckpts, slice>>

HeartbeatFail(w) ==
  /\ slice[w].pc = "harness"
  /\ slice[w].beat = "up"
  /\ Fault(IF Holds(w) THEN 1 ELSE 0)
  /\ slice' = [slice EXCEPT ![w].beat = "failed"]
  /\ UNCHANGED <<runs, queue, slots, limits, ckpts>>

-----------------------------------------------------------------------------
(* The Harness, outside any transaction.  run_model_harness ends a slice   *)
(* at the first external call; a routed checkpoint resumes at the model.   *)
(* run_fake_harness, the default, takes up to max_steps steps of a script. *)

HarnessSteps(step) ==
  CASE step = "tool" -> {"model", "retry", "review"}
    [] step = "evaluate" -> {"retry", "review"}
    [] OTHER -> {"tool", "evaluate", "retry", "review"}

\* Bound: past MaxVersion a Run may only end.
BoundedSteps(c) ==
  IF c.version < MaxVersion THEN HarnessSteps(c.step)
                            ELSE HarnessSteps(c.step) \cap {"review"}

Returned(w, c, isProposal) ==
  [slice[w] EXCEPT !.pc = "returned", !.next = c, !.proposal = isProposal]

HarnessAdvance(w) ==
  \E step \in BoundedSteps(slice[w].prev) :
    LET c == [version |-> slice[w].prev.version + 1,
              token |-> slice[w].token, step |-> step]
    IN  slice' = [slice EXCEPT ![w] = Returned(w, c, FALSE)]

\* n steps of the script, each a version; the last tool completes the Run at
\* once, which is one version more, and is never the model's own step.
HarnessScript(w) ==
  LET prev == slice[w].prev
      Row(n, step) == [version |-> prev.version + n,
                       token |-> slice[w].token, step |-> step]
  IN  /\ prev.step \in {"model", "tool"}
      /\ \E n \in 1..MaxSteps :
           \/ /\ prev.version + n <= MaxVersion
              /\ slice' = [slice EXCEPT ![w] = Returned(w, Row(n, "tool"), FALSE)]
           \/ /\ prev.step = "model" => n > 1
              /\ slice' = [slice EXCEPT ![w] =
                             Returned(w, Row(n + 1, "complete"), FALSE)]

\* A checkpointed proposal is handed to the Worker's evaluator as it is.
HarnessPropose(w) ==
  LET c == [slice[w].prev EXCEPT !.token = slice[w].token]
  IN  /\ slice[w].prev.step = "evaluate"
      /\ slice' = [slice EXCEPT ![w] = Returned(w, c, TRUE)]

\* The Harness returns and the heartbeat is joined without a failure.
HarnessReturn(w) ==
  /\ slice[w].pc = "harness"
  /\ slice[w].beat = "up"
  /\ HarnessAdvance(w) \/ HarnessScript(w) \/ HarnessPropose(w)
  /\ UNCHANGED <<runs, queue, slots, limits, ckpts, faults>>

-----------------------------------------------------------------------------
(* The final transaction of _execute_claim().                              *)

TargetState(step) ==
  CASE step = "complete" -> "COMPLETED"
    [] step = "review" -> "REVIEW"
    [] step = "retry" -> "RETRY_AT"
    [] OTHER -> "READY"

\* What the transaction saves: a proposal is first judged, accepted or not.
Judged(w, accepted) ==
  IF slice[w].proposal
    THEN [version |-> slice[w].next.version + 1,
          token |-> slice[w].next.token,
          step |-> IF accepted THEN "complete" ELSE "review"]
    ELSE slice[w].next

\* Mutant of Savable: the save is neither fenced nor unique.
SavableUnfenced(w, c) == c.token = slice[w].token

\* CheckpointRepository.save() accepts the row: fenced, and a new version.
Savable(w, c) ==
  /\ Holds(w)
  /\ c.token = slice[w].token
  /\ \A old \in ckpts[slice[w].run] : old.version # c.version

Commit(w, accepted, delay) ==
  LET r == slice[w].run
      c == Judged(w, accepted)
      row == Moved(runs[r], TargetState(c.step), delay)
  IN  /\ slice[w].pc = "returned"
      /\ Savable(w, c)
      /\ ValidTransition(runs[r].state, TargetState(c.step))
      /\ ckpts' = [ckpts EXCEPT ![r] = @ \cup {c}]
      /\ runs' = [runs EXCEPT ![r] = row]
      /\ queue' = [queue EXCEPT ![r] = QueueSync(row, queue[r])]
      /\ slots' = IF slice[w].slot
                    THEN SlotReleased(slots, r, OwnerOf[w], slice[w].token)
                    ELSE slots
      /\ slice' = [slice EXCEPT ![w] = Idle]
      /\ UNCHANGED <<limits, faults>>

\* LEASE_LOST: the heartbeat failed, or the final transaction rolled back.
SliceLost(w) ==
  /\ \/ slice[w].pc = "harness" /\ slice[w].beat = "failed"
     \/ slice[w].pc = "returned" /\ ~ Savable(w, Judged(w, TRUE))
  /\ slice' = [slice EXCEPT ![w] = Idle]
  /\ UNCHANGED <<runs, queue, slots, limits, ckpts, faults>>

\* The process dies, or the Harness raises out of the slice.
Crash(w) ==
  /\ slice[w].pc # "idle"
  /\ Fault(1)
  /\ slice' = [slice EXCEPT ![w] = Idle]
  /\ UNCHANGED <<runs, queue, slots, limits, ckpts>>

-----------------------------------------------------------------------------
(* The operators around the workers.                                       *)

ConfigureLimit(scope, n) ==
  /\ limits' = [limits EXCEPT ![scope] = n]
  /\ UNCHANGED <<runs, queue, slots, ckpts, slice, faults>>

\* A decided review moves its Run (bound: no CONTINUE past MaxVersion).
ResolveReview(r, target) ==
  LET row == Moved(runs[r], target, 0)
  IN  /\ runs[r].state = "REVIEW"
      /\ target = "READY" => Latest(ckpts[r]).version < MaxVersion
      /\ runs' = [runs EXCEPT ![r] = row]
      /\ queue' = [queue EXCEPT ![r] = QueueSync(row, queue[r])]
      /\ UNCHANGED <<slots, limits, ckpts, slice, faults>>

-----------------------------------------------------------------------------
Init ==
  /\ runs = [r \in Runs |-> NewRun]
  /\ queue = [r \in Runs |-> QueueSync(NewRun, NoQueueRow)]
  /\ slots = [r \in Runs |-> NoSlot]
  /\ limits = [s \in Scopes |-> 0]
  /\ ckpts = [r \in Runs |-> {}]
  /\ slice = [w \in Workers |-> Idle]
  /\ faults = 0

WorkerStep(w) ==
  \/ \E r \in Runs, d \in 0..Drift : RunOnce(w, r, d)
  \/ \E r \in Runs, d \in 0..Drift : RunNext(w, r, d)
  \/ \E d \in 0..Drift : HeartbeatRenew(w, d)
  \/ HeartbeatFail(w)
  \/ HarnessReturn(w)
  \/ \E accepted \in BOOLEAN, delay \in 0..MaxDelay :
       Commit(w, accepted, delay)
  \/ SliceLost(w)
  \/ Crash(w)

OperatorStep ==
  \/ \E s \in Configurable, n \in 1..MaxLimit : ConfigureLimit(s, n)
  \/ \E r \in Runs, target \in {"READY", "CANCELLED"} :
       ResolveReview(r, target)

Next == Tick \/ OperatorStep \/ \E w \in Workers : WorkerStep(w)

Spec == Init /\ [][Next]_vars

(* Fairness.  Worker daemons poll, Harness calls return or raise (they     *)
(* carry timeouts), and the database clock advances.  Nothing is assumed   *)
(* of the heartbeat, of crashes or of the humans who decide reviews.       *)
Fairness ==
  /\ WF_vars(Tick)
  /\ \A w \in Workers :
       /\ WF_vars(\E r \in Runs, d \in 0..Drift : RunNext(w, r, d))
       /\ WF_vars(HarnessReturn(w))
       /\ WF_vars(\E accepted \in BOOLEAN, delay \in 0..MaxDelay :
                    Commit(w, accepted, delay))
       /\ WF_vars(SliceLost(w))

FairSpec == Spec /\ Fairness

-----------------------------------------------------------------------------
(* Properties.                                                             *)

\* Every column and every in-memory slice stays within its type.
TypeOK ==
  /\ runs \in [Runs -> RunRow]
  /\ queue \in [Runs -> QueueRow]
  /\ slots \in [Runs -> SlotRow]
  /\ limits \in [Scopes -> Nat]
  /\ ckpts \in [Runs -> SUBSET Checkpoint]
  /\ slice \in [Workers -> Slice]
  /\ faults \in 0..MaxFaults

\* Two workers never execute one Run under the same fencing token, whatever
\* crashed, expired or was reclaimed in between and even when both processes
\* were started with one owner string (claim() and claim_next() bump it).
FenceIsUnique ==
  \A v, w \in Workers :
    /\ v # w
    /\ slice[v].pc # "idle"
    /\ slice[w].pc # "idle"
    /\ slice[v].run = slice[w].run
    => slice[v].token # slice[w].token

\* The worker that still holds the execution right works on the newest
\* checkpoint: nobody saved one between its claim and now, so the one it
\* read in the claim transaction is not stale (_execute_claim's `previous').
HolderIsCurrent ==
  \A w \in Workers : Holds(w) => slice[w].prev = Latest(ckpts[slice[w].run])

\* Checkpoints of a Run are written by strictly increasing fences: a higher
\* version was saved under a higher token, and no version is saved twice
\* (CheckpointRepository.save).
CheckpointsFollowFence ==
  \A r \in Runs : \A c, d \in ckpts[r] :
    /\ c.version < d.version => c.token < d.token
    /\ c.version = d.version => c = d

\* The Run row and its newest checkpoint tell the same story, since one
\* transaction writes both: COMPLETED exactly when the checkpoint is
\* complete, REVIEW and RETRY_AT only after a checkpoint routed there.
RunMatchesCheckpoint ==
  \A r \in Runs :
    LET step == Latest(ckpts[r]).step
    IN  /\ runs[r].state = "COMPLETED" <=> step = "complete"
        /\ runs[r].state = "REVIEW" => step = "review"
        /\ runs[r].state = "RETRY_AT" => step = "retry"

\* No Run is stranded outside the dispatch queue: one that claim() would
\* take, or whose retry is due, also satisfies claim_next()'s predicate over
\* the trigger-maintained queue row.
RunnableIsQueued ==
  \A r \in Runs :
    (Claimable(runs[r]) \/ (runs[r].state = "RETRY_AT" /\ runs[r].avail = 0))
      => Dispatchable(runs[r], queue[r])

\* A slice that was admitted with a slot never executes without it: while
\* its lease is valid the slot is valid under the same fence, and outlasts
\* the lease (acquire_slot and renew_slot read the clock after the Run).
SlotOutlastsLease ==
  \A w \in Workers :
    (Holds(w) /\ slice[w].slot) =>
      /\ OwnsSlot(slots, slice[w].run, OwnerOf[w], slice[w].token)
      /\ slots[slice[w].run].lease >= runs[slice[w].run].lease

\* Whenever a reservation is added, every configured scope it counts against
\* is within its limit afterwards; expired reservations of crashed workers
\* and limits changed under running slices included (acquire_slot).
NoOverAdmission ==
  [][\A s \in Scopes :
       (limits[s] > 0 /\ Active(slots', s) \ Active(slots, s) # {})
         => Cardinality(Active(slots', s)) <= limits[s]]_vars

\* Every save goes past the newest checkpoint: however many versions a slice
\* advanced, and however long ago its worker claimed the Run, the row it adds
\* is the new newest one, saved under a higher fence than all before it.  No
\* stale slice is ever slipped in below the progress of a later one
\* (CheckpointRepository.save checks the fence, but a version only for being
\* new).
SaveExtendsLatest ==
  [][\A r \in Runs : \A c \in ckpts'[r] \ ckpts[r] :
       /\ c = Latest(ckpts'[r])
       /\ \A old \in ckpts[r] : old.version < c.version /\ old.token < c.token]_vars

\* A Run that may execute is eventually decided: it completes, is cancelled
\* or waits for a human, despite crashes, stalls, failed heartbeats and
\* reservations that crashed workers left behind (run_daemon).
EveryRunDecided ==
  \A r \in Runs :
    runs[r].state \in {"READY", "RUNNING", "RETRY_AT"}
      ~> runs[r].state \in {"COMPLETED", "CANCELLED", "REVIEW"}
=============================================================================
