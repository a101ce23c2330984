------------------------------ MODULE ReviewGate ------------------------------
(***************************************************************************)
(* What a Run may spend and who may let it go on: the model Harness with   *)
(* its persisted budgets, the human reviews that release or cancel a Run   *)
(* in REVIEW, the budget overrides a decision may carry, and the strategy  *)
(* migrations that unblock a Run after a deployment.                       *)
(*                                                                         *)
(* One Run of one Case.  Worker models the fencing of its slices, so here  *)
(* a slice that commits is one action: claim, Harness, save, transition.   *)
(* A decision, a request or a migration is one transaction under the Case  *)
(* and Run locks.  Replays and refusals change nothing and need no action. *)
(* The Run's input_version never changes after admission and is left out.  *)
(***************************************************************************)
EXTENDS Integers, FiniteSets

CONSTANTS ReviewIds, DecisionKeys, MigrationKeys, People,
          Plans,           \* values of <<strategy_id, model_config_version>>
          Rules,           \* values of <<policy_version, tool_schema_version>>
          CallIds,         \* call ids a provider puts on a tool call
          Costs,           \* prices of one turn
          ModelLimit, ToolLimit, CostLimit, Ttl,   \* HarnessLimits
          Backoff,         \* retry_backoff, in ticks
          Additions,       \* what an operator may add: [model, tool, cost, time]
          MaxOverdue,      \* bound: how long past a deadline time is told apart
          MaxTransients,   \* bound: transient failures of before_run
          MaxCrashes,      \* bound: workers that die after a paid turn
          NoCall, NoPerson, NoKey, NoReason

ASSUME GateAssumption ==
  /\ ModelLimit \in Nat /\ ToolLimit \in Nat /\ CostLimit \in Nat
  /\ Ttl \in Nat /\ Backoff \in Nat \ {0}
  /\ MaxOverdue \in Nat /\ MaxTransients \in Nat /\ MaxCrashes \in Nat
  /\ Costs \subseteq Nat
  /\ Additions \subseteq [model : Nat, tool : Nat, cost : Nat, time : Nat]
  /\ NoCall \notin CallIds /\ NoPerson \notin People /\ NoKey \notin DecisionKeys
  /\ IsFiniteSet(CallIds)

VARIABLES gateRun,      \* the Run's state
          gateCkpt,     \* the latest row of aftercare_checkpoints
          reviews,      \* aftercare_reviews
          overrides,    \* aftercare_review_overrides
          migrations,   \* aftercare_strategy_migrations
          gateEvents,   \* the audit events of the gate, by identity
          deployed,     \* the strategy the workers are configured with
          turns,        \* turns the model provider has been paid for
          granted,      \* what the overrides added in total
          transients, crashes

gateVars == <<gateRun, gateCkpt, reviews, overrides, migrations, gateEvents,
              deployed, turns, granted, transients, crashes>>

Strategy == [plan : Plans, rules : Rules]

\* Reasons that only a larger budget or a later deadline removes.
Exhausted == {"model_budget_exhausted", "tool_budget_exhausted",
              "cost_budget_exhausted", "deadline_passed"}

Rejected == {"provider_error", "empty_turn", "intent_rejected",
             "input_rejected", "proposal_rejected", "assessment_rejected",
             "executor_rejected"}

RouteReason == Exhausted \cup Rejected \cup
  {"provider_retryable_error", "model_strategy_changed",
   "strategy_migration_ready"}

ASSUME ReasonAssumption == NoReason \notin RouteReason

\* Time is kept relative to now: left is deadline - now, wait the time to
\* available_at.  version 0 stands for no checkpoint at all.
GateCheckpoint ==
  [version : Nat, model : Nat, tool : Nat, cost : Nat, left : Int, wait : Nat,
   next : {"model", "tool", "evaluate", "retry", "review", "complete"},
   reason : RouteReason \cup {NoReason}, pending : CallIds \cup {NoCall},
   proposal : BOOLEAN, results : SUBSET CallIds, strategy : Strategy]

ReviewRow ==
  [state : {"absent", "pending", "CONTINUE", "CANCEL"},
   by : People \cup {NoPerson}, reviewer : People \cup {NoPerson},
   key : DecisionKeys \cup {NoKey}]

NoReview == [state |-> "absent", by |-> NoPerson, reviewer |-> NoPerson,
             key |-> NoKey]

-----------------------------------------------------------------------------
(* The checkpoint a slice starts from.                                     *)

GateStart(s) ==
  [version |-> 0, model |-> ModelLimit, tool |-> ToolLimit, cost |-> CostLimit,
   left |-> Ttl, wait |-> 0, next |-> "model", reason |-> NoReason,
   pending |-> NoCall, proposal |-> FALSE, results |-> {}, strategy |-> s]

\* Checkpoint.coherent_checkpoint, which every load of a saved row applies.
Loads(c) ==
  /\ c.reason # NoReason <=> c.next \in {"review", "retry"}
  /\ c.pending # NoCall <=> c.next = "tool"
  /\ c.pending \notin c.results
  /\ c.proposal => c.next = "evaluate"

\* A Run without a checkpoint starts with the strategy of its worker.
Fresh == IF gateCkpt.version = 0
           THEN [GateStart(deployed) EXCEPT !.version = 1] ELSE gateCkpt

StrategyDrift == gateCkpt.version # 0 /\ gateCkpt.strategy.plan # deployed.plan

\* Released by a human or by the queue: try the model phase again.
Resumed == IF Fresh.next \in {"review", "retry"}
             THEN [Fresh EXCEPT !.next = "model", !.reason = NoReason, !.wait = 0]
             ELSE Fresh

-----------------------------------------------------------------------------
(* What the Harness makes of it.                                           *)

Advanced(c) == [c EXCEPT !.version = @ + 1]

Routed(c, next, reason, wait) ==
  [Advanced(c) EXCEPT !.next = next, !.reason = reason, !.wait = wait,
                      !.pending = NoCall, !.proposal = FALSE]

\* Mutant of SpentOneCall: a failed attempt is free.
SpentNoCall(c) == c

SpentOneCall(c) == [c EXCEPT !.model = @ - 1]

Charged(c, cost) == [SpentOneCall(c) EXCEPT !.cost = @ - cost]

RunStateFor(c) ==
  CASE c.next = "complete" -> "COMPLETED"
    [] c.next = "review" -> "REVIEW"
    [] c.next = "retry" -> "RETRY_AT"
    [] OTHER -> "READY"

\* The transaction that ends a slice.
Save(c) ==
  /\ gateCkpt' = c
  /\ gateRun' = RunStateFor(c)
  /\ UNCHANGED <<reviews, overrides, migrations, gateEvents, deployed, granted,
                 crashes>>

\* Mutant of Runnable: a parked retry is never due.
RunnableReadyOnly ==
  /\ gateRun = "READY"
  /\ gateCkpt.version = 0 \/ Loads(gateCkpt)

Runnable ==
  /\ \/ gateRun = "READY"
     \/ gateRun = "RETRY_AT" /\ gateCkpt.wait = 0
  /\ gateCkpt.version = 0 \/ Loads(gateCkpt)

Quietly == UNCHANGED <<turns, transients>>

StrategyChanged ==
  /\ Runnable /\ StrategyDrift
  /\ Save(Routed(Fresh, "review", "model_strategy_changed", 0))
  /\ Quietly

Starts(phase) == Runnable /\ ~ StrategyDrift /\ Resumed.next = phase

\* before_run, the connector ingest of the deployment, refused.
BeforeRunRefused ==
  /\ Runnable /\ ~ StrategyDrift
  /\ Save(Routed(Resumed, "review", "executor_rejected", 0))
  /\ Quietly

\* It failed for the moment.  Nothing is charged and no deadline is looked at,
\* so only the bound ends this loop.
BeforeRunRetry ==
  /\ Runnable /\ ~ StrategyDrift
  /\ transients < MaxTransients
  /\ Save(Routed(Resumed, "retry", "executor_rejected", Backoff))
  /\ transients' = transients + 1
  /\ UNCHANGED turns

OutOfBudget ==
  IF Resumed.left <= 0 THEN "deadline_passed"
  ELSE IF Resumed.model < 1 THEN "model_budget_exhausted" ELSE NoReason

ModelRefused ==
  /\ Starts("model") /\ OutOfBudget # NoReason
  /\ Save(Routed(Resumed, "review", OutOfBudget, 0))
  /\ Quietly

MayCall == Starts("model") /\ OutOfBudget = NoReason

InputRejected ==
  /\ MayCall
  /\ Save(Routed(Resumed, "review", "input_rejected", 0))
  /\ Quietly

\* Not charged either, but the deadline is looked at before.
InputRetry ==
  /\ MayCall
  /\ Save(Routed(Resumed, "retry", "input_rejected", Backoff))
  /\ Quietly

\* The provider has been called: whatever it answered, a turn is paid.
Called(c) ==
  /\ MayCall
  /\ Save(c)
  /\ turns' = turns + 1
  /\ UNCHANGED transients

ProviderFailed(retryable) ==
  Called(IF retryable /\ Backoff <= Resumed.left
           THEN Routed(SpentOneCall(Resumed), "retry",
                       "provider_retryable_error", Backoff)
           ELSE Routed(SpentOneCall(Resumed), "review", "provider_error", 0))

UsageUnknown == Called(Routed(SpentOneCall(Resumed), "review", "empty_turn", 0))

CostExceeded(cost) ==
  /\ cost > Resumed.cost
  /\ Called(Routed(SpentOneCall(Resumed), "review", "cost_budget_exhausted", 0))

TurnRejected(cost, reason) ==
  /\ cost <= Resumed.cost
  /\ reason \in {"intent_rejected", "empty_turn", "proposal_rejected"}
  /\ Called(Routed(Charged(Resumed, cost), "review", reason, 0))

ToolAsked(cost, call) ==
  /\ cost <= Resumed.cost
  /\ Called(IF Resumed.tool < 1
              THEN Routed(Charged(Resumed, cost), "review",
                          "tool_budget_exhausted", 0)
              ELSE [Advanced(Charged(Resumed, cost)) EXCEPT
                      !.next = "tool", !.pending = call])

Proposed(cost) ==
  /\ cost <= Resumed.cost
  /\ Called([Advanced(Charged(Resumed, cost)) EXCEPT
               !.next = "evaluate", !.proposal = TRUE])

\* A worker dies after the turn and before the save: the lease expires and
\* the Run is claimed again from the same checkpoint.
CrashAfterTurn ==
  /\ MayCall
  /\ crashes < MaxCrashes
  /\ crashes' = crashes + 1
  /\ turns' = turns + 1
  /\ UNCHANGED <<gateRun, gateCkpt, reviews, overrides, migrations, gateEvents,
                 deployed, granted, transients>>

\* The pending intent is validated again, against what is in force now: it
\* is always refused without a tool budget or after the deadline.
ToolRefused(reason) ==
  /\ Starts("tool")
  /\ \/ reason = "intent_rejected"
     \/ reason = "executor_rejected" /\ Resumed.tool >= 1 /\ Resumed.left > 0
  /\ Save(Routed(Resumed, "review", reason, 0))
  /\ Quietly

ToolAnswered ==
  /\ Starts("tool") /\ Resumed.tool >= 1 /\ Resumed.left > 0
  /\ Save([Advanced(Resumed) EXCEPT
             !.tool = @ - 1, !.results = @ \cup {Resumed.pending},
             !.next = "model", !.pending = NoCall])
  /\ Quietly

\* The worker judges the saved proposal against the evidence of the Case.
Evaluated(accepted) ==
  /\ Starts("evaluate")
  /\ Save([Advanced(Resumed) EXCEPT
             !.next = IF accepted THEN "complete" ELSE "review",
             !.reason = IF accepted THEN NoReason ELSE "assessment_rejected",
             !.proposal = FALSE])
  /\ Quietly

Slice ==
  \/ StrategyChanged \/ BeforeRunRefused \/ BeforeRunRetry
  \/ ModelRefused \/ InputRejected \/ InputRetry
  \/ \E retryable \in BOOLEAN : ProviderFailed(retryable)
  \/ UsageUnknown
  \/ \E cost \in Costs :
       \/ CostExceeded(cost) \/ Proposed(cost)
       \/ \E reason \in Rejected : TurnRejected(cost, reason)
       \/ \E call \in CallIds : ToolAsked(cost, call)
  \/ \E reason \in Rejected : ToolRefused(reason)
  \/ ToolAnswered
  \/ \E accepted \in BOOLEAN : Evaluated(accepted)

-----------------------------------------------------------------------------
(* The reviews.                                                            *)

\* The identities of the audit events: one per request, decision, migration.
RequestedEvent(r) == <<"review.requested", r>>
DecidedEvent(r) == <<"review.decided", r>>
MigratedEvent(key) == <<"review.strategy_migrated", key>>

\* _record_event: Case event and outbox row, in the caller's transaction.
Record(event) == gateEvents' = gateEvents \cup {event}

GateQuiet == UNCHANGED <<deployed, turns, transients, crashes>>

\* aftercare_reviews_pending_run: at most one undecided review of a Run.
NoneOpen == \A r \in ReviewIds : reviews[r].state # "pending"

RequestReview(r, person) ==
  /\ gateRun = "REVIEW"
  /\ reviews[r].state = "absent" /\ NoneOpen
  /\ reviews' = [reviews EXCEPT ![r] = [state |-> "pending", by |-> person,
                                        reviewer |-> NoPerson, key |-> NoKey]]
  /\ Record(RequestedEvent(r))
  /\ UNCHANGED <<gateRun, gateCkpt, overrides, migrations, granted>>
  /\ GateQuiet

\* Mutant of Decidable: a decided review may be decided again, a replay of
\* its key included.
DecidableAgain(r, person, key) ==
  /\ gateRun = "REVIEW"
  /\ reviews[r].state # "absent" /\ reviews[r].by # person

\* decide() up to the decision itself: a decided review is only replayed,
\* and a decision key is unique in the tenant.
Decidable(r, person, key) ==
  /\ gateRun = "REVIEW"
  /\ reviews[r].state = "pending" /\ reviews[r].by # person
  /\ \A other \in ReviewIds : reviews[other].key # key

Decided(r, decision, person, key) ==
  /\ reviews' = [reviews EXCEPT ![r] = [state |-> decision, by |-> reviews[r].by,
                                        reviewer |-> person, key |-> key]]
  /\ gateRun' = IF decision = "CONTINUE" THEN "READY" ELSE "CANCELLED"
  /\ Record(DecidedEvent(r))
  /\ UNCHANGED migrations
  /\ GateQuiet

CancelRun(r, person, key) ==
  /\ Decidable(r, person, key)
  /\ Decided(r, "CANCEL", person, key)
  /\ UNCHANGED <<gateCkpt, overrides, granted>>

\* Mutant of Continuable: a spent Run may be continued as it is.
ContinuableAnyway ==
  /\ gateCkpt.version = 0 \/ Loads(gateCkpt)
  /\ gateCkpt.reason # "model_strategy_changed"

\* _assert_resume_budget without an override.
Continuable ==
  /\ gateCkpt.version = 0 \/ Loads(gateCkpt)
  /\ gateCkpt.reason \notin Exhausted \cup {"model_strategy_changed"}

ContinueRun(r, person, key) ==
  /\ Decidable(r, person, key)
  /\ Continuable
  /\ Decided(r, "CONTINUE", person, key)
  /\ UNCHANGED <<gateCkpt, overrides, granted>>

\* Does the addition raise what the Run ran out of?
Lifts(add) ==
  \/ gateCkpt.reason = "model_budget_exhausted" /\ add.model > 0
  \/ gateCkpt.reason = "tool_budget_exhausted" /\ add.tool > 0
  \/ gateCkpt.reason = "cost_budget_exhausted" /\ add.cost > 0
  \/ gateCkpt.reason = "deadline_passed" /\ add.time > 0

\* _assert_resume_budget with an override: the operator has seen the latest
\* checkpoint, and adds to what is exhausted.
Overridable(add, version) ==
  /\ gateCkpt.version # 0 /\ Loads(gateCkpt)
  /\ version = gateCkpt.version
  /\ Lifts(add)

Extended(c, add) ==
  [Advanced(c) EXCEPT !.model = @ + add.model, !.tool = @ + add.tool,
                      !.cost = @ + add.cost, !.left = @ + add.time,
                      !.next = "model", !.reason = NoReason, !.wait = 0,
                      !.pending = NoCall, !.proposal = FALSE]

OverrideRun(r, person, key, add, version) ==
  /\ Decidable(r, person, key)
  /\ Overridable(add, version)
  /\ Decided(r, "CONTINUE", person, key)
  /\ gateCkpt' = Extended(gateCkpt, add)
  /\ overrides' = overrides \cup {[review |-> r, key |-> key, by |-> person,
                                   version |-> version, add |-> add]}
  /\ granted' = [model |-> granted.model + add.model,
                 tool |-> granted.tool + add.tool]

Decide ==
  \E r \in ReviewIds, person \in People, key \in DecisionKeys :
    \/ CancelRun(r, person, key)
    \/ ContinueRun(r, person, key)
    \/ \E add \in Additions, version \in 1..gateCkpt.version :
         OverrideRun(r, person, key, add, version)

-----------------------------------------------------------------------------
(* Deployments and strategy migrations.                                    *)

Migratable(key, version, old, new) ==
  /\ gateRun = "REVIEW" /\ ~ NoneOpen
  /\ \A m \in migrations : m.key # key
  /\ gateCkpt.version # 0 /\ Loads(gateCkpt)
  /\ gateCkpt.reason = "model_strategy_changed"
  /\ version = gateCkpt.version
  /\ gateCkpt.strategy = old /\ new # old

\* The Run stays in REVIEW: its review still has to be decided.
MigrateStrategy(key, version, old, new) ==
  /\ Migratable(key, version, old, new)
  /\ gateCkpt' = [Advanced(gateCkpt) EXCEPT
                    !.strategy = new, !.reason = "strategy_migration_ready",
                    !.next = "review", !.wait = 0]
  /\ migrations' = migrations \cup {[key |-> key, before |-> version,
                                     old |-> old, new |-> new]}
  /\ Record(MigratedEvent(key))
  /\ UNCHANGED <<gateRun, reviews, overrides, granted>>
  /\ GateQuiet

Deploy(s) ==
  /\ s # deployed
  /\ deployed' = s
  /\ UNCHANGED <<gateRun, gateCkpt, reviews, overrides, migrations, gateEvents,
                 turns, granted, transients, crashes>>

\* One unit of time.
GateTick ==
  /\ gateCkpt.version # 0
  /\ gateCkpt.left > -MaxOverdue \/ gateCkpt.wait > 0
  /\ gateCkpt' = [gateCkpt EXCEPT
                    !.left = IF @ > -MaxOverdue THEN @ - 1 ELSE @,
                    !.wait = IF @ > 0 THEN @ - 1 ELSE 0]
  /\ UNCHANGED <<gateRun, reviews, overrides, migrations, gateEvents, deployed,
                 turns, granted, transients, crashes>>

-----------------------------------------------------------------------------

GateInit ==
  /\ gateRun = "READY"
  /\ deployed \in Strategy
  /\ gateCkpt = GateStart(deployed)
  /\ reviews = [r \in ReviewIds |-> NoReview]
  /\ overrides = {} /\ migrations = {} /\ gateEvents = {}
  /\ turns = 0 /\ granted = [model |-> 0, tool |-> 0]
  /\ transients = 0 /\ crashes = 0

GateNext ==
  \/ Slice \/ CrashAfterTurn
  \/ \E r \in ReviewIds, person \in People : RequestReview(r, person)
  \/ Decide
  \/ \E key \in MigrationKeys, version \in 1..gateCkpt.version,
        old, new \in Strategy : MigrateStrategy(key, version, old, new)
  \/ \E s \in Strategy : Deploy(s)
  \/ GateTick

GateSpec == GateInit /\ [][GateNext]_gateVars

-----------------------------------------------------------------------------
(* Properties.                                                             *)

\* Types: in particular no budget of a saved checkpoint is ever negative,
\* although model_copy() does not validate what the Harness subtracts.
GateTypeOK ==
  /\ gateRun \in {"READY", "RETRY_AT", "REVIEW", "COMPLETED", "CANCELLED"}
  /\ gateCkpt \in GateCheckpoint
  /\ reviews \in [ReviewIds -> ReviewRow]
  /\ overrides \subseteq [review : ReviewIds, key : DecisionKeys, by : People,
                           version : Nat, add : Additions]
  /\ deployed \in Strategy
  /\ turns \in Nat /\ granted \in [model : Nat, tool : Nat]
  /\ transients \in 0..MaxTransients /\ crashes \in 0..MaxCrashes

\* Every turn the provider was paid for and every tool answer is charged to
\* the persisted budget exactly once, through retries, reviews, overrides and
\* migrations; only a worker that dies between the turn and its save escapes.
\* What was added belongs to the one decision that applied it, and no two
\* additions were made from the same checkpoint: an operator with an old screen
\* cannot add to a budget another one has already raised.
BudgetConserved ==
  /\ gateCkpt.model + turns = ModelLimit + granted.model + crashes
  /\ gateCkpt.tool + Cardinality(gateCkpt.results) = ToolLimit + granted.tool
  /\ \A o \in overrides :
       /\ reviews[o.review].state = "CONTINUE"
       /\ reviews[o.review].reviewer = o.by /\ reviews[o.review].key = o.key
       /\ o.version < gateCkpt.version
       /\ \A other \in overrides :
            other.version = o.version \/ other.review = o.review => other = o

\* A Run that may be claimed is one the Harness can do something with: the
\* reason it was parked for is neither an exhausted budget, nor a passed
\* deadline, nor a strategy change nobody migrated.  And a review stays open
\* only while its Run is in REVIEW, one at a time: no decision can hit a later
\* stop of the Run.
ReleasedIsResumable ==
  /\ gateRun \in {"READY", "RETRY_AT"} =>
       gateCkpt.reason \notin Exhausted \cup {"model_strategy_changed"}
  /\ \A r \in ReviewIds : reviews[r].state = "pending" =>
       /\ gateRun = "REVIEW"
       /\ \A other \in ReviewIds : reviews[other].state = "pending" => other = r

\* The Run leaves REVIEW only in a transaction that records the decision of
\* its open review; a decision is final, its override too, and replaying it
\* never routes the Run again.
DecisionsRouteOnce ==
  [][/\ gateRun = "REVIEW" /\ gateRun' # "REVIEW" =>
          \E r \in ReviewIds : /\ reviews[r].state = "pending"
                               /\ reviews'[r].state \in {"CONTINUE", "CANCEL"}
     /\ \A r \in ReviewIds : reviews[r].state \in {"CONTINUE", "CANCEL"} =>
          reviews'[r] = reviews[r]
     /\ overrides \subseteq overrides']_gateVars

\* The checkpoint holds an intent under a call id it has an answer for, and no
\* claim can load it.
RepeatsCall == gateCkpt.pending \in gateCkpt.results

\* Budgets and deadline end every loop of the Harness but one: whatever the
\* provider, the tools and the renderer answer, a Run that may be claimed comes
\* to rest, finished or in front of a human, or repeats a call id.  The one is
\* the retry of before_run: the Run is one whose before_run fails for the
\* moment at most MaxTransients times.
RunComesToRest ==
  gateRun \in {"READY", "RETRY_AT"} ~>
    gateRun \in {"REVIEW", "COMPLETED", "CANCELLED"} \/ RepeatsCall

-----------------------------------------------------------------------------
(* What the documentation says and the code does not do.                   *)

\* The provider is never called for a checkpoint pinned to another policy or
\* tool schema than the deployed ones.
TurnsUseDeployedRules ==
  [][turns' # turns =>
       gateCkpt.version = 0 \/ gateCkpt.strategy.rules = deployed.rules]_gateVars

\* What a slice saves is what the next claim can load.
SavedCheckpointLoads == gateCkpt.version # 0 => Loads(gateCkpt)
=============================================================================
