------------------------------- MODULE MCProgress -------------------------------
(***************************************************************************)
(* What must happen in the end, for TLC: the Run at its gate, the import   *)
(* of buyer messages, and sandboxes.  They share no state, so a behaviour  *)
(* is one of the part chosen at its start, fair to the steps of that part. *)
(***************************************************************************)
EXTENDS ReviewGate, EvidenceBridge, Sandbox, TLC

\* One unit more of what ran out; an extension of two ticks.
MCAdditions == {[model |-> 1, tool |-> 0, cost |-> 0, time |-> 0],
                [model |-> 0, tool |-> 1, cost |-> 1, time |-> 0],
                [model |-> 0, tool |-> 0, cost |-> 0, time |-> 2]}

-----------------------------------------------------------------------------
VARIABLE part   \* the part this behaviour is about

progressVars == <<gateVars, bridgeVars, sbVars, part>>

\* The other parts stay in one initial state.
ProgressInit ==
  /\ part \in {"gate", "bridge", "sandbox"}
  /\ GateInit /\ BridgeInit /\ SbInit
  /\ part # "gate" => deployed = CHOOSE s \in Strategy : TRUE
  /\ part # "bridge" => export = CHOOSE f \in [Workers -> Exports] : TRUE

ProgressNext ==
  /\ UNCHANGED part
  /\ \/ part = "gate" /\ GateNext /\ UNCHANGED <<bridgeVars, sbVars>>
     \/ part = "bridge" /\ BridgeNext /\ UNCHANGED <<gateVars, sbVars>>
     \/ part = "sandbox" /\ SbNext /\ UNCHANGED <<gateVars, bridgeVars>>

-----------------------------------------------------------------------------
(* Fairness, of the chosen part only.                                      *)

\* Daemons keep claiming, and time passes.  Nobody has to decide a review or
\* deploy anything.
GateFairness ==
  WF_gateVars(part = "gate" /\ Slice) /\ WF_gateVars(part = "gate" /\ GateTick)

\* Workers run their steps, and Runs that are claimed again import again what
\* the cursor has not reached (worker_cli.py:119).
BridgeFairness ==
  /\ \A p \in Workers : WF_bridgeVars(part = "bridge" /\ WorkerStep(p))
  /\ SF_bridgeVars(part = "bridge" /\ \E p \in Workers : StartImport(p))

\* An executor that has not crashed goes on.  Nothing is assumed of the sweep,
\* which no code calls, nor of the clock.
SandboxFairness == \A w \in Executors : WF_sbVars(part = "sandbox" /\ ExecutorStep(w))

ProgressSpec ==
  /\ ProgressInit /\ [][ProgressNext]_progressVars
  /\ GateFairness /\ BridgeFairness /\ SandboxFairness

-----------------------------------------------------------------------------
\* Budgets and deadline end every loop of the Harness but the retry of
\* before_run: a Run whose before_run fails for the moment finitely often comes
\* to rest, before a human, or repeats a call id (run_model_harness).
GateComesToRest == part = "gate" => RunComesToRest

\* Every buyer message gets past the cursor (import_buyer_history).
ImportsComplete == part = "bridge" => ImportCompletes
=============================================================================
