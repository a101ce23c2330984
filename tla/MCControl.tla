-------------------------------- MODULE MCControl --------------------------------
(***************************************************************************)
(* The control plane for TLC: the review gate, the grants of a Case, the   *)
(* dispatch order and the retry budget.  They share no state, so a         *)
(* behaviour is one of the part chosen at its start: the instances add up. *)
(***************************************************************************)
EXTENDS ReviewGate, Access, Dispatch, RetryBudget, TLC

\* x1, x2, y1 and y2 stand for what is only compared for equality: people and
\* plans at the gate, Workers and Runs in the queue, producers and keys of
\* retries.  The parts never meet, so one small symmetry set serves all.
CONSTANTS x1, x2, y1, y2, k1, k2, v1, v2, admin1, admin2, user, ann, bob, busy, quiet, a1

SymControl == Permutations({x1, x2}) \cup Permutations({y1, y2})
              \cup Permutations({k1, k2}) \cup Permutations({v1, v2})

\* One unit more of what ran out; an extension of one tick, which is enough only
\* for a deadline that has just passed.
MCAdditions == {[model |-> 1, tool |-> 0, cost |-> 0, time |-> 0],
                [model |-> 0, tool |-> 1, cost |-> 1, time |-> 0],
                [model |-> 0, tool |-> 0, cost |-> 0, time |-> 1]}

\* Two administrators, of whom the first may not read Cases; the second also
\* holds a token of a plain user, which may do less than their grant.
MCSubjectOf == admin1 :> ann @@ admin2 :> bob @@ user :> bob
MCScopes == admin1 :> {"grant:read", "grant:admin", "review:decide"}
            @@ admin2 :> {"grant:read", "grant:admin", "case:read", "review:decide"}
            @@ user :> {"case:create", "case:read"}

\* A tenant with two urgent Runs and one with a single ordinary Run.
MCTenants == {busy, quiet}
MCRuns == {y1, y2, a1}
MCTenantOf == [r \in MCRuns |-> IF r = a1 THEN quiet ELSE busy]
MCPriority == [r \in MCRuns |-> IF r = a1 THEN 0 ELSE 1]

-----------------------------------------------------------------------------
VARIABLE part   \* the part this behaviour is about

controlVars == <<gateVars, accessVars, dpVars, rbVars, part>>

\* The other parts stay in one initial state.
ControlInit ==
  /\ part \in {"gate", "access", "dispatch", "retries"}
  /\ GateInit /\ AccessInit /\ DpInit /\ RbInit
  /\ part # "gate" => deployed = CHOOSE s \in Strategy : TRUE
  /\ part # "dispatch" => queue = CHOOSE q \in Orders : TRUE

ControlNext ==
  /\ UNCHANGED part
  /\ \/ part = "gate" /\ GateNext /\ UNCHANGED <<accessVars, dpVars, rbVars>>
     \/ part = "access" /\ AccessNext /\ UNCHANGED <<gateVars, dpVars, rbVars>>
     \/ part = "dispatch" /\ DpNext /\ UNCHANGED <<gateVars, accessVars, rbVars>>
     \/ part = "retries" /\ RbNext /\ UNCHANGED <<gateVars, accessVars, dpVars>>

ControlSpec == ControlInit /\ [][ControlNext]_controlVars
=============================================================================
