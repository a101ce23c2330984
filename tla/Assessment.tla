------------------------------ MODULE Assessment ------------------------------
(***************************************************************************)
(* The observation ledger of one Case as the model and the deterministic   *)
(* gate read it.  Observations arrive from lookups in an export and from   *)
(* signed source events and are withdrawn by their source, while a Run     *)
(* shows the ledger to the model in one slice and judges the answer in a   *)
(* later one.  A judgement uses the clock of the start of its slice and    *)
(* the ledger of its commit, which locks the Case.                         *)
(*                                                                         *)
(* received_at is the observed_at of the answer, so a row has one time.    *)
(***************************************************************************)
EXTENDS Integers, FiniteSets

CONSTANTS Evidence,      \* evidence ids: source and source event
          KindOf,        \* the SourceKind of each
          ClaimOf,       \* the claim its normalized fact supports, or NoClaim
          Oversized,     \* those whose extract is longer than MAX_EXCERPT
          MaxItems,      \* MAX_EVIDENCE_CONTEXT_ITEMS
          MaxAge,        \* FreshnessPolicy, per kind
          Window, Skew,  \* of a source signature
          Proposals,     \* what the model may have proposed
          MaxTime        \* bound: clock

Kinds == {"order_ledger", "carrier", "buyer_channel"}
NoClaim == "none"
Claims == {"order_recorded", "delivered", "in_transit", "not_received", "received"}

\* A proposal is a set of claims, each once, with the evidence it cites.
ClaimProposal == [claim : Claims, refs : SUBSET Evidence \ {{}}]
UniqueClaims(proposal) == \A p, q \in proposal : p.claim = q.claim => p = q

ASSUME AssessmentAssumption ==
  /\ KindOf \in [Evidence -> Kinds] /\ ClaimOf \in [Evidence -> Claims \cup {NoClaim}]
  /\ Oversized \subseteq Evidence
  /\ MaxItems \in Nat /\ MaxAge \in [Kinds -> Nat]
  /\ \A proposal \in Proposals : proposal \subseteq ClaimProposal /\ UniqueClaims(proposal)
  /\ Window \in Nat /\ Skew \in Nat /\ MaxTime \in Nat

VARIABLES rows,      \* aftercare_investigation_observations
          now,
          run,       \* where the Run is, and the clock of its slice
          assessed   \* the Run's latest assessment

asVars == <<rows, now, run, assessed>>

Time == 0..MaxTime
AsRow == [state : {"absent", "held", "revoked"}, at : Time]
Absent == [state |-> "absent", at |-> 0]

Dispositions == {"needs_material", "human_review", "recommendation_ready"}
NoAssessment == [disposition |-> "none", at |-> 0, cited |-> {}]

-----------------------------------------------------------------------------
(* evidence_issue and what follows from one observation.                   *)

Recorded(e) == rows[e].state # "absent"

\* FreshnessPolicy: each kind of source has its own age.
Stale(e, t) == t - rows[e].at > MaxAge[KindOf[e]]

\* Mutant of Unavailable: rows received after the slice began are judged too.
UnavailableIgnoringClock(e, t) ==
  rows[e].state = "revoked" \/ Stale(e, t)

\* Future, revoked or stale at t.
Unavailable(e, t) ==
  \/ rows[e].at > t
  \/ rows[e].state = "revoked"
  \/ Stale(e, t)

Available(t) == {e \in Evidence : Recorded(e) /\ ~ Unavailable(e, t)}

\* _supported_claim, and the claims of the available rows.
Supports(e, c) == ClaimOf[e] = c
AvailableClaims(t) == {ClaimOf[e] : e \in Available(t)} \ {NoClaim}

-----------------------------------------------------------------------------
(* assess_investigation                                                    *)

\* No reference is unknown, unavailable or about something else.
Accepted(p, t) == \A e \in p.refs : e \in Available(t) /\ Supports(e, p.claim)

MissingMaterial(t) ==
  LET kinds == {KindOf[e] : e \in Available(t)}  claims == AvailableClaims(t) IN
  \/ kinds # Kinds
  \/ claims \cap {"delivered", "in_transit"} = {}
  \/ claims \cap {"not_received", "received"} = {}

\* The whole ledger is compared, not the part a proposal cites.
Conflicting(t) ==
  "not_received" \in AvailableClaims(t)
    /\ AvailableClaims(t) \cap {"delivered", "received"} # {}

Disposition(proposal, t) ==
  IF Conflicting(t) \/ \E p \in proposal : ~ Accepted(p, t)
    THEN "human_review"
  ELSE IF MissingMaterial(t) THEN "needs_material" ELSE "recommendation_ready"

Assess(proposal, t) ==
  [disposition |-> Disposition(proposal, t), at |-> t,
   cited |-> UNION {p.refs : p \in {q \in proposal : Accepted(q, t)}}]

-----------------------------------------------------------------------------
(* The ledger.                                                             *)

\* The repository inserts, or compares: another time of the same source event
\* is refused and nothing changes.
Put(e, t) ==
  /\ ~ Recorded(e)
  /\ rows' = [rows EXCEPT ![e] = [state |-> "held", at |-> t]]

\* ingest_observation refuses what is received in the future.
Receivable(t) == t <= now

\* A connector looks e up in its export.
Lookup(e, observed) ==
  /\ Receivable(observed)
  /\ Put(e, observed)
  /\ UNCHANGED <<now, run, assessed>>

\* HmacSourceEventVerifier.verify
Verified(issued, observed) ==
  /\ now - Window <= issued /\ issued <= now + Skew
  /\ observed <= issued + Skew

\* A signed source event brings e.
Ingest(e, issued, observed) ==
  /\ Verified(issued, observed) /\ Receivable(observed)
  /\ Put(e, observed)
  /\ UNCHANGED <<now, run, assessed>>

\* The source withdraws e; the original time stays.
Withdraw(e) ==
  /\ rows[e].state = "held"
  /\ rows' = [rows EXCEPT ![e].state = "revoked"]
  /\ UNCHANGED <<now, run, assessed>>

AsTick ==
  /\ now < MaxTime
  /\ now' = now + 1
  /\ UNCHANGED <<rows, run, assessed>>

-----------------------------------------------------------------------------
(* The Run.                                                                *)

\* _excerpt cuts the extract of a longer fact, and what is left does not parse.
Parses(e) == e \notin Oversized

\* render_evidence_context: the complete ledger or nothing.
Renders ==
  LET shown == {e \in Evidence : Recorded(e)} IN
  Cardinality(shown) <= MaxItems /\ \A e \in shown : Parses(e)

\* A model slice: the ledger is rendered and the model proposes; the proposal
\* waits in the checkpoint.
Propose ==
  /\ run.pc = "plan" /\ Renders
  /\ run' = [run EXCEPT !.pc = "evaluate"]
  /\ UNCHANGED <<rows, now, assessed>>

\* A ledger that cannot be rendered routes the Run to a reviewer, who may let
\* it plan again.
RefuseInput ==
  /\ run.pc = "plan" /\ ~ Renders
  /\ run' = [run EXCEPT !.pc = "review"]
  /\ UNCHANGED <<rows, now, assessed>>

Continue ==
  /\ run.pc = "review"
  /\ run' = [run EXCEPT !.pc = "plan"]
  /\ UNCHANGED <<rows, now, assessed>>

\* The next slice reads its clock before it runs.
StartEvaluate ==
  /\ run.pc = "evaluate"
  /\ run' = [pc |-> "commit", at |-> now]
  /\ UNCHANGED <<rows, now, assessed>>

\* DeterministicEvidenceJudgmentGate: the whole ledger under the Case lock.
Judged(proposal) == Assess(proposal, run.at)

\* InvestigationAssessmentRepository.put
AppendAssessment(assessment) == assessed' = assessment

\* The commit locks the Case, judges the stored proposal, which may be any, on
\* the ledger as it is now, and appends the assessment.
CommitAssessment(proposal) ==
  /\ run.pc = "commit"
  /\ AppendAssessment(Judged(proposal))
  /\ run' = [pc |-> "plan", at |-> 0]
  /\ UNCHANGED <<rows, now>>

AsInit ==
  /\ rows = [e \in Evidence |-> Absent]
  /\ now = 0
  /\ run = [pc |-> "plan", at |-> 0]
  /\ assessed = NoAssessment

AsNext ==
  \/ \E e \in Evidence :
       \/ Withdraw(e)
       \/ \E t \in Time : Lookup(e, t) \/ \E i \in Time : Ingest(e, i, t)
  \/ AsTick \/ Propose \/ RefuseInput \/ Continue \/ StartEvaluate
  \/ \E proposal \in Proposals : CommitAssessment(proposal)

AsSpec == AsInit /\ [][AsNext]_asVars

-----------------------------------------------------------------------------
(* Properties.                                                             *)

\* Types; no row is dated after the clock that accepted it.
AsTypeOK ==
  /\ rows \in [Evidence -> AsRow] /\ now \in Time
  /\ run.pc \in {"plan", "review", "evaluate", "commit"} /\ run.at \in 0..now
  /\ assessed.disposition \in Dispositions \cup {"none"}
  /\ \A e \in Evidence : rows[e].at <= now

\* A commit recommends only on a ledger that then held, for every source, a
\* row its source had not withdrawn, none of it from after the judgement's
\* clock, with a clear carrier and buyer fact and nothing that contradicts a
\* buyer who reports no receipt; and it cites nothing else.
ReadyIsSupported ==
  [][run.pc = "commit" /\ run'.pc = "plan" =>
     LET usable == {e \in Evidence : rows[e].state = "held" /\ rows[e].at <= run.at
                                       /\ run.at <= rows[e].at + MaxAge[KindOf[e]]} IN
     /\ assessed'.cited \subseteq usable
     /\ assessed'.disposition = "recommendation_ready" =>
          /\ \A k \in Kinds : \E e \in usable : KindOf[e] = k
          /\ \E e \in usable : KindOf[e] = "carrier" /\ ClaimOf[e] # NoClaim
          /\ \E e \in usable : KindOf[e] = "buyer_channel" /\ ClaimOf[e] # NoClaim
          /\ \A e, f \in usable : ClaimOf[e] = "not_received" =>
               ClaimOf[f] \notin {"delivered", "received"}]_asVars

-----------------------------------------------------------------------------
(* What the documentation says and the code does not do.                   *)

\* A recorded ledger within its limits can be shown to the model.
LedgerRenders ==
  Cardinality({e \in Evidence : Recorded(e)}) <= MaxItems => Renders
=============================================================================
