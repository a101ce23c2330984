------------------------------- MODULE MCEvidence -------------------------------
(***************************************************************************)
(* Evidence for TLC: the bridge that records facts in two stores and the   *)
(* judgment that reads them.  The judgment sees rows and their times only, *)
(* so a behaviour is one of the part chosen at its start.                  *)
(***************************************************************************)
EXTENDS EvidenceBridge, Assessment, TLC

SymEvidence == Permutations(Workers)

\* An order, its parcel and a buyer who reports no receipt, then receipt, and
\* writes unclearly.
MCRows == {"order", "parcel", "missing", "found", "unclear"}
MCKindOf == [e \in MCRows |->
  CASE e = "order" -> "order_ledger" [] e = "parcel" -> "carrier" [] OTHER -> "buyer_channel"]
MCClaimOf == [order |-> "order_recorded", parcel |-> "delivered",
              missing |-> "not_received", found |-> "received", unclear |-> NoClaim]
MCMaxAge == [order_ledger |-> 1, carrier |-> 0, buyer_channel |-> 0]

Cite(c, refs) == [claim |-> c, refs |-> refs]

\* What the ledger supports, part of it, too much of it, and the wrong thing.
MCProposals ==
  { {Cite("order_recorded", {"order"}), Cite("delivered", {"parcel"}),
     Cite("received", {"found"})},
    {Cite("delivered", {"parcel"})}, {Cite("received", {"found"})},
    {Cite("not_received", {"missing"})},
    {Cite("received", {"found", "unclear"})}, {Cite("in_transit", {"parcel"})} }

-----------------------------------------------------------------------------
VARIABLE part   \* the part this behaviour is about

evidenceVars == <<bridgeVars, asVars, part>>

\* The other part stays in one initial state.
EvidenceInit ==
  /\ part \in {"bridge", "judgment"}
  /\ BridgeInit /\ AsInit
  /\ part # "bridge" => export = CHOOSE f \in [Workers -> Exports] : TRUE

EvidenceNext ==
  /\ UNCHANGED part
  /\ \/ part = "bridge" /\ BridgeNext /\ UNCHANGED asVars
     \/ part = "judgment" /\ AsNext /\ UNCHANGED bridgeVars

EvidenceSpec == EvidenceInit /\ [][EvidenceNext]_evidenceVars
=============================================================================
