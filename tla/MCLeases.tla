-------------------------------- MODULE MCLeases --------------------------------
(***************************************************************************)
(* What is lent or remembered for a time, for TLC: sandboxes, signing keys *)
(* and token verdicts.  They share no state, so a behaviour is one of the  *)
(* part chosen at its start.                                               *)
(***************************************************************************)
EXTENDS Sandbox, SigningKeys, TokenVerdicts, TLC

\* x1 and x2 are the executors, the threads or the callers of the part.
CONSTANTS x1, x2, t1, t2, k1, k2

SymLeases == Permutations({x1, x2}) \cup Permutations(Contents)

\* t1 lives through the run, t2 expires in it and is signed with another key.
MCKidOf == (t1 :> k1) @@ (t2 :> k2)
MCIssuedAt == (t1 :> 0) @@ (t2 :> 1)
MCExpiresAt == (t1 :> 9) @@ (t2 :> 2)

-----------------------------------------------------------------------------
VARIABLE part   \* the part this behaviour is about

leaseVars == <<sbVars, skVars, tvVars, part>>

\* The other parts stay in one initial state.
LeaseInit ==
  /\ part \in {"sandbox", "keys", "verdicts"}
  /\ SbInit /\ SkInit /\ TvInit
  /\ part # "keys" => published = {}

LeaseNext ==
  /\ UNCHANGED part
  /\ \/ part = "sandbox" /\ SbNext /\ UNCHANGED <<skVars, tvVars>>
     \/ part = "keys" /\ SkNext /\ UNCHANGED <<sbVars, tvVars>>
     \/ part = "verdicts" /\ TvNext /\ UNCHANGED <<sbVars, skVars>>

LeaseSpec == LeaseInit /\ [][LeaseNext]_leaseVars
=============================================================================
