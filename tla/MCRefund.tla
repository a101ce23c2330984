------------------------------- MODULE MCRefund -------------------------------
(* Two dispatchers, a daemon and two deciders around one refund.           *)
EXTENDS Refund, TLC

CONSTANTS d1, d2, ops, operator

SymRefund == Permutations({d1, d2}) \cup Permutations({ops, operator})
=============================================================================
