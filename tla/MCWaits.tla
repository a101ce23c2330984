------------------------------- MODULE MCWaits --------------------------------
(* Two hosts, two generations, two signals, clocks one tick apart.         *)
EXTENDS Waits, TLC

CONSTANTS h1, h2

SymHosts == Permutations({h1, h2})
=============================================================================
