------------------------------ MODULE MCWorker --------------------------------
(* Instances of Worker for TLC.                                            *)
EXTENDS WorkerInv, TLC

CONSTANTS r1, r2, w1, w2, o1, tA

MCTenantOf1 == r1 :> tA
\* Two Runs of one tenant.
MCTenantOf == r1 :> tA @@ r2 :> tA
\* Both processes run under one lease_owner: only the fence tells them apart.
MCSharedOwner == w1 :> o1 @@ w2 :> o1

\* The workers share their owner and the Runs their tenant, so both are
\* interchangeable in the safety runs.
SymWorkers == Permutations({w1, w2})
SymWorkersAndRuns == SymWorkers \cup Permutations({r1, r2})
=============================================================================
