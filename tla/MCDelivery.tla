------------------------------ MODULE MCDelivery -------------------------------
(***************************************************************************)
(* Delivery for TLC.  Publishing and the clients' tails read the same log  *)
(* and nothing of each other, so a behaviour has the steps of one of them: *)
(* the instances add up instead of multiplying.                            *)
(***************************************************************************)
EXTENDS Delivery, TLC

CONSTANTS o1, i1, i2, i3, p1, p2, w1, w2

\* Publishers that share one owner name; the rest is interchangeable.
MCSharedOwner == [p \in Publishers |-> o1]

Sym == Permutations(Ids) \cup Permutations(Publishers) \cup Permutations(Writers)

VARIABLE readers   \* who reads the log in this behaviour

ReadersInit == Init /\ readers \in {"publishers", "clients"}

ReadersNext ==
  /\ UNCHANGED readers
  /\ \/ readers = "publishers" /\ Next /\ UNCHANGED tail
     \/ readers = "clients" /\ Next /\ UNCHANGED <<publisher, wire, proj, faults>>

DeliverySpec == ReadersInit /\ [][ReadersNext]_<<vars, readers>>
=============================================================================
