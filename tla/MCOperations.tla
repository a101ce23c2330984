------------------------------ MODULE MCOperations ------------------------------
(***************************************************************************)
(* The operations tooling for TLC: backups, the WAL archive and the review *)
(* list after a restore.  They share no state, so a behaviour is one of    *)
(* the part chosen at its start.                                           *)
(***************************************************************************)
EXTENDS Backups, WalArchive, Recovery

\* Names of backups: manifests are ordered by their recovery points.
CONSTANTS x1, x2, x3

SymOperations == Permutations({x1, x2, x3})

-----------------------------------------------------------------------------
VARIABLE part   \* the part this behaviour is about

opsVars == <<bkVars, waVars, rvVars, part>>

OpsInit ==
  /\ part \in {"backups", "wal", "recovery"}
  /\ BkInit /\ WaInit /\ RvInit

OpsNext ==
  /\ UNCHANGED part
  /\ \/ part = "backups" /\ BkNext /\ UNCHANGED <<waVars, rvVars>>
     \/ part = "wal" /\ WaNext /\ UNCHANGED <<bkVars, rvVars>>
     \/ part = "recovery" /\ RvNext /\ UNCHANGED <<bkVars, waVars>>

OpsSpec == OpsInit /\ [][OpsNext]_opsVars
=============================================================================
