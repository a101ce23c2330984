------------------------------ MODULE WorkerInv -------------------------------
(***************************************************************************)
(* The inductive invariant behind the safety properties of Worker.  The    *)
(* properties speak of the worker that holds a valid lease; what makes     *)
(* them inductive is that they already follow from the fence alone,        *)
(* however long ago the lease expired.                                     *)
(***************************************************************************)
EXTENDS Worker

\* The worker was the last to claim its Run.
Current(w) == /\ slice[w].pc # "idle"
              /\ slice[w].token = runs[slice[w].run].token

\* A set of checkpoints has a newest one, so that get_latest() finds it.
HasTop(rows) == rows = {} \/ \E c \in rows : \A d \in rows : d.version <= c.version

EveryRunHasTop == \A r \in Runs : HasTop(ckpts[r])

\* No claim and no checkpoint carries a fence the Run row has not reached.
FencesReached ==
  /\ \A w \in Workers : slice[w].pc # "idle" =>
       /\ slice[w].run \in Runs
       /\ slice[w].token <= runs[slice[w].run].token
  /\ \A r \in Runs : \A c \in ckpts[r] : c.token <= runs[r].token

\* Until somebody else claims the Run it stays RUNNING under the worker's
\* name, and no checkpoint is saved besides the worker's own.
CurrentIsAlone ==
  \A w \in Workers : Current(w) =>
    LET r == slice[w].run
    IN  /\ runs[r].state = "RUNNING"
        /\ runs[r].owner = OwnerOf[w]
        /\ slice[w].prev = Latest(ckpts[r])
        /\ \A c \in ckpts[r] : c.token < slice[w].token

\* What a returned slice is about to save extends what it started from.
ResultExtendsPrev ==
  \A w \in Workers : slice[w].pc = "returned" =>
    /\ slice[w].next.token = slice[w].token
    /\ IF slice[w].proposal
         THEN slice[w].next.version = slice[w].prev.version
         ELSE slice[w].next.version > slice[w].prev.version

FencingInv ==
  /\ TypeOK
  /\ EveryRunHasTop
  /\ FencesReached
  /\ FenceIsUnique
  /\ CurrentIsAlone
  /\ ResultExtendsPrev
  /\ CheckpointsFollowFence
=============================================================================
