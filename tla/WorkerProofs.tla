----------------------------- MODULE WorkerProofs -----------------------------
(***************************************************************************)
(* Proofs about Worker.  FencingInv is inductive, and the safety           *)
(* properties of the fenced execution path follow from it; with it, so do  *)
(* those of the tables that one transaction keeps in step: checkpoints,    *)
(* the dispatch queue and the admission slots.                             *)
(***************************************************************************)
EXTENDS WorkerInv, TLAPS

USE LeaseAssumption, DelayAssumption

-----------------------------------------------------------------------------
(* Rows stay rows.                                                         *)

\* The time left until a deadline stays within the deadline's range.
LEMMA LeftType ==
  ASSUME NEW b \in Nat, NEW n \in 0..b, NEW d \in Nat
  PROVE  Left(n, d) \in 0..b /\ Left(n, d) <= n
BY DEF Left

\* Time passing keeps the rows of the three tables well typed.
LEMMA AfterType ==
  ASSUME NEW d \in Nat
  PROVE  /\ \A row \in RunRow : RunAfter(row, d) \in RunRow
         /\ \A q \in QueueRow : QueueAfter(q, d) \in QueueRow
         /\ \A s \in SlotRow : SlotAfter(s, d) \in SlotRow
<1>1. ASSUME NEW row \in RunRow PROVE RunAfter(row, d) \in RunRow
  <2>1. Left(row.lease, d) \in 0..Lease /\ Left(row.avail, d) \in 0..MaxDelay
    BY LeftType, Zenon DEF RunRow
  <2> QED BY <2>1, Zenon DEF RunAfter, RunRow
<1>2. ASSUME NEW q \in QueueRow PROVE QueueAfter(q, d) \in QueueRow
  BY LeftType DEF QueueAfter, QueueRow
<1>3. ASSUME NEW s \in SlotRow PROVE SlotAfter(s, d) \in SlotRow
  BY LeftType DEF SlotAfter, SlotRow
<1> QED BY <1>1, <1>2, <1>3

\* A claim writes a well-typed Run row with the next fence.
LEMMA ClaimedType ==
  ASSUME NEW row \in RunRow, NEW o \in Owners
  PROVE  /\ Claimed(row, o) \in RunRow
         /\ Claimed(row, o).token = row.token + 1
BY DEF Claimed, RunRow, RunState

\* transition() writes a well-typed Run row and keeps the fence.
LEMMA MovedType ==
  ASSUME NEW row \in RunRow, NEW t \in RunState, NEW delay \in 0..MaxDelay
  PROVE  /\ Moved(row, t, delay) \in RunRow
         /\ Moved(row, t, delay).token = row.token
         /\ Moved(row, t, delay).state = t
<1>1. (IF t = "RETRY_AT" THEN delay ELSE 0) \in 0..MaxDelay /\ 0 \in 0..Lease
  OBVIOUS
<1> QED BY <1>1 DEF Moved, RunRow

\* The queue trigger writes a well-typed queue row.
LEMMA QueueSyncType ==
  ASSUME NEW row \in RunRow, NEW q \in QueueRow
  PROVE  QueueSync(row, q) \in QueueRow
BY DEF QueueSync, QueueRow, RunRow, NoQueueRow

\* acquire_slot() leaves a well-typed slot table.
LEMMA SlotAcquiredType ==
  ASSUME NEW s \in [Runs -> SlotRow], NEW l, NEW r \in Runs,
         NEW o \in Owners, NEW t \in Nat
  PROVE  SlotAcquired(s, l, r, o, t) \in [Runs -> SlotRow]
<1>1. NoSlot \in SlotRow
  BY DEF NoSlot, SlotRow
<1>2. Purged(s) \in [Runs -> SlotRow]
  BY <1>1 DEF Purged
<1>3. [s EXCEPT ![r].lease = Lease] \in [Runs -> SlotRow]
  BY DEF SlotRow
<1>4. [token |-> t, owner |-> o, lease |-> Lease] \in SlotRow
  BY DEF SlotRow
<1> QED BY <1>2, <1>3, <1>4 DEF SlotAcquired

-----------------------------------------------------------------------------
(* The newest checkpoint.                                                  *)

\* get_latest() returns a checkpoint no saved one exceeds.
LEMMA LatestIsTop ==
  ASSUME NEW rows \in SUBSET Checkpoint, HasTop(rows)
  PROVE  /\ Latest(rows) \in Checkpoint
         /\ rows # {} => Latest(rows) \in rows
         /\ \A d \in rows : d.version <= Latest(rows).version
<1>1. CASE rows = {}
  BY <1>1 DEF Latest, InitialCheckpoint, Checkpoint, Step
<1>2. CASE rows # {}
  BY <1>2 DEF Latest, HasTop
<1> QED BY <1>1, <1>2

\* Either Harness hands back a checkpoint of the slice's fence, past the one it
\* started from.
LEMMA HarnessExtends ==
  ASSUME NEW w \in Workers, slice[w] \in Slice, HarnessAdvance(w) \/ HarnessScript(w)
  PROVE  \E c \in Checkpoint : /\ slice' = [slice EXCEPT ![w] = Returned(w, c, FALSE)]
                               /\ c.token = slice[w].token
                               /\ c.version > slice[w].prev.version
<1> DEFINE Row(n, step) == [version |-> slice[w].prev.version + n,
                            token |-> slice[w].token, step |-> step]
<1>1. \A n \in Nat \ {0}, step \in Step :
        /\ Row(n, step) \in Checkpoint
        /\ Row(n, step).token = slice[w].token
        /\ Row(n, step).version > slice[w].prev.version
  BY DEF Slice, Checkpoint
<1>2. \E n \in Nat \ {0}, step \in Step :
        slice' = [slice EXCEPT ![w] = Returned(w, Row(n, step), FALSE)]
  <2>1. CASE HarnessAdvance(w)
    <3>1. PICK step \in BoundedSteps(slice[w].prev) :
            slice' = [slice EXCEPT ![w] = Returned(w, Row(1, step), FALSE)]
      BY <2>1, Zenon DEF HarnessAdvance
    <3>2. step \in Step
      BY DEF BoundedSteps, HarnessSteps, Step
    <3>3. 1 \in Nat \ {0}
      OBVIOUS
    <3> QED BY <3>1, <3>2, <3>3, Zenon
  <2>2. CASE HarnessScript(w)
    <3>1. PICK n \in 1..MaxSteps :
            \/ slice' = [slice EXCEPT ![w] = Returned(w, Row(n, "tool"), FALSE)]
            \/ slice' = [slice EXCEPT ![w] = Returned(w, Row(n + 1, "complete"), FALSE)]
      BY <2>2, Zenon DEF HarnessScript
    <3>2. n \in Nat \ {0} /\ n + 1 \in Nat \ {0}
      BY BoundAssumption
    <3>3. {"tool", "complete"} \subseteq Step
      BY DEF Step
    <3> QED BY <3>1, <3>2, <3>3, Zenon
  <2> QED BY <2>1, <2>2, Zenon
<1> QED BY <1>1, <1>2, Zenon

\* Saving a version past the newest checkpoint makes it the newest.
LEMMA SavedIsLatest ==
  ASSUME NEW rows \in SUBSET Checkpoint, HasTop(rows),
         NEW c \in Checkpoint, c.version > Latest(rows).version
  PROVE  /\ HasTop(rows \cup {c})
         /\ Latest(rows \cup {c}) = c
<1>1. \A d \in rows : d.version < c.version /\ d \in Checkpoint
  BY LatestIsTop DEF Checkpoint
<1>2. \A d \in rows \cup {c} : d.version <= c.version
  BY <1>1 DEF Checkpoint
<1>3. \A x \in rows \cup {c} :
        (\A d \in rows \cup {c} : d.version <= x.version) => x = c
  BY <1>1 DEF Checkpoint
<1> QED BY <1>2, <1>3 DEF HasTop, Latest

-----------------------------------------------------------------------------
(* TypeOK.                                                                 *)

\* The clock advancing keeps the three tables well typed.
LEMMA TablesAfterType ==
  ASSUME TypeOK, NEW d \in Nat
  PROVE  /\ RunsAfter(d) \in [Runs -> RunRow]
         /\ QueuesAfter(d) \in [Runs -> QueueRow]
         /\ SlotsAfter(d) \in [Runs -> SlotRow]
BY AfterType DEF TypeOK, RunsAfter, QueuesAfter, SlotsAfter

\* An idle worker's slice is well typed.
LEMMA IdleType == Idle \in Slice
BY DEF Idle, Slice, InitialCheckpoint, Checkpoint, Step

\* So is a slice whose Harness has returned.
LEMMA ReturnedType ==
  ASSUME TypeOK, NEW w \in Workers, NEW c \in Checkpoint, NEW p \in BOOLEAN
  PROVE  Returned(w, c, p) \in Slice
BY ZenonT(40) DEF TypeOK, Slice, Returned

\* Renewing a lease keeps the Run table and the slot table well typed.
LEMMA RenewedType ==
  ASSUME NEW r \in Runs, NEW n \in 0..Lease
  PROVE  /\ \A f \in [Runs -> RunRow] :
              [f EXCEPT ![r].lease = n] \in [Runs -> RunRow]
         /\ \A f \in [Runs -> SlotRow] :
              [f EXCEPT ![r].lease = n] \in [Runs -> SlotRow]
BY DEF RunRow, SlotRow

\* So does the final transaction of a slice.
LEMMA CommitType ==
  ASSUME TypeOK, NEW w \in Workers, slice[w].run \in Runs,
         NEW accepted \in BOOLEAN, NEW delay \in 0..MaxDelay,
         Commit(w, accepted, delay)
  PROVE  TypeOK' /\ Judged(w, accepted) \in Checkpoint
<1> DEFINE r == slice[w].run
           c == Judged(w, accepted)
           row == Moved(runs[r], TargetState(c.step), delay)
<1>1. c \in Checkpoint
  <2>1. slice[w].next \in Checkpoint BY DEF TypeOK, Slice
  <2> QED BY <2>1 DEF Judged, Checkpoint, Step
<1> HIDE DEF c
<1>2. TargetState(c.step) \in RunState
  BY DEF TargetState, RunState
<1>3. row \in RunRow
  BY <1>2, MovedType DEF TypeOK
<1> HIDE DEF row
<1>4. queue' \in [Runs -> QueueRow]
  BY <1>3, QueueSyncType DEF Commit, TypeOK, c, row
<1>5. slots' \in [Runs -> SlotRow]
  BY DEF Commit, TypeOK, SlotReleased, NoSlot, SlotRow
<1>6. slice' \in [Workers -> Slice]
  BY IdleType DEF Commit, TypeOK
<1>7. ckpts' \in [Runs -> SUBSET Checkpoint]
  BY <1>1 DEF Commit, TypeOK, c
<1>8. runs' \in [Runs -> RunRow]
  BY <1>3 DEF Commit, TypeOK, c, row
<1> QED BY <1>1, <1>4, <1>5, <1>6, <1>7, <1>8 DEF TypeOK, Commit, c

-----------------------------------------------------------------------------
(* FencingInv.  Most steps touch neither a fence nor a checkpoint, and at  *)
(* most end a slice or let its Harness return.                             *)

\* The step leaves the fence, the state and the owner of every Run alone.
SameFences ==
  \A r \in Runs : /\ runs'[r].token = runs[r].token
                  /\ runs'[r].state = runs[r].state
                  /\ runs'[r].owner = runs[r].owner

\* The step ends the slice of w, or keeps its claim and what it started from.
SameSlice(w) ==
  \/ slice'[w].pc = "idle"
  \/ /\ slice[w].pc # "idle"
     /\ slice'[w].run = slice[w].run
     /\ slice'[w].token = slice[w].token
     /\ slice'[w].prev = slice[w].prev

\* A step that changes no fence, no checkpoint and no claim keeps FencingInv.
LEMMA QuietStep ==
  ASSUME FencingInv, TypeOK', SameFences, ckpts' = ckpts,
         \A w \in Workers : SameSlice(w), ResultExtendsPrev'
  PROVE  FencingInv'
<1>1. EveryRunHasTop' /\ CheckpointsFollowFence'
  BY DEF FencingInv, EveryRunHasTop, CheckpointsFollowFence
<1>2. FencesReached'
  BY DEF FencingInv, FencesReached, SameFences, SameSlice
<1>3. FenceIsUnique'
  BY DEF FencingInv, FenceIsUnique, SameSlice
<1>4. CurrentIsAlone'
  <2> SUFFICES ASSUME NEW w \in Workers, Current(w)'
               PROVE  LET r == slice'[w].run
                      IN  /\ runs'[r].state = "RUNNING"
                          /\ runs'[r].owner = OwnerOf[w]
                          /\ slice'[w].prev = Latest(ckpts'[r])
                          /\ \A c \in ckpts'[r] : c.token < slice'[w].token
    BY DEF CurrentIsAlone
  <2>1. slice[w].pc # "idle" /\ slice[w].run \in Runs
        /\ slice'[w].run = slice[w].run /\ slice'[w].token = slice[w].token
        /\ slice'[w].prev = slice[w].prev
    BY DEF Current, SameSlice, FencingInv, FencesReached
  <2>2. Current(w)
    BY <2>1 DEF Current, SameFences
  <2> QED BY <2>1, <2>2 DEF FencingInv, CurrentIsAlone, SameFences
<1> QED BY <1>1, <1>2, <1>3, <1>4 DEF FencingInv

\* Claiming a Run gives the claimer a fence nobody has used.
LEMMA ClaimStep ==
  ASSUME FencingInv, TypeOK', NEW w \in Workers, NEW r \in Runs, NEW d \in Nat,
         ClaimAndSlot(w, r, d)
  PROVE  FencingInv'
<1>1. TypeOK BY DEF FencingInv
<1>2. /\ runs'[r].token = runs[r].token + 1
      /\ runs'[r].state = "RUNNING"
      /\ runs'[r].owner = OwnerOf[w]
      /\ \A x \in Runs \ {r} : /\ runs'[x].token = runs[x].token
                               /\ runs'[x].state = runs[x].state
                               /\ runs'[x].owner = runs[x].owner
  BY <1>1, Zenon DEF ClaimAndSlot, TypeOK, RunsAfter, RunAfter, Claimed, RunRow
<1>3. /\ slice'[w].pc = "harness"
      /\ slice'[w].run = r
      /\ slice'[w].token = runs[r].token + 1
      /\ slice'[w].prev = Latest(ckpts[r])
      /\ \A v \in Workers \ {w} : slice'[v] = slice[v]
      /\ ckpts' = ckpts
  BY <1>1 DEF ClaimAndSlot, TypeOK, Idle, Claimed
<1>4. \A x \in Runs : runs[x].token \in Nat
  BY <1>1 DEF TypeOK, RunRow
<1>5. \A v \in Workers \ {w} : slice[v].pc # "idle" =>
        slice[v].run \in Runs /\ slice[v].token <= runs[slice[v].run].token
        /\ slice[v].token \in Nat
  BY <1>1 DEF FencingInv, FencesReached, TypeOK, Slice
<1>6. \A x \in Runs : \A c \in ckpts[x] : c.token \in Nat /\ c.token <= runs[x].token
  BY <1>1 DEF FencingInv, FencesReached, TypeOK, Checkpoint
<1>7. EveryRunHasTop' /\ CheckpointsFollowFence'
  BY <1>3 DEF FencingInv, EveryRunHasTop, CheckpointsFollowFence
<1>8. FencesReached'
  BY <1>2, <1>3, <1>4, <1>5, <1>6 DEF FencesReached
<1>9. FenceIsUnique'
  BY <1>2, <1>3, <1>4, <1>5 DEF FencingInv, FenceIsUnique
<1>10. CurrentIsAlone'
  <2>1. ASSUME NEW v \in Workers, Current(v)', v # w PROVE Current(v) /\ slice[v].run # r
    <3>1. /\ slice'[v] = slice[v] /\ slice[v].pc # "idle"
          /\ slice[v].token = runs'[slice[v].run].token
      BY <1>3, <2>1 DEF Current
    <3>2. slice[v].run # r
      BY <1>2, <1>4, <1>5, <2>1, <3>1
    <3>3. runs'[slice[v].run].token = runs[slice[v].run].token
      BY <1>2, <1>5, <2>1, <3>1, <3>2
    <3> QED BY <3>1, <3>2, <3>3 DEF Current
  <2>2. \A c \in ckpts[r] : c.token < runs[r].token + 1
    BY <1>4, <1>6
  <2>3. CurrentIsAlone
    BY DEF FencingInv
  <2>4. ASSUME NEW v \in Workers, Current(v)'
        PROVE  /\ runs'[slice'[v].run].state = "RUNNING"
               /\ runs'[slice'[v].run].owner = OwnerOf[v]
               /\ slice'[v].prev = Latest(ckpts'[slice'[v].run])
               /\ \A c \in ckpts'[slice'[v].run] : c.token < slice'[v].token
    <3>1. CASE v = w
      BY <1>2, <1>3, <2>2, <3>1
    <3>2. CASE v # w
      <4>1. Current(v) /\ slice[v].run \in Runs \ {r} /\ slice'[v] = slice[v]
        BY <1>3, <1>5, <2>1, <2>4, <3>2 DEF Current
      <4> QED BY <1>2, <1>3, <2>3, <4>1 DEF CurrentIsAlone
    <3> QED BY <3>1, <3>2
  <2> QED BY <2>4 DEF CurrentIsAlone
<1>11. ResultExtendsPrev'
  BY <1>3 DEF FencingInv, ResultExtendsPrev
<1> QED BY <1>7, <1>8, <1>9, <1>10, <1>11 DEF FencingInv

\* What the holder of the lease saves is past the newest checkpoint, under a
\* fence above every saved one.
LEMMA CommitSaves ==
  ASSUME FencingInv, NEW w \in Workers, NEW accepted \in BOOLEAN,
         slice[w].pc = "returned", Holds(w)
  PROVE  /\ slice[w].run \in Runs
         /\ Current(w)
         /\ Judged(w, accepted).version > Latest(ckpts[slice[w].run]).version
         /\ Judged(w, accepted).token = slice[w].token
         /\ \A c \in ckpts[slice[w].run] : c.token < slice[w].token
<1>1. slice[w].run \in Runs /\ Current(w)
  BY DEF FencingInv, FencesReached, Holds, HoldsLease, Current
<1>2. slice[w].prev = Latest(ckpts[slice[w].run])
      /\ \A c \in ckpts[slice[w].run] : c.token < slice[w].token
  BY <1>1 DEF FencingInv, CurrentIsAlone
<1>3. slice[w].next.version \in Nat /\ slice[w].prev.version \in Nat
      /\ slice[w].proposal \in BOOLEAN
  BY DEF FencingInv, TypeOK, Slice, Checkpoint
<1>4. /\ slice[w].next.token = slice[w].token
      /\ IF slice[w].proposal
           THEN slice[w].next.version = slice[w].prev.version
           ELSE slice[w].next.version > slice[w].prev.version
  BY DEF FencingInv, ResultExtendsPrev
<1> QED BY <1>1, <1>2, <1>3, <1>4 DEF Judged

\* The final transaction keeps FencingInv.
LEMMA CommitStep ==
  ASSUME FencingInv, NEW w \in Workers, NEW accepted \in BOOLEAN,
         NEW delay \in 0..MaxDelay, Commit(w, accepted, delay)
  PROVE  FencingInv'
<1> DEFINE r == slice[w].run
           c == Judged(w, accepted)
<1>1. /\ r \in Runs /\ Current(w)
      /\ c.version > Latest(ckpts[r]).version
      /\ c.token = slice[w].token
      /\ \A old \in ckpts[r] : old.token < slice[w].token
  BY CommitSaves DEF Commit, Savable
<1>2. TypeOK' /\ c \in Checkpoint /\ TypeOK
  BY <1>1, CommitType DEF FencingInv
<1> HIDE DEF c
<1>3. /\ ckpts'[r] = ckpts[r] \cup {c}
      /\ \A x \in Runs \ {r} : ckpts'[x] = ckpts[x] /\ runs'[x] = runs[x]
      /\ runs'[r].token = runs[r].token
      /\ slice'[w].pc = "idle"
      /\ \A v \in Workers \ {w} : slice'[v] = slice[v]
  BY <1>1, <1>2 DEF Commit, TypeOK, Moved, Idle, c
<1>4. HasTop(ckpts[r]) /\ ckpts[r] \in SUBSET Checkpoint
  BY <1>1, <1>2 DEF FencingInv, EveryRunHasTop, TypeOK
<1>5. HasTop(ckpts'[r]) /\ \A old \in ckpts[r] : old.version < c.version
  <2>1. HasTop(ckpts'[r])
    BY <1>1, <1>2, <1>3, <1>4, SavedIsLatest
  <2>2. \A old \in ckpts[r] : old.version <= Latest(ckpts[r]).version
    BY <1>4, LatestIsTop
  <2>3. \A old \in ckpts[r] : old.version \in Nat
    BY <1>4 DEF Checkpoint
  <2>4. Latest(ckpts[r]).version \in Nat
    BY <1>4, LatestIsTop DEF Checkpoint
  <2>5. c.version \in Nat
    BY <1>2 DEF Checkpoint
  <2> QED BY <1>1, <2>1, <2>2, <2>3, <2>4, <2>5
<1>6. EveryRunHasTop'
  BY <1>3, <1>5, ZenonT(40) DEF FencingInv, EveryRunHasTop
<1>7. CheckpointsFollowFence'
  <2>1. ASSUME NEW x \in Runs, NEW a \in ckpts'[x], NEW b \in ckpts'[x]
        PROVE  /\ a.version < b.version => a.token < b.token
               /\ a.version = b.version => a = b
    <3>1. CASE x # r
      BY <2>1, <3>1, <1>3 DEF FencingInv, CheckpointsFollowFence
    <3>2. CASE x = r
      <4>1. a.version \in Nat /\ b.version \in Nat /\ c.version \in Nat
        BY <2>1, <3>2, <1>2, <1>3, <1>4 DEF Checkpoint
      <4>2. \A k, l \in ckpts[r] : /\ k.version < l.version => k.token < l.token
                                   /\ k.version = l.version => k = l
        BY <1>1 DEF FencingInv, CheckpointsFollowFence
      <4>3. a \in ckpts[r] \cup {c} /\ b \in ckpts[r] \cup {c}
        BY <1>3, <2>1, <3>2
      <4>4. CASE a = c
        BY <1>5, <4>1, <4>3, <4>4
      <4>5. CASE a # c /\ b = c
        BY <1>1, <1>5, <4>1, <4>3, <4>5
      <4>6. CASE a # c /\ b # c
        BY <4>2, <4>3, <4>6
      <4> QED BY <4>4, <4>5, <4>6
    <3> QED BY <3>1, <3>2
  <2> QED BY <2>1 DEF CheckpointsFollowFence
<1>8. FencesReached'
  <2>1. \A x \in Runs : runs'[x].token = runs[x].token
    BY <1>3
  <2>2. \A x \in Runs : \A k \in ckpts'[x] : k.token <= runs'[x].token
    <3>1. c.token <= runs[r].token
      BY <1>1, <1>2 DEF Current, Checkpoint
    <3> QED BY <3>1, <2>1, <1>3 DEF FencingInv, FencesReached
  <2>3. \A v \in Workers : slice'[v].pc # "idle" =>
          v # w /\ slice'[v] = slice[v]
    BY <1>3
  <2> QED BY <2>1, <2>2, <2>3 DEF FencingInv, FencesReached
<1>9. FenceIsUnique'
  BY <1>3 DEF FencingInv, FenceIsUnique
<1>10. CurrentIsAlone'
  <2>1. ASSUME NEW v \in Workers, Current(v)'
        PROVE  v # w /\ Current(v) /\ slice[v].run \in Runs \ {r}
    <3>1. v # w /\ slice'[v] = slice[v] /\ slice[v].pc # "idle"
      BY <2>1, <1>3 DEF Current
    <3>2. slice[v].run \in Runs
      BY <3>1 DEF FencingInv, FencesReached
    <3>3. runs'[slice[v].run].token = runs[slice[v].run].token
      BY <1>3, <3>2
    <3>4. Current(v)
      BY <2>1, <3>1, <3>3 DEF Current
    <3> QED BY <1>1, <3>1, <3>2, <3>4 DEF FencingInv, FenceIsUnique, Current
  <2>2. ASSUME NEW v \in Workers, Current(v)'
        PROVE  LET x == slice'[v].run
               IN  /\ runs'[x].state = "RUNNING"
                   /\ runs'[x].owner = OwnerOf[v]
                   /\ slice'[v].prev = Latest(ckpts'[x])
                   /\ \A old \in ckpts'[x] : old.token < slice'[v].token
    <3>1. /\ slice'[v] = slice[v]
          /\ runs'[slice[v].run] = runs[slice[v].run]
          /\ ckpts'[slice[v].run] = ckpts[slice[v].run]
      BY <2>1, <2>2, <1>3
    <3>2. CurrentIsAlone
      BY DEF FencingInv
    <3> QED BY <2>1, <2>2, <3>1, <3>2 DEF CurrentIsAlone
  <2> QED BY <2>2 DEF CurrentIsAlone
<1>11. ResultExtendsPrev'
  BY <1>3 DEF FencingInv, ResultExtendsPrev
<1> QED BY <1>2, <1>6, <1>7, <1>8, <1>9, <1>10, <1>11 DEF FencingInv

-----------------------------------------------------------------------------
(* Every step.                                                              *)

\* Workers can be counted, from the finiteness of their set.  Only the proofs
\* after the library of finite sets is brought in need to know why.
StallsCounted == \A S \in SUBSET Workers : Cardinality(S) \in Nat

\* Counting stalled workers keeps the fault counter within its bound.
LEMMA FaultType ==
  ASSUME StallsCounted, faults \in 0..MaxFaults, NEW S \in SUBSET Workers,
         Fault(Cardinality(S))
  PROVE  faults' \in 0..MaxFaults
<1>1. Cardinality(S) \in Nat
  BY DEF StallsCounted
<1> QED BY <1>1, BoundAssumption DEF Fault

\* Claiming a Run and its slot keeps every variable well typed.
LEMMA ClaimType ==
  ASSUME StallsCounted, TypeOK, EveryRunHasTop, NEW w \in Workers, NEW r \in Runs,
         NEW d \in Nat, ClaimAndSlot(w, r, d)
  PROVE  TypeOK'
<1> DEFINE row == Claimed(runs[r], OwnerOf[w])
<1>1. OwnerOf[w] \in Owners /\ runs[r] \in RunRow /\ queue[r] \in QueueRow
  BY OwnerAssumption DEF TypeOK
<1>2. row \in RunRow /\ row.token \in Nat
  BY <1>1, ClaimedType DEF RunRow
<1> HIDE DEF row
<1>3. runs' \in [Runs -> RunRow]
  <2>1. RunAfter(row, d) \in RunRow BY <1>2, AfterType
  <2> QED BY <2>1, TablesAfterType DEF ClaimAndSlot, row
<1>4. queue' \in [Runs -> QueueRow]
  <2>1. QueueAfter(QueueSync(row, queue[r]), d) \in QueueRow
    BY <1>1, <1>2, QueueSyncType, AfterType
  <2> QED BY <2>1, TablesAfterType DEF ClaimAndSlot, row
<1>5. slots' \in [Runs -> SlotRow]
  BY <1>1, <1>2, TablesAfterType, SlotAcquiredType, Zenon DEF ClaimAndSlot, row
<1>6. slice' \in [Workers -> Slice]
  <2>1. Latest(ckpts[r]) \in Checkpoint
    BY LatestIsTop DEF TypeOK, EveryRunHasTop
  <2>2. [Idle EXCEPT !.pc = "harness", !.run = r, !.token = row.token,
                     !.slot = LimitedScopes(limits, r) # {},
                     !.prev = Latest(ckpts[r])] \in Slice
    BY <1>2, <2>1, IdleType, Zenon DEF Slice
  <2> QED BY <2>2 DEF ClaimAndSlot, row, TypeOK
<1>7. faults' \in 0..MaxFaults
  BY FaultType DEF ClaimAndSlot, TypeOK, Stalled
<1> QED BY <1>3, <1>4, <1>5, <1>6, <1>7 DEF TypeOK, ClaimAndSlot

\* Every step of the system keeps TypeOK.
LEMMA TypeStep ==
  ASSUME StallsCounted, TypeOK, EveryRunHasTop, FencesReached, [Next]_vars
  PROVE  TypeOK'
<1>1. CASE UNCHANGED vars
  BY <1>1 DEF TypeOK, vars
<1>2. CASE Tick
  <2>1. faults' \in 0..MaxFaults
    BY <1>2, FaultType DEF Tick, TypeOK, Stalled
  <2> QED BY <1>2, <2>1, TablesAfterType DEF Tick, TypeOK
<1>3. ASSUME NEW s \in Configurable, NEW n \in 1..MaxLimit,
             ConfigureLimit(s, n)
      PROVE  TypeOK'
  BY <1>3, ConfigurableAssumption, BoundAssumption DEF ConfigureLimit, TypeOK
<1>4. ASSUME NEW r \in Runs, NEW target \in {"READY", "CANCELLED"},
             ResolveReview(r, target)
      PROVE  TypeOK'
  <2>1. target \in RunState BY DEF RunState
  <2>2. Moved(runs[r], target, 0) \in RunRow
    BY <2>1, MovedType DEF TypeOK
  <2>3. QueueSync(Moved(runs[r], target, 0), queue[r]) \in QueueRow
    BY <2>2, QueueSyncType DEF TypeOK
  <2> QED BY <1>4, <2>2, <2>3 DEF ResolveReview, TypeOK
<1>5. ASSUME NEW w \in Workers, WorkerStep(w) PROVE TypeOK'
  <2>1. ASSUME NEW r \in Runs, NEW d \in 0..Drift,
               RunOnce(w, r, d) \/ RunNext(w, r, d)
        PROVE  TypeOK'
    BY <2>1, ClaimType, BoundAssumption DEF RunOnce, RunNext
  <2>2. ASSUME NEW d \in 0..Drift, HeartbeatRenew(w, d) PROVE TypeOK'
    <3>1. slice[w].run \in Runs /\ d \in Nat
      BY <2>2, BoundAssumption DEF HeartbeatRenew, FencesReached
    <3>2. faults' \in 0..MaxFaults
      BY <2>2, FaultType DEF HeartbeatRenew, TypeOK, Stalled
    <3>3. Left(Lease, d) \in 0..Lease
      BY <3>1, LeftType
    <3>4. runs' \in [Runs -> RunRow]
      BY <2>2, <3>1, <3>3, TablesAfterType, RenewedType, Zenon DEF HeartbeatRenew
    <3>5. slots' \in [Runs -> SlotRow]
      <4>1. SlotsAfter(d) \in [Runs -> SlotRow] /\ Lease \in 0..Lease
        BY <3>1, TablesAfterType
      <4>2. [SlotsAfter(d) EXCEPT ![slice[w].run].lease = Lease]
              \in [Runs -> SlotRow]
        BY <3>1, <4>1, RenewedType
      <4> QED BY <2>2, <4>1, <4>2 DEF HeartbeatRenew
    <3> QED BY <2>2, <3>1, <3>2, <3>4, <3>5, TablesAfterType
            DEF HeartbeatRenew, TypeOK
  <2>3. CASE HeartbeatFail(w)
    <3>1. faults' \in 0..MaxFaults
      BY <2>3, BoundAssumption DEF HeartbeatFail, Fault, TypeOK
    <3> QED BY <2>3, <3>1 DEF HeartbeatFail, TypeOK, Slice
  <2>4. CASE HarnessReturn(w)
    <3>1. slice[w] \in Slice BY DEF TypeOK
    <3>2. CASE HarnessAdvance(w) \/ HarnessScript(w)
      <4>1. PICK c \in Checkpoint : slice' = [slice EXCEPT ![w] = Returned(w, c, FALSE)]
        BY <3>1, <3>2, HarnessExtends, Zenon
      <4> QED BY <2>4, <4>1, ReturnedType, Zenon DEF HarnessReturn, TypeOK
    <3>3. CASE HarnessPropose(w)
      <4>1. [slice[w].prev EXCEPT !.token = slice[w].token] \in Checkpoint
        BY <3>1 DEF Slice, Checkpoint
      <4> QED BY <2>4, <3>3, <4>1, ReturnedType, Zenon
              DEF HarnessReturn, HarnessPropose, TypeOK
    <3> QED BY <2>4, <3>2, <3>3 DEF HarnessReturn
  <2>5. ASSUME NEW accepted \in BOOLEAN, NEW delay \in 0..MaxDelay,
               Commit(w, accepted, delay)
        PROVE  TypeOK'
    <3>1. slice[w].run \in Runs
      BY <2>5, Zenon DEF Commit, FencesReached
    <3> QED BY <2>5, <3>1, CommitType
  <2>6. CASE SliceLost(w)
    BY <2>6, IdleType DEF SliceLost, TypeOK
  <2>7. CASE Crash(w)
    <3>1. faults' \in 0..MaxFaults
      BY <2>7, BoundAssumption DEF Crash, Fault, TypeOK
    <3> QED BY <2>7, <3>1, IdleType DEF Crash, TypeOK
  <2> QED BY <1>5, <2>1, <2>2, <2>3, <2>4, <2>5, <2>6, <2>7 DEF WorkerStep
<1> QED BY <1>1, <1>2, <1>3, <1>4, <1>5 DEF Next, OperatorStep

\* Every step of the system keeps FencingInv.
LEMMA FencingStep ==
  ASSUME StallsCounted, FencingInv, [Next]_vars
  PROVE  FencingInv'
<1>1. TypeOK' /\ TypeOK
  BY TypeStep DEF FencingInv
<1>2. CASE UNCHANGED vars
  <2>1. SameFences /\ ckpts' = ckpts /\ ResultExtendsPrev'
        /\ \A w \in Workers : SameSlice(w)
    BY <1>2 DEF vars, SameFences, SameSlice, FencingInv, ResultExtendsPrev
  <2> QED BY <1>1, <2>1, QuietStep
<1>3. CASE Tick
  <2>1. SameFences
    BY <1>1, <1>3, ZenonT(40) DEF Tick, SameFences, RunsAfter, RunAfter, TypeOK, RunRow
  <2>2. ckpts' = ckpts /\ slice' = slice
    BY <1>3 DEF Tick
  <2>3. ResultExtendsPrev' /\ \A w \in Workers : SameSlice(w)
    BY <2>2 DEF SameSlice, FencingInv, ResultExtendsPrev
  <2> QED BY <1>1, <2>1, <2>2, <2>3, QuietStep
<1>4. ASSUME NEW s \in Configurable, NEW n \in 1..MaxLimit,
             ConfigureLimit(s, n)
      PROVE  FencingInv'
  <2>1. SameFences /\ ckpts' = ckpts /\ ResultExtendsPrev'
        /\ \A w \in Workers : SameSlice(w)
    BY <1>4 DEF ConfigureLimit, SameFences, SameSlice, FencingInv, ResultExtendsPrev
  <2> QED BY <1>1, <2>1, QuietStep
<1>5. ASSUME NEW r \in Runs, NEW target \in {"READY", "CANCELLED"},
             ResolveReview(r, target)
      PROVE  FencingInv'
  <2>1. /\ ckpts' = ckpts /\ slice' = slice
        /\ \A x \in Runs : runs'[x].token = runs[x].token
        /\ \A x \in Runs \ {r} : runs'[x] = runs[x]
        /\ runs[r].state = "REVIEW"
    BY <1>1, <1>5, Zenon DEF ResolveReview, Moved, TypeOK
  <2>2. EveryRunHasTop' /\ CheckpointsFollowFence' /\ FencesReached'
        /\ FenceIsUnique' /\ ResultExtendsPrev'
    BY <2>1 DEF FencingInv, EveryRunHasTop, CheckpointsFollowFence,
                FencesReached, FenceIsUnique, ResultExtendsPrev
  <2>3. CurrentIsAlone'
    <3>1. ASSUME NEW w \in Workers, Current(w)'
          PROVE  Current(w) /\ slice[w].run \in Runs \ {r}
      BY <3>1, <2>1, Zenon DEF Current, FencingInv, CurrentIsAlone, FencesReached
    <3> QED BY <3>1, <2>1, Zenon DEF FencingInv, CurrentIsAlone
  <2> QED BY <1>1, <2>2, <2>3 DEF FencingInv
<1>6. ASSUME NEW w \in Workers, WorkerStep(w) PROVE FencingInv'
  <2>1. ASSUME NEW r \in Runs, NEW d \in 0..Drift,
               RunOnce(w, r, d) \/ RunNext(w, r, d)
        PROVE  FencingInv'
    <3>1. d \in Nat
      BY BoundAssumption
    <3> QED BY <1>1, <2>1, <3>1, ClaimStep, Zenon DEF RunOnce, RunNext
  <2>2. ASSUME NEW d \in 0..Drift, HeartbeatRenew(w, d) PROVE FencingInv'
    <3>1. SameFences
      <4>1. \A x \in Runs : /\ RunsAfter(d)[x].token = runs[x].token
                           /\ RunsAfter(d)[x].state = runs[x].state
                           /\ RunsAfter(d)[x].owner = runs[x].owner
        BY <1>1, ZenonT(40) DEF RunsAfter, RunAfter, TypeOK, RunRow
      <4>2. RunsAfter(d) \in [Runs -> RunRow]
        BY <1>1, TablesAfterType, BoundAssumption
      <4>3. runs' = [RunsAfter(d) EXCEPT ![slice[w].run].lease = Left(Lease, d)]
        BY <2>2 DEF HeartbeatRenew
      <4> HIDE DEF RunsAfter
      <4> QED BY <4>1, <4>2, <4>3 DEF SameFences, RunRow
    <3>2. ckpts' = ckpts /\ slice' = slice
      BY <2>2 DEF HeartbeatRenew
    <3>3. ResultExtendsPrev' /\ \A v \in Workers : SameSlice(v)
      BY <3>2 DEF SameSlice, FencingInv, ResultExtendsPrev
    <3> QED BY <1>1, <3>1, <3>2, <3>3, QuietStep
  <2>3. CASE HeartbeatFail(w) \/ HarnessReturn(w) \/ SliceLost(w) \/ Crash(w)
    <3>1. SameFences /\ ckpts' = ckpts
      BY <2>3, Zenon DEF HeartbeatFail, HarnessReturn, SliceLost, Crash, SameFences
    <3>2. \A v \in Workers \ {w} : slice'[v] = slice[v]
      BY <1>1, <2>3, Zenon DEF HeartbeatFail, HarnessReturn, HarnessAdvance, HarnessScript,
                        HarnessPropose,
                        SliceLost, Crash, TypeOK
    <3>3. /\ SameSlice(w)
          /\ slice'[w].pc = "returned" =>
               /\ slice'[w].next.token = slice'[w].token
               /\ IF slice'[w].proposal
                    THEN slice'[w].next.version = slice'[w].prev.version
                    ELSE slice'[w].next.version > slice'[w].prev.version
      <4>1. slice[w] \in Slice BY <1>1 DEF TypeOK
      <4>2. CASE HeartbeatFail(w)
        BY <1>1, <4>1, <4>2 DEF HeartbeatFail, SameSlice, TypeOK, Slice
      <4>3. CASE SliceLost(w) \/ Crash(w)
        <5>1. slice'[w] = Idle
          BY <1>1, <4>3, Zenon DEF SliceLost, Crash, TypeOK
        <5>2. slice'[w].pc = "idle"
          BY <5>1 DEF Idle
        <5> QED BY <5>2 DEF SameSlice
      <4>4. CASE HarnessReturn(w) /\ (HarnessAdvance(w) \/ HarnessScript(w))
        <5>1. PICK c \in Checkpoint :
                /\ slice' = [slice EXCEPT ![w] = Returned(w, c, FALSE)]
                /\ c.token = slice[w].token
                /\ c.version > slice[w].prev.version
          BY <4>1, <4>4, HarnessExtends, Zenon
        <5>2. slice'[w] = Returned(w, c, FALSE)
          BY <1>1, <5>1 DEF TypeOK
        <5>3. /\ slice'[w].next = c
              /\ slice'[w].run = slice[w].run
              /\ slice'[w].token = slice[w].token
              /\ slice'[w].prev = slice[w].prev
              /\ slice'[w].proposal = FALSE
          BY <4>1, <5>2 DEF Returned, Slice
        <5>4. slice[w].pc # "idle"
          BY <4>4 DEF HarnessReturn
        <5> QED BY <5>1, <5>3, <5>4, Zenon DEF SameSlice
      <4>5. CASE HarnessReturn(w) /\ HarnessPropose(w)
        BY <1>1, <4>1, <4>5 DEF HarnessReturn, HarnessPropose, Returned, SameSlice,
                                TypeOK, Slice, Checkpoint
      <4> QED BY <2>3, <4>2, <4>3, <4>4, <4>5 DEF HarnessReturn
    <3>4. \A v \in Workers : SameSlice(v)
      BY <3>2, <3>3 DEF SameSlice
    <3>5. ResultExtendsPrev'
      BY <3>2, <3>3 DEF FencingInv, ResultExtendsPrev
    <3> QED BY <1>1, <3>1, <3>4, <3>5, QuietStep
  <2>4. ASSUME NEW accepted \in BOOLEAN, NEW delay \in 0..MaxDelay,
               Commit(w, accepted, delay)
        PROVE  FencingInv'
    BY <2>4, CommitStep
  <2> QED BY <1>6, <2>1, <2>2, <2>3, <2>4 DEF WorkerStep
<1> QED BY <1>2, <1>3, <1>4, <1>5, <1>6 DEF Next, OperatorStep

\* The initial state satisfies FencingInv.
LEMMA FencingInit == Init => FencingInv
<1> SUFFICES ASSUME Init PROVE FencingInv
  OBVIOUS
<1>1. NewRun \in RunRow
  BY DEF NewRun, RunRow, RunState
<1>2. QueueSync(NewRun, NoQueueRow) \in QueueRow
  BY <1>1, QueueSyncType DEF NoQueueRow, QueueRow
<1>3. TypeOK
  BY <1>1, <1>2, IdleType, BoundAssumption DEF Init, TypeOK, NoSlot, SlotRow
<1>4. \A w \in Workers : slice[w].pc = "idle"
  BY DEF Init, Idle
<1>5. EveryRunHasTop /\ CheckpointsFollowFence
  BY DEF Init, EveryRunHasTop, HasTop, CheckpointsFollowFence
<1>6. FencesReached /\ FenceIsUnique /\ CurrentIsAlone /\ ResultExtendsPrev
  BY <1>4, Zenon DEF Init, FencesReached, FenceIsUnique, CurrentIsAlone, Current,
              ResultExtendsPrev
<1> QED BY <1>3, <1>5, <1>6 DEF FencingInv

-----------------------------------------------------------------------------
(* Checkpoints and Run rows.                                                *)

\* Only the final transaction of a slice writes a checkpoint.
LEMMA OnlyCommitSaves ==
  ASSUME [Next]_vars, ckpts' # ckpts
  PROVE  \E w \in Workers, accepted \in BOOLEAN, delay \in 0..MaxDelay :
           Commit(w, accepted, delay)
<1>1. ~ UNCHANGED vars /\ ~ Tick
  BY DEF vars, Tick
<1>2. ~ OperatorStep
  BY DEF OperatorStep, ConfigureLimit, ResolveReview
<1>3. PICK w \in Workers : WorkerStep(w)
  BY <1>1, <1>2 DEF Next
<1>4. \A r \in Runs, d \in 0..Drift : ~ ClaimAndSlot(w, r, d)
  BY DEF ClaimAndSlot
<1>5. \A d \in 0..Drift : ~ HeartbeatRenew(w, d)
  BY DEF HeartbeatRenew
<1>6. ~ (HeartbeatFail(w) \/ HarnessReturn(w) \/ SliceLost(w) \/ Crash(w))
  BY Zenon DEF HeartbeatFail, HarnessReturn, SliceLost, Crash
<1> QED BY <1>3, <1>4, <1>5, <1>6, Zenon DEF WorkerStep, RunOnce, RunNext

\* Every save is the new newest checkpoint of its Run, under the highest fence.
LEMMA SaveStep ==
  ASSUME FencingInv, [Next]_vars
  PROVE  \A r \in Runs : \A c \in ckpts'[r] \ ckpts[r] :
           /\ c = Latest(ckpts'[r])
           /\ \A old \in ckpts[r] : old.version < c.version /\ old.token < c.token
<1>1. CASE ckpts' = ckpts
  BY <1>1
<1>2. CASE ckpts' # ckpts
  <2>1. PICK w \in Workers, accepted \in BOOLEAN, delay \in 0..MaxDelay :
          Commit(w, accepted, delay)
    BY <1>2, OnlyCommitSaves
  <2>2. /\ slice[w].run \in Runs
        /\ Judged(w, accepted).version > Latest(ckpts[slice[w].run]).version
        /\ Judged(w, accepted).token = slice[w].token
        /\ \A old \in ckpts[slice[w].run] : old.token < slice[w].token
    BY <2>1, CommitSaves DEF Commit, Savable
  <2>3. ckpts' = [ckpts EXCEPT ![slice[w].run] = @ \cup {Judged(w, accepted)}]
    BY <2>1 DEF Commit
  <2>4. /\ ckpts \in [Runs -> SUBSET Checkpoint] /\ HasTop(ckpts[slice[w].run])
        /\ Judged(w, accepted) \in Checkpoint
    BY <2>1, <2>2, CommitType DEF FencingInv, TypeOK, EveryRunHasTop
  <2> HIDE DEF Judged
  <2>5. Latest(ckpts[slice[w].run] \cup {Judged(w, accepted)}) = Judged(w, accepted)
    BY <2>2, <2>4, SavedIsLatest
  <2>6. \A old \in ckpts[slice[w].run] :
          old.version \in Nat /\ old.version <= Latest(ckpts[slice[w].run]).version
    BY <2>2, <2>4, LatestIsTop DEF Checkpoint
  <2>7. /\ Judged(w, accepted).version \in Nat
        /\ Latest(ckpts[slice[w].run]).version \in Nat
    BY <2>2, <2>4, LatestIsTop DEF Checkpoint
  <2>8. \A old \in ckpts[slice[w].run] : old.version < Judged(w, accepted).version
    BY <2>2, <2>6, <2>7
  <2> QED BY <2>2, <2>3, <2>4, <2>5, <2>8
<1> QED BY <1>1, <1>2

\* The Run row and its newest checkpoint agree after every step.
LEMMA MatchStep ==
  ASSUME FencingInv, RunMatchesCheckpoint, [Next]_vars
  PROVE  RunMatchesCheckpoint'
<1> DEFINE Match(row, step) ==
             /\ row.state = "COMPLETED" <=> step = "complete"
             /\ row.state = "REVIEW" => step = "review"
             /\ row.state = "RETRY_AT" => step = "retry"
<1>1. TypeOK BY DEF FencingInv
<1>2. \A r \in Runs : Match(runs[r], Latest(ckpts[r]).step)
  BY DEF RunMatchesCheckpoint
<1>3. ASSUME \A r \in Runs : \/ runs'[r].state = runs[r].state
                             \/ /\ runs[r].state # "COMPLETED"
                                /\ runs'[r].state \in {"READY", "RUNNING", "CANCELLED"},
             ckpts' = ckpts
      PROVE  RunMatchesCheckpoint'
  BY <1>2, <1>3 DEF RunMatchesCheckpoint
<1>4. CASE UNCHANGED vars
  BY <1>3, <1>4 DEF vars
<1>5. CASE Tick
  BY <1>1, <1>3, <1>5, Zenon DEF Tick, RunsAfter, RunAfter, TypeOK, RunRow
<1>6. ASSUME NEW s \in Configurable, NEW n \in 1..MaxLimit, ConfigureLimit(s, n)
      PROVE  RunMatchesCheckpoint'
  BY <1>3, <1>6 DEF ConfigureLimit
<1>7. ASSUME NEW r \in Runs, NEW target \in {"READY", "CANCELLED"},
             ResolveReview(r, target)
      PROVE  RunMatchesCheckpoint'
  BY <1>1, <1>3, <1>7 DEF ResolveReview, Moved, TypeOK
<1>8. ASSUME NEW w \in Workers, WorkerStep(w) PROVE RunMatchesCheckpoint'
  <2>1. ASSUME NEW r \in Runs, NEW d \in 0..Drift,
               RunOnce(w, r, d) \/ RunNext(w, r, d)
        PROVE  RunMatchesCheckpoint'
    <3>1. runs[r].state # "COMPLETED" /\ ClaimAndSlot(w, r, d)
      BY <2>1 DEF RunOnce, RunNext, Claimable, Dispatchable, ExpiredLease
    <3>2. runs'[r].state = "RUNNING" /\ ckpts' = ckpts
          /\ \A x \in Runs \ {r} : runs'[x].state = runs[x].state
      BY <1>1, <3>1, Zenon DEF ClaimAndSlot, Claimed, RunsAfter, RunAfter, TypeOK, RunRow
    <3> QED BY <1>3, <3>1, <3>2
  <2>2. ASSUME NEW d \in 0..Drift, HeartbeatRenew(w, d) PROVE RunMatchesCheckpoint'
    <3>1. \A x \in Runs : RunsAfter(d)[x].state = runs[x].state
      BY <1>1, Zenon DEF RunsAfter, RunAfter, TypeOK, RunRow
    <3>2. RunsAfter(d) \in [Runs -> RunRow]
      BY <1>1, TablesAfterType, BoundAssumption
    <3>3. runs' = [RunsAfter(d) EXCEPT ![slice[w].run].lease = Left(Lease, d)]
          /\ ckpts' = ckpts
      BY <2>2 DEF HeartbeatRenew
    <3>4. \A x \in Runs : runs'[x].state = runs[x].state
      BY <3>1, <3>2, <3>3 DEF RunRow
    <3> QED BY <1>3, <3>3, <3>4
  <2>3. CASE HeartbeatFail(w) \/ HarnessReturn(w) \/ SliceLost(w) \/ Crash(w)
    BY <1>3, <2>3, Zenon DEF HeartbeatFail, HarnessReturn, SliceLost, Crash
  <2>4. ASSUME NEW accepted \in BOOLEAN, NEW delay \in 0..MaxDelay,
               Commit(w, accepted, delay)
        PROVE  RunMatchesCheckpoint'
    <3> DEFINE r == slice[w].run
               c == Judged(w, accepted)
    <3>1. r \in Runs /\ c.version > Latest(ckpts[r]).version
      BY <2>4, CommitSaves DEF Commit, Savable
    <3>2. c \in Checkpoint
      BY <1>1, <2>4, <3>1, CommitType
    <3>3. Latest(ckpts[r] \cup {c}) = c
      BY <1>1, <3>1, <3>2, SavedIsLatest DEF FencingInv, EveryRunHasTop, TypeOK
    <3> HIDE DEF c
    <3>4. /\ Latest(ckpts'[r]) = c
          /\ runs'[r].state = TargetState(c.step)
          /\ \A x \in Runs \ {r} : runs'[x] = runs[x] /\ ckpts'[x] = ckpts[x]
      BY <1>1, <2>4, <3>1, <3>3, Zenon DEF Commit, TypeOK, Moved, c
    <3>5. Match(runs'[r], Latest(ckpts'[r]).step)
      BY <3>2, <3>4 DEF TargetState, Checkpoint, Step
    <3> HIDE DEF Match
    <3>6. \A x \in Runs : Match(runs'[x], Latest(ckpts'[x]).step)
      BY <1>2, <3>4, <3>5, Zenon
    <3> QED BY ONLY <3>6, Zenon DEF RunMatchesCheckpoint, Match
  <2> QED BY <1>8, <2>1, <2>2, <2>3, <2>4, ZenonT(40) DEF WorkerStep
<1> QED BY <1>4, <1>5, <1>6, <1>7, <1>8 DEF Next, OperatorStep

-----------------------------------------------------------------------------
(* The dispatch queue.                                                      *)

\* The queue row the trigger keeps for a Run row.
Queued(row, q) ==
  /\ row.state = "READY" => q.state = "READY" /\ q.avail = 0
  /\ row.state = "RETRY_AT" => q.state = "READY" /\ q.avail = row.avail
  /\ row.state = "RUNNING" => q.state = "IN_FLIGHT"

QueueInv == \A r \in Runs : Queued(runs[r], queue[r])

\* The trigger establishes it for whatever row was written.
LEMMA SyncQueues ==
  ASSUME NEW row \in RunRow, NEW q \in QueueRow,
         row.state = "READY" => row.avail = 0
  PROVE  Queued(row, QueueSync(row, q))
BY DEF Queued, QueueSync, RunRow

\* The clock advances both rows alike.
LEMMA QueuedAfter ==
  ASSUME NEW row \in RunRow, NEW q \in QueueRow, NEW d \in Nat, Queued(row, q)
  PROVE  Queued(RunAfter(row, d), QueueAfter(q, d))
BY DEF Queued, RunAfter, QueueAfter, Left, RunRow, QueueRow

\* Every step keeps the queue rows in step with the Run rows.
LEMMA QueueStep ==
  ASSUME FencingInv, QueueInv, [Next]_vars
  PROVE  QueueInv'
<1>1. TypeOK BY DEF FencingInv
<1>2. \A r \in Runs : runs[r] \in RunRow /\ queue[r] \in QueueRow
  BY <1>1 DEF TypeOK
<1>3. CASE UNCHANGED <<runs, queue>>
  BY <1>3 DEF QueueInv
<1>4. ASSUME NEW d \in Nat PROVE
        \A r \in Runs : /\ Queued(RunsAfter(d)[r], QueuesAfter(d)[r])
                        /\ RunsAfter(d)[r] = RunAfter(runs[r], d)
                        /\ QueuesAfter(d)[r] = QueueAfter(queue[r], d)
  BY <1>2, QueuedAfter DEF RunsAfter, QueuesAfter, QueueInv
<1>5. CASE Tick
  BY <1>4, <1>5 DEF Tick, QueueInv
<1>6. ASSUME NEW r \in Runs, NEW target \in {"READY", "CANCELLED"},
             ResolveReview(r, target)
      PROVE  QueueInv'
  <2> DEFINE row == Moved(runs[r], target, 0)
  <2>1. row \in RunRow /\ (row.state = "READY" => row.avail = 0)
    <3>1. target \in RunState /\ 0 \in 0..MaxDelay BY DEF RunState
    <3> QED BY <1>2, <3>1, MovedType DEF Moved
  <2>2. Queued(row, QueueSync(row, queue[r]))
    BY <1>2, <2>1, SyncQueues
  <2> HIDE DEF row
  <2> QED BY <1>1, <1>6, <2>2 DEF ResolveReview, QueueInv, TypeOK, row
<1>7. ASSUME NEW w \in Workers, NEW r \in Runs, NEW d \in Nat,
             ClaimAndSlot(w, r, d)
      PROVE  QueueInv'
  <2> DEFINE row == Claimed(runs[r], OwnerOf[w])
  <2>1. row \in RunRow /\ row.state = "RUNNING"
    BY <1>2, ClaimedType, OwnerAssumption, Zenon DEF Claimed
  <2>2. QueueSync(row, queue[r]) \in QueueRow /\ Queued(row, QueueSync(row, queue[r]))
    BY <1>2, <2>1, SyncQueues, QueueSyncType
  <2> HIDE DEF row
  <2>3. Queued(RunAfter(row, d), QueueAfter(QueueSync(row, queue[r]), d))
    BY <2>1, <2>2, QueuedAfter
  <2>4. runs' = [RunsAfter(d) EXCEPT ![r] = RunAfter(row, d)]
        /\ queue' = [QueuesAfter(d) EXCEPT
                       ![r] = QueueAfter(QueueSync(row, queue[r]), d)]
    BY <1>7 DEF ClaimAndSlot, row
  <2>5. RunsAfter(d) \in [Runs -> RunRow] /\ QueuesAfter(d) \in [Runs -> QueueRow]
    BY <1>1, TablesAfterType
  <2> QED BY <1>4, <2>3, <2>4, <2>5 DEF QueueInv
<1>8. ASSUME NEW w \in Workers, NEW d \in Nat, HeartbeatRenew(w, d)
      PROVE  QueueInv'
  <2>1. RunsAfter(d) \in [Runs -> RunRow]
    BY <1>1, TablesAfterType
  <2>2. runs' = [RunsAfter(d) EXCEPT ![slice[w].run].lease = Left(Lease, d)]
        /\ queue' = QueuesAfter(d)
    BY <1>8 DEF HeartbeatRenew
  <2>3. \A x \in Runs : runs'[x].state = RunsAfter(d)[x].state
                       /\ runs'[x].avail = RunsAfter(d)[x].avail
    BY <2>1, <2>2 DEF RunRow
  <2> QED BY <1>4, <2>2, <2>3 DEF QueueInv, Queued
<1>9. ASSUME NEW w \in Workers, NEW accepted \in BOOLEAN,
             NEW delay \in 0..MaxDelay, Commit(w, accepted, delay)
      PROVE  QueueInv'
  <2> DEFINE r == slice[w].run
             t == TargetState(Judged(w, accepted).step)
             row == Moved(runs[r], t, delay)
  <2>1. r \in Runs
    BY <1>9, CommitSaves DEF Commit, Savable
  <2>2. t \in RunState
    BY DEF TargetState, RunState
  <2> HIDE DEF t
  <2>3. row \in RunRow /\ (row.state = "READY" => row.avail = 0)
    BY <1>2, <2>1, <2>2, MovedType DEF Moved
  <2>4. Queued(row, QueueSync(row, queue[r]))
    BY <1>2, <2>1, <2>3, SyncQueues
  <2>5. runs' = [runs EXCEPT ![r] = row]
        /\ queue' = [queue EXCEPT ![r] = QueueSync(row, queue[r])]
    BY <1>9 DEF Commit, t
  <2> HIDE DEF row, r
  <2> QED BY <1>1, <2>1, <2>4, <2>5 DEF QueueInv, TypeOK
<1> QED
  <2>1. ASSUME NEW w \in Workers, WorkerStep(w) PROVE QueueInv'
    <3>1. CASE HeartbeatFail(w) \/ HarnessReturn(w) \/ SliceLost(w) \/ Crash(w)
      BY <1>3, <3>1, Zenon DEF HeartbeatFail, HarnessReturn, SliceLost, Crash
    <3>2. \A d \in 0..Drift : d \in Nat
      BY ONLY BoundAssumption
    <3> QED BY <1>7, <1>8, <1>9, <2>1, <3>1, <3>2, Zenon DEF WorkerStep, RunOnce, RunNext
  <2>2. UNCHANGED vars \/ (\E s \in Configurable, n \in 1..MaxLimit :
          ConfigureLimit(s, n)) => UNCHANGED <<runs, queue>>
    BY DEF vars, ConfigureLimit
  <2> QED BY <1>3, <1>5, <1>6, <2>1, <2>2 DEF Next, OperatorStep

-----------------------------------------------------------------------------
(* Admission slots.                                                         *)

\* The clock advancing keeps a slot that outlasts a lease outlasting it.
LEMMA LeftMonotone ==
  ASSUME NEW m \in Nat, NEW n \in Nat, NEW d \in Nat, m >= n
  PROVE  /\ Left(m, d) >= Left(n, d)
         /\ Left(n, d) > 0 => n > 0
BY DEF Left

\* After d ticks the holders are among the holders before, and their slots
\* still outlast their leases.
LEMMA HoldersAfter ==
  ASSUME FencingInv, SlotOutlastsLease, NEW d \in Nat,
         NEW w \in Workers, slice[w].pc # "idle", slice[w].slot,
         HoldsLease(RunsAfter(d)[slice[w].run], OwnerOf[w], slice[w].token)
  PROVE  /\ Current(w)
         /\ OwnsSlot(SlotsAfter(d), slice[w].run, OwnerOf[w], slice[w].token)
         /\ SlotsAfter(d)[slice[w].run].lease >= RunsAfter(d)[slice[w].run].lease
         /\ RunsAfter(d)[slice[w].run].lease > 0
<1> DEFINE r == slice[w].run
<1>1. r \in Runs /\ runs[r] \in RunRow /\ slots[r] \in SlotRow
  BY ZenonT(40) DEF FencingInv, FencesReached, TypeOK
<1>2. RunsAfter(d)[r] = RunAfter(runs[r], d) /\ SlotsAfter(d)[r] = SlotAfter(slots[r], d)
  BY <1>1, Zenon DEF RunsAfter, SlotsAfter
<1>3. /\ RunsAfter(d)[r].lease = Left(runs[r].lease, d)
      /\ RunsAfter(d)[r].state = runs[r].state
      /\ RunsAfter(d)[r].owner = runs[r].owner
      /\ RunsAfter(d)[r].token = runs[r].token
      /\ SlotsAfter(d)[r].lease = Left(slots[r].lease, d)
      /\ SlotsAfter(d)[r].owner = slots[r].owner
      /\ SlotsAfter(d)[r].token = slots[r].token
  BY <1>1, <1>2 DEF RunAfter, SlotAfter, RunRow, SlotRow
<1>4. Holds(w)
  <2>1. /\ runs[r].state = "RUNNING" /\ runs[r].owner = OwnerOf[w]
        /\ runs[r].token = slice[w].token /\ Left(runs[r].lease, d) > 0
    BY <1>3 DEF HoldsLease
  <2>2. runs[r].lease \in Nat
    BY <1>1, LeaseAssumption DEF RunRow
  <2>3. d \in Nat /\ slice[w].pc # "idle"
    OBVIOUS
  <2>4. runs[r].lease > 0
    BY ONLY <2>1, <2>2, <2>3 DEF Left
  <2> QED BY ONLY <2>1, <2>3, <2>4 DEF Holds, HoldsLease
<1>5. OwnsSlot(slots, r, OwnerOf[w], slice[w].token) /\ slots[r].lease >= runs[r].lease
  BY <1>4 DEF SlotOutlastsLease
<1>6. Left(slots[r].lease, d) >= Left(runs[r].lease, d)
  <2>1. slots[r].lease \in Nat /\ runs[r].lease \in Nat
    BY <1>1, LeaseAssumption DEF RunRow, SlotRow
  <2>2. d \in Nat
    OBVIOUS
  <2> QED BY ONLY <1>5, <2>1, <2>2, LeftMonotone
<1> QED BY <1>3, <1>4, <1>5, <1>6, ZenonT(40) DEF OwnsSlot, Current, Holds, HoldsLease

\* The claim of a Run keeps every admitted slice covered by its slot.
LEMMA ClaimCovers ==
  ASSUME FencingInv, SlotOutlastsLease, NEW w \in Workers, NEW r \in Runs,
         NEW d \in Nat, ClaimAndSlot(w, r, d)
  PROVE  SlotOutlastsLease'
<1> DEFINE row == Claimed(runs[r], OwnerOf[w])
           free == SlotsAfter(d)
<1>1. TypeOK BY DEF FencingInv
<1>2. /\ row.token = runs[r].token + 1 /\ row \in RunRow /\ runs[r].token \in Nat
      /\ RunAfter(row, d).lease = Left(Lease, d) /\ RunAfter(row, d).token = row.token
  BY <1>1, ClaimedType, OwnerAssumption DEF TypeOK, Claimed, RunAfter, RunRow
<1>3. /\ runs' = [RunsAfter(d) EXCEPT ![r] = RunAfter(row, d)]
      /\ slots' = SlotAcquired(free, limits, r, OwnerOf[w], row.token)
      /\ ~ SlotRefused(free, limits, r, OwnerOf[w], row.token)
      /\ slice'[w].run = r /\ slice'[w].token = row.token
      /\ slice'[w].slot = (LimitedScopes(limits, r) # {})
      /\ \A v \in Workers \ {w} : slice'[v] = slice[v]
  BY <1>1 DEF ClaimAndSlot, TypeOK, Idle
<1>4. RunsAfter(d) \in [Runs -> RunRow] /\ free \in [Runs -> SlotRow]
  BY <1>1, TablesAfterType
<1> HIDE DEF row, free
<1>5. Left(Lease, d) <= Lease
  BY LeftType
<1>6. CASE LimitedScopes(limits, r) # {}
  <2>1. /\ OwnsSlot(slots', r, OwnerOf[w], row.token)
        /\ slots'[r].lease = Lease
    <3>1. CASE free[r].lease > 0
      BY <1>3, <1>4, <1>6, <3>1 DEF SlotAcquired, SlotRefused, OwnsSlot, SlotRow
    <3>2. CASE ~ (free[r].lease > 0)
      <4>1. slots' = [Purged(free) EXCEPT ![r] =
                        [token |-> row.token, owner |-> OwnerOf[w], lease |-> Lease]]
        BY <1>3, <1>6, <3>2 DEF SlotAcquired
      <4>2. slots'[r] = [token |-> row.token, owner |-> OwnerOf[w], lease |-> Lease]
        BY <4>1 DEF Purged
      <4> QED BY <4>2 DEF OwnsSlot
    <3> QED BY <3>1, <3>2, Zenon
  <2>2. \A x \in Runs \ {r} : free[x].lease > 0 => slots'[x] = free[x]
    BY <1>3, <1>4 DEF SlotAcquired, Purged
  <2>3. ASSUME NEW v \in Workers, Holds(v)', slice'[v].slot
        PROVE  /\ OwnsSlot(slots', slice'[v].run, OwnerOf[v], slice'[v].token)
               /\ slots'[slice'[v].run].lease >= runs'[slice'[v].run].lease
    <3>1. CASE v = w
      <4>1. runs'[r].lease = Left(Lease, d)
        BY <1>2, <1>3, <1>4, Zenon
      <4> QED BY <1>3, <1>5, <2>1, <3>1, <4>1, Zenon
    <3>2. CASE v # w
      <4>1. slice'[v] = slice[v] /\ slice[v].pc # "idle" /\ slice[v].slot
            /\ slice[v].run \in Runs /\ slice[v].token <= runs[slice[v].run].token
            /\ slice[v].token \in Nat
        BY <1>1, <1>3, <2>3, <3>2, ZenonT(40) DEF Holds, FencingInv, FencesReached, TypeOK, Slice
      <4>2. slice[v].run # r
        <5>1. HoldsLease(runs'[slice[v].run], OwnerOf[v], slice[v].token)
          BY <2>3, <4>1, Zenon DEF Holds
        <5>2. runs'[r].token = runs[r].token + 1
          BY <1>2, <1>3, <1>4, Zenon
        <5> QED BY <1>2, <4>1, <5>1, <5>2 DEF HoldsLease
      <4>3. runs'[slice[v].run] = RunsAfter(d)[slice[v].run]
        BY <1>3, <1>4, <4>1, <4>2, Zenon
      <4>4. HoldsLease(RunsAfter(d)[slice[v].run], OwnerOf[v], slice[v].token)
        BY <2>3, <4>1, <4>3, Zenon DEF Holds
      <4>5. /\ OwnsSlot(free, slice[v].run, OwnerOf[v], slice[v].token)
            /\ free[slice[v].run].lease >= RunsAfter(d)[slice[v].run].lease
            /\ RunsAfter(d)[slice[v].run].lease > 0
        BY <4>1, <4>4, HoldersAfter, ZenonT(40) DEF free
      <4>6. free[slice[v].run].lease > 0
        <5>1. free[slice[v].run].lease \in Int /\ RunsAfter(d)[slice[v].run].lease \in Int
          BY <1>4, <4>1 DEF RunRow, SlotRow
        <5> QED BY <4>5, <5>1
      <4> QED BY <2>2, <4>1, <4>2, <4>3, <4>5, <4>6, Zenon DEF OwnsSlot
    <3> QED BY <3>1, <3>2
  <2> QED BY <2>3, ZenonT(40) DEF SlotOutlastsLease
<1>7. CASE LimitedScopes(limits, r) = {}
  <2>1. slots' = free
    BY <1>3, <1>7 DEF SlotAcquired
  <2>2. ASSUME NEW v \in Workers, Holds(v)', slice'[v].slot
        PROVE  /\ OwnsSlot(slots', slice'[v].run, OwnerOf[v], slice'[v].token)
               /\ slots'[slice'[v].run].lease >= runs'[slice'[v].run].lease
    <3>1. v # w
      BY <1>3, <1>7, <2>2, Zenon
    <3>2. slice'[v] = slice[v] /\ slice[v].pc # "idle" /\ slice[v].slot
          /\ slice[v].run \in Runs /\ slice[v].token <= runs[slice[v].run].token
          /\ slice[v].token \in Nat
      BY <1>1, <1>3, <2>2, <3>1, ZenonT(40) DEF Holds, FencingInv, FencesReached, TypeOK, Slice
    <3>3. HoldsLease(runs'[slice[v].run], OwnerOf[v], slice[v].token)
      BY <2>2, <3>2, Zenon DEF Holds
    <3>4. slice[v].run # r
      <4>1. runs'[r].token = runs[r].token + 1
        BY <1>2, <1>3, <1>4, Zenon
      <4> QED BY <1>2, <3>2, <3>3, <4>1 DEF HoldsLease
    <3>5. runs'[slice[v].run] = RunsAfter(d)[slice[v].run]
      BY <1>3, <1>4, <3>2, <3>4, Zenon
    <3> QED BY <2>1, <3>2, <3>3, <3>5, HoldersAfter, Zenon DEF free
  <2> QED BY <2>2, Zenon DEF SlotOutlastsLease
<1> QED BY <1>6, <1>7

\* Every step keeps every admitted slice covered by its slot.
LEMMA SlotStep ==
  ASSUME FencingInv, SlotOutlastsLease, [Next]_vars
  PROVE  SlotOutlastsLease'
<1>1. TypeOK BY DEF FencingInv
<1>2. ASSUME runs' = runs, slots' = slots,
             \A v \in Workers : \/ slice'[v].pc = "idle"
                               \/ /\ slice[v].pc # "idle"
                                  /\ slice'[v].run = slice[v].run
                                  /\ slice'[v].token = slice[v].token
                                  /\ slice'[v].slot = slice[v].slot
      PROVE  SlotOutlastsLease'
  BY <1>2, Zenon DEF SlotOutlastsLease, Holds
<1>3. CASE UNCHANGED vars
  BY <1>2, <1>3 DEF vars
<1>4. CASE Tick
  BY <1>4, HoldersAfter, ZenonT(40) DEF Tick, SlotOutlastsLease, Holds
<1>5. ASSUME NEW s \in Configurable, NEW n \in 1..MaxLimit, ConfigureLimit(s, n)
      PROVE  SlotOutlastsLease'
  BY <1>2, <1>5 DEF ConfigureLimit
<1>6. ASSUME NEW r \in Runs, NEW target \in {"READY", "CANCELLED"},
             ResolveReview(r, target)
      PROVE  SlotOutlastsLease'
  <2>1. /\ slots' = slots /\ slice' = slice
        /\ runs'[r].state # "RUNNING"
        /\ \A x \in Runs \ {r} : runs'[x] = runs[x]
    BY <1>1, <1>6 DEF ResolveReview, Moved, TypeOK
  <2>2. ASSUME NEW v \in Workers, Holds(v)'
        PROVE  Holds(v) /\ slice[v].run \in Runs \ {r}
    BY <2>1, <2>2, Zenon DEF Holds, HoldsLease, FencingInv, FencesReached
  <2> QED BY <2>1, <2>2 DEF SlotOutlastsLease
<1>7. ASSUME NEW w \in Workers, NEW d \in Nat, HeartbeatRenew(w, d)
      PROVE  SlotOutlastsLease'
  <2> DEFINE r == slice[w].run
  <2>1. r \in Runs /\ slice' = slice /\ Current(w)
    BY <1>7 DEF HeartbeatRenew, FencingInv, FencesReached, Holds, HoldsLease, Current
  <2>2. RunsAfter(d) \in [Runs -> RunRow] /\ SlotsAfter(d) \in [Runs -> SlotRow]
    BY <1>1, TablesAfterType
  <2>3. runs' = [RunsAfter(d) EXCEPT ![r].lease = Left(Lease, d)]
        /\ slots' = IF slice[w].slot THEN [SlotsAfter(d) EXCEPT ![r].lease = Lease]
                                     ELSE SlotsAfter(d)
    BY <1>7 DEF HeartbeatRenew
  <2>4. \A x \in Runs \ {r} : runs'[x] = RunsAfter(d)[x] /\ slots'[x] = SlotsAfter(d)[x]
    BY <2>2, <2>3
  <2>5. ASSUME NEW v \in Workers, Holds(v)', slice[v].slot
        PROVE  /\ OwnsSlot(slots', slice[v].run, OwnerOf[v], slice[v].token)
               /\ slots'[slice[v].run].lease >= runs'[slice[v].run].lease
    <3>1. CASE v = w
      <4>1. OwnsSlot(SlotsAfter(d), r, OwnerOf[w], slice[w].token)
        BY <1>7, <2>5, <3>1 DEF HeartbeatRenew, SlotRenewable
      <4>2. /\ slots'[r].lease = Lease
            /\ slots'[r].owner = SlotsAfter(d)[r].owner
            /\ slots'[r].token = SlotsAfter(d)[r].token
            /\ runs'[r].lease = Left(Lease, d)
        BY <2>1, <2>2, <2>3, <2>5, <3>1 DEF RunRow, SlotRow
      <4>3. slots'[r].lease >= runs'[r].lease
        <5>1. Left(Lease, d) <= Lease
          BY LeaseAssumption DEF Left
        <5> QED BY ONLY <4>2, <5>1
      <4>4. OwnsSlot(slots', r, OwnerOf[w], slice[w].token)
        BY <4>1, <4>2, Zenon DEF OwnsSlot
      <4> QED BY <3>1, <4>3, <4>4, Zenon
    <3>2. CASE v # w
      <4>1. slice[v].pc # "idle" /\ slice[v].run \in Runs
        BY <2>1, <2>5, Zenon DEF Holds, FencingInv, FencesReached
      <4>2. runs'[r].token = runs[r].token
        <5>1. RunsAfter(d)[r].token = runs[r].token
          BY <1>1, <2>1, ZenonT(40) DEF RunsAfter, RunAfter, TypeOK, RunRow
        <5> QED BY <2>1, <2>2, <2>3, <5>1 DEF RunRow
      <4>3. slice[v].run # r
        BY <2>1, <2>5, <3>2, <4>1, <4>2
           DEF Holds, HoldsLease, Current, FencingInv, FenceIsUnique
      <4>4. HoldsLease(RunsAfter(d)[slice[v].run], OwnerOf[v], slice[v].token)
        BY <2>1, <2>4, <2>5, <4>1, <4>3 DEF Holds
      <4>5. slots'[slice[v].run] = SlotsAfter(d)[slice[v].run]
            /\ runs'[slice[v].run] = RunsAfter(d)[slice[v].run]
        BY <2>4, <4>1, <4>3, Zenon
      <4>6. /\ OwnsSlot(SlotsAfter(d), slice[v].run, OwnerOf[v], slice[v].token)
            /\ SlotsAfter(d)[slice[v].run].lease >= RunsAfter(d)[slice[v].run].lease
        BY <2>5, <4>1, <4>4, HoldersAfter, ZenonT(40)
      <4> QED BY <4>5, <4>6 DEF OwnsSlot
    <3> QED BY <3>1, <3>2
  <2> QED BY <2>1, <2>5, Zenon DEF SlotOutlastsLease
<1>8. ASSUME NEW w \in Workers, NEW accepted \in BOOLEAN,
             NEW delay \in 0..MaxDelay, Commit(w, accepted, delay)
      PROVE  SlotOutlastsLease'
  <2> DEFINE r == slice[w].run
  <2>1. r \in Runs
    BY <1>8, CommitSaves DEF Commit, Savable
  <2>2. /\ runs'[r].state # "RUNNING"
        /\ \A x \in Runs \ {r} : runs'[x] = runs[x] /\ slots'[x] = slots[x]
        /\ slice'[w].pc = "idle"
        /\ \A v \in Workers \ {w} : slice'[v] = slice[v]
    BY <1>1, <1>8, <2>1 DEF Commit, Moved, TargetState, TypeOK, SlotReleased, Idle
  <2> HIDE DEF r
  <2>3. ASSUME NEW v \in Workers, Holds(v)'
        PROVE  Holds(v) /\ slice'[v] = slice[v] /\ slice[v].run \in Runs \ {r}
    <3>1. v # w /\ slice'[v] = slice[v]
      BY <2>2, <2>3 DEF Holds
    <3>2. /\ slice[v].pc # "idle"
          /\ HoldsLease(runs'[slice[v].run], OwnerOf[v], slice[v].token)
      BY ONLY <2>3, <3>1 DEF Holds
    <3>3. slice[v].run \in Runs \ {r}
      BY <2>2, <3>2, Zenon DEF HoldsLease, FencingInv, FencesReached
    <3>4. runs'[slice[v].run] = runs[slice[v].run]
      BY <2>2, <3>3
    <3> QED BY <3>1, <3>2, <3>3, <3>4, Zenon DEF Holds
  <2>4. ASSUME NEW v \in Workers, Holds(v)', slice'[v].slot
        PROVE  /\ OwnsSlot(slots', slice'[v].run, OwnerOf[v], slice'[v].token)
               /\ slots'[slice'[v].run].lease >= runs'[slice'[v].run].lease
    <3>1. Holds(v) /\ slice'[v] = slice[v] /\ slice[v].run \in Runs \ {r}
      BY <2>3, <2>4
    <3>2. slots'[slice[v].run] = slots[slice[v].run] /\ runs'[slice[v].run] = runs[slice[v].run]
      BY <2>2, <3>1
    <3>3. /\ OwnsSlot(slots, slice[v].run, OwnerOf[v], slice[v].token)
          /\ slots[slice[v].run].lease >= runs[slice[v].run].lease
      BY <2>4, <3>1 DEF SlotOutlastsLease
    <3> QED BY <3>1, <3>2, <3>3 DEF OwnsSlot
  <2> QED BY <2>4 DEF SlotOutlastsLease
<1>9. ASSUME NEW w \in Workers, WorkerStep(w) PROVE SlotOutlastsLease'
  <2>1. CASE HeartbeatFail(w) \/ HarnessReturn(w) \/ SliceLost(w) \/ Crash(w)
    <3>1. runs' = runs /\ slots' = slots
      BY <2>1, Zenon DEF HeartbeatFail, HarnessReturn, SliceLost, Crash
    <3>2. \A v \in Workers \ {w} : slice'[v] = slice[v]
      BY <1>1, <2>1, Zenon DEF HeartbeatFail, HarnessReturn, HarnessAdvance, HarnessScript,
                        HarnessPropose,
                        SliceLost, Crash, TypeOK
    <3>3. \/ slice'[w] = Idle
          \/ /\ slice[w].pc # "idle"
             /\ \/ slice' = [slice EXCEPT ![w].beat = "failed"]
                \/ \E c, p : slice' = [slice EXCEPT ![w] = Returned(w, c, p)]
      BY <1>1, <2>1, Zenon DEF HeartbeatFail, HarnessReturn, HarnessAdvance, HarnessScript,
                        HarnessPropose,
                        SliceLost, Crash, TypeOK
    <3>4. \/ slice'[w].pc = "idle"
          \/ /\ slice[w].pc # "idle"
             /\ slice'[w].run = slice[w].run
             /\ slice'[w].token = slice[w].token
             /\ slice'[w].slot = slice[w].slot
      <4>1. CASE slice'[w] = Idle BY <4>1 DEF Idle
      <4>2. CASE slice[w].pc # "idle" /\ slice' = [slice EXCEPT ![w].beat = "failed"]
        BY <1>1, <4>2 DEF TypeOK, Slice
      <4>3. CASE slice[w].pc # "idle" /\
                 \E c, p : slice' = [slice EXCEPT ![w] = Returned(w, c, p)]
        BY <1>1, <4>3 DEF TypeOK, Slice, Returned
      <4> QED BY <3>3, <4>1, <4>2, <4>3
    <3> QED BY <1>2, <3>1, <3>2, <3>4
  <2>2. ASSUME NEW r \in Runs, NEW d \in 0..Drift, RunOnce(w, r, d) \/ RunNext(w, r, d)
        PROVE  SlotOutlastsLease'
    BY <2>2, ClaimCovers, BoundAssumption DEF RunOnce, RunNext
  <2> QED BY <1>7, <1>8, <1>9, <2>1, <2>2 DEF WorkerStep
<1> QED BY <1>3, <1>4, <1>5, <1>6, <1>9 DEF Next, OperatorStep

-----------------------------------------------------------------------------
(* Admission.                                                               *)

\* No reservation that was expired, or was not there, is active afterwards.
NothingAdmitted == \A s \in Scopes : Active(slots', s) \subseteq Active(slots, s)

\* Time alone activates nothing.
LEMMA ActiveAfter ==
  ASSUME TypeOK, NEW d \in Nat, NEW s \in Scopes
  PROVE  Active(SlotsAfter(d), s) \subseteq Active(slots, s)
<1>1. \A x \in Runs : SlotsAfter(d)[x].lease = Left(slots[x].lease, d)
  BY DEF SlotsAfter, SlotAfter, TypeOK, SlotRow
<1>2. \A x \in Runs : slots[x].lease \in Nat
  BY LeaseAssumption DEF TypeOK, SlotRow
<1>3. \A x \in Runs : SlotsAfter(d)[x].lease > 0 => slots[x].lease > 0
  BY <1>1, <1>2, LeftMonotone
<1> QED BY <1>3 DEF Active

\* Only a claim admits.
LEMMA OnlyClaimAdmits ==
  ASSUME FencingInv, [Next]_vars
  PROVE  NothingAdmitted \/ \E w \in Workers, r \in Runs, d \in 0..Drift :
                                ClaimAndSlot(w, r, d)
<1>1. TypeOK BY DEF FencingInv
<1>2. ASSUME slots' = slots PROVE NothingAdmitted
  BY <1>2 DEF NothingAdmitted
<1>3. CASE Tick
  BY <1>1, <1>3, ActiveAfter DEF Tick, NothingAdmitted
<1>4. ASSUME NEW w \in Workers, NEW d \in 0..Drift, HeartbeatRenew(w, d)
      PROVE  NothingAdmitted
  <2> DEFINE r == slice[w].run
  <2>1. d \in Nat BY BoundAssumption
  <2>2. r \in Runs
    BY <1>4 DEF HeartbeatRenew, FencingInv, FencesReached, Holds
  <2>3. SlotsAfter(d) \in [Runs -> SlotRow]
    BY <1>1, <2>1, TablesAfterType
  <2>4. \/ slots' = SlotsAfter(d)
        \/ /\ slots' = [SlotsAfter(d) EXCEPT ![r].lease = Lease]
           /\ SlotsAfter(d)[r].lease > 0
    BY <1>4 DEF HeartbeatRenew, SlotRenewable
  <2>5. \A x \in Runs : slots'[x].lease > 0 => SlotsAfter(d)[x].lease > 0
    BY <2>2, <2>3, <2>4
  <2>6. \A s \in Scopes : Active(slots', s) \subseteq Active(SlotsAfter(d), s)
    BY <2>5 DEF Active
  <2> QED BY <1>1, <2>1, <2>6, ActiveAfter DEF NothingAdmitted
<1>5. ASSUME NEW w \in Workers, NEW accepted \in BOOLEAN,
             NEW delay \in 0..MaxDelay, Commit(w, accepted, delay)
      PROVE  NothingAdmitted
  <2>1. \A x \in Runs : slots'[x].lease > 0 => slots[x].lease > 0
    <3> DEFINE r == slice[w].run
    <3>1. slots' = slots \/ slots' = [slots EXCEPT ![r] = NoSlot]
      BY <1>5, Zenon DEF Commit, SlotReleased
    <3>2. slots \in [Runs -> SlotRow] /\ NoSlot.lease = 0
      BY <1>1 DEF TypeOK, NoSlot
    <3> HIDE DEF r
    <3> QED BY <3>1, <3>2
  <2> QED BY <2>1 DEF NothingAdmitted, Active
<1>6. ASSUME NEW w \in Workers,
             HeartbeatFail(w) \/ HarnessReturn(w) \/ SliceLost(w) \/ Crash(w)
      PROVE  slots' = slots
  BY <1>6, Zenon DEF HeartbeatFail, HarnessReturn, SliceLost, Crash
<1>7. CASE OperatorStep
  BY <1>2, <1>7, Zenon DEF OperatorStep, ConfigureLimit, ResolveReview
<1>8. CASE UNCHANGED vars
  BY <1>2, <1>8 DEF vars
<1>9. ASSUME NEW w \in Workers, WorkerStep(w)
      PROVE  NothingAdmitted \/ \E r \in Runs, d \in 0..Drift : ClaimAndSlot(w, r, d)
  BY <1>2, <1>4, <1>5, <1>6, <1>9, Zenon DEF WorkerStep, RunOnce, RunNext
<1> QED BY <1>3, <1>7, <1>8, <1>9 DEF Next

INSTANCE FiniteSetTheorems

\* The workers, and so the stalled ones, are finitely many.
LEMMA Counted == StallsCounted
BY WorkersFinite, FS_Subset, FS_CardinalityType DEF StallsCounted

\* A claim that acquire_slot() lets through leaves every limited scope in
\* which it added a reservation within its limit.
LEMMA ClaimAdmits ==
  ASSUME TypeOK, NEW w \in Workers, NEW r \in Runs, NEW d \in Nat,
         ClaimAndSlot(w, r, d), NEW s \in Scopes, limits[s] > 0,
         Active(slots', s) \ Active(slots, s) # {}
  PROVE  Cardinality(Active(slots', s)) <= limits[s]
<1> DEFINE free == SlotsAfter(d)
           token == Claimed(runs[r], OwnerOf[w]).token
<1>1. free \in [Runs -> SlotRow]
  BY TablesAfterType
<1>2. /\ ~ SlotRefused(free, limits, r, OwnerOf[w], token)
      /\ slots' = SlotAcquired(free, limits, r, OwnerOf[w], token)
  BY DEF ClaimAndSlot
<1>3. Active(free, s) \subseteq Active(slots, s)
  BY ActiveAfter
<1> HIDE DEF free, token
<1>4. LimitedScopes(limits, r) # {}
  BY <1>2, <1>3 DEF SlotAcquired
<1>5. ~ free[r].lease > 0
  <2> SUFFICES ASSUME free[r].lease > 0 PROVE FALSE OBVIOUS
  <2>1. slots' = [free EXCEPT ![r].lease = Lease]
    BY <1>2, <1>4 DEF SlotAcquired
  <2>2. \A x \in Runs \ {r} : slots'[x] = free[x]
    BY <1>1, <2>1
  <2>3. Active(slots', s) \subseteq Active(free, s)
    BY <2>2 DEF Active
  <2> QED BY <1>3, <2>3
<1>6. \A x \in Runs \ {r} : slots'[x].lease > 0 => free[x].lease > 0
  <2>1. slots' = [Purged(free) EXCEPT
                   ![r] = [token |-> token, owner |-> OwnerOf[w], lease |-> Lease]]
    BY <1>2, <1>4, <1>5 DEF SlotAcquired
  <2>2. \A x \in Runs \ {r} : slots'[x] = Purged(free)[x]
    BY <2>1 DEF Purged
  <2> QED BY <2>2 DEF Purged, NoSlot
<1>7. /\ Active(slots', s) \subseteq Active(free, s) \cup {r}
      /\ r \notin Active(free, s)
  BY <1>5, <1>6, Zenon DEF Active
<1>8. InScope(r, s)
  BY <1>3, <1>7 DEF Active
<1>9. ~ Cardinality(Active(free, s)) >= limits[s]
  BY <1>2, <1>4, <1>5, <1>8, Zenon DEF SlotRefused, Saturated, LimitedScopes
<1>10. IsFiniteSet(Active(free, s))
  BY RunsFinite, FS_Subset DEF Active
<1>11. /\ Cardinality(Active(free, s) \cup {r}) = Cardinality(Active(free, s)) + 1
       /\ IsFiniteSet(Active(free, s) \cup {r})
  BY <1>7, <1>10, FS_AddElement
<1>12. /\ Cardinality(Active(slots', s)) <= Cardinality(Active(free, s) \cup {r})
       /\ Cardinality(Active(slots', s)) \in Nat
  BY <1>7, <1>11, FS_Subset, FS_CardinalityType
<1>13. Cardinality(Active(free, s)) \in Nat /\ limits[s] \in Nat
  BY <1>10, FS_CardinalityType DEF TypeOK
<1> QED BY <1>9, <1>11, <1>12, <1>13

-----------------------------------------------------------------------------
(* The theorems.                                                            *)

\* FencingInv holds in every reachable state, for any number of Runs and
\* workers and any bounds: leases, fences and checkpoints stay consistent.
THEOREM FencingInvariant == Spec => []FencingInv
<1>1. FencingInv /\ [Next]_vars => FencingInv'
  BY FencingStep, Counted
<1> QED BY FencingInit, <1>1, PTL DEF Spec

\* Every column and every slice stays within its type.
THEOREM TypeCorrect == Spec => []TypeOK
<1>1. FencingInv => TypeOK
  BY DEF FencingInv
<1> QED BY FencingInvariant, <1>1, PTL

\* Two workers never execute a Run under one fencing token.
THEOREM FencesUnique == Spec => []FenceIsUnique
<1>1. FencingInv => FenceIsUnique
  BY DEF FencingInv
<1> QED BY FencingInvariant, <1>1, PTL

\* The holder of the execution right works on the newest checkpoint.
THEOREM HolderCurrent == Spec => []HolderIsCurrent
<1>1. FencingInv => HolderIsCurrent
  BY Zenon DEF FencingInv, HolderIsCurrent, CurrentIsAlone, Current, Holds, HoldsLease
<1> QED BY FencingInvariant, <1>1, PTL

\* Checkpoint versions are ordered as the fences they were saved under.
THEOREM CheckpointsFenced == Spec => []CheckpointsFollowFence
<1>1. FencingInv => CheckpointsFollowFence
  BY DEF FencingInv
<1> QED BY FencingInvariant, <1>1, PTL

\* Every save is the new newest checkpoint of its Run: no stale slice is
\* slipped in below it, however many versions a slice advances.
THEOREM SavesExtend == Spec => SaveExtendsLatest
<1> DEFINE A == \A r \in Runs : \A c \in ckpts'[r] \ ckpts[r] :
                  /\ c = Latest(ckpts'[r])
                  /\ \A old \in ckpts[r] :
                       old.version < c.version /\ old.token < c.token
<1>1. FencingInv /\ [Next]_vars => [A]_vars
  BY SaveStep, Zenon
<1> QED BY FencingInvariant, <1>1, PTL DEF Spec, SaveExtendsLatest

\* A Run row always matches the newest checkpoint of its Run.
THEOREM RunsMatch == Spec => []RunMatchesCheckpoint
<1>1. Init => RunMatchesCheckpoint
  BY DEF Init, RunMatchesCheckpoint, Latest, InitialCheckpoint, NewRun
<1>2. FencingInv /\ RunMatchesCheckpoint /\ [Next]_vars => RunMatchesCheckpoint'
  BY MatchStep
<1> QED BY FencingInvariant, <1>1, <1>2, PTL DEF Spec

\* No runnable Run is missing from the dispatch queue.
THEOREM RunnableQueued == Spec => []RunnableIsQueued
<1>1. Init => QueueInv
  BY DEF Init, QueueInv, Queued, QueueSync, NewRun, NoQueueRow
<1>2. FencingInv /\ QueueInv /\ [Next]_vars => QueueInv'
  BY QueueStep
<1>3. QueueInv => RunnableIsQueued
  BY DEF QueueInv, Queued, RunnableIsQueued, Claimable, ExpiredLease, Dispatchable
<1> QED BY FencingInvariant, <1>1, <1>2, <1>3, PTL DEF Spec

\* No admitted slice executes on a lease its slot does not cover.
THEOREM SlotsOutlast == Spec => []SlotOutlastsLease
<1>1. Init => SlotOutlastsLease
  BY DEF Init, Idle, SlotOutlastsLease, Holds
<1>2. FencingInv /\ SlotOutlastsLease /\ [Next]_vars => SlotOutlastsLease'
  BY SlotStep
<1> QED BY FencingInvariant, <1>1, <1>2, PTL DEF Spec

\* acquire_slot() never lets a scope exceed the limit it read.
THEOREM Admission == Spec => NoOverAdmission
<1>1. ASSUME FencingInv, [Next]_vars, NEW s \in Scopes, limits[s] > 0,
             Active(slots', s) \ Active(slots, s) # {}
      PROVE  Cardinality(Active(slots', s)) <= limits[s]
  <2>1. PICK w \in Workers, r \in Runs, d \in 0..Drift : ClaimAndSlot(w, r, d)
    BY <1>1, OnlyClaimAdmits DEF NothingAdmitted
  <2>2. d \in Nat BY BoundAssumption
  <2> QED BY <1>1, <2>1, <2>2, ClaimAdmits DEF FencingInv
<1>2. FencingInv /\ [Next]_vars =>
        [\A s \in Scopes :
           (limits[s] > 0 /\ Active(slots', s) \ Active(slots, s) # {})
             => Cardinality(Active(slots', s)) <= limits[s]]_vars
  BY <1>1
<1> QED BY FencingInvariant, <1>2, PTL DEF Spec, NoOverAdmission
=============================================================================
