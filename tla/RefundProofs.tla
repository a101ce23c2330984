---------------------------- MODULE RefundProofs ----------------------------
(***************************************************************************)
(* Proofs about Sandbox, for any workers, steps, capacity and lease: the   *)
(* sandboxes fit their capacity and what is recorded comes from one; and   *)
(* about Refund, for any number of dispatchers, daemons and deciders and   *)
(* any clock skew: a refund was approved and is recorded, a decision       *)
(* settles its wait, and a confirmation completes its Run.                 *)
(***************************************************************************)
EXTENDS Sandbox, Refund, TLAPS

-----------------------------------------------------------------------------
(* The sandboxes.                                                           *)

\* The key a worker in state e uses.
KeyIn(w, e) == <<w, e.step, e.n>>

\* What an executor in state e relies on: the answer it holds is in its own
\* sandbox, then in the store, and it records it after the sandbox is gone.
ExecOK(w, e) ==
  /\ e.pc = "publish" => e.content \in Contents
  /\ e.pc = "store" \/ (e.pc \in {"release", "confirm", "record"} /\ ~ e.failed) =>
       e.content \in Contents /\ artifacts[KeyIn(w, e)] = e.content
  /\ e.pc \in {"release", "confirm", "record"} /\ ~ e.failed =>
       e.content \in store[e.step]
  /\ e.pc = "record" => ~ e.failed /\ alloc[KeyIn(w, e)].state = "DESTROYED"

\* A key nobody will give back belonged to a crashed worker.
Used(k) == k \in orphans \/ \E w \in Executors : KeyOf(w) = k /\ execs[w].pc # "idle"
LiveAreUsed == \A k \in Live : alloc[k].until > sbNow => Used(k)

LiveFit == IsFiniteSet(Live) /\ Cardinality(Live) <= Capacity

\* The inductive invariant of SbSpec.
SbInv ==
  /\ SbTypeOK /\ sbNow \in 0..MaxSbTime /\ \A d \in done : d.step \in Steps
  /\ LiveFit /\ LiveAreUsed
  /\ RecordedIsAttributable /\ \A w \in Executors : ExecOK(w, execs[w])

\* The constants, one fact each.
LEMMA SbConstants ==
  /\ Capacity \in Nat /\ Capacity > 0 /\ SandboxLease \in Nat /\ SandboxLease > 0
  /\ MaxKeys \in Nat /\ MaxKeys > 0 /\ MaxSbTime \in Nat /\ NoContent \notin Contents
BY SandboxAssumption

\* A worker between executions.
LEMMA IdleExecOK == IdleExec \in Exec /\ IdleExec.pc = "idle"
<1>1. (CHOOSE s \in Steps : TRUE) \in Steps
  BY SandboxAssumption
<1> QED
  BY <1>1, SbConstants DEF IdleExec, Exec

\* Sandbox keys carry their worker: no two workers share one.
LEMMA KeysOfWorkers ==
  ASSUME NEW w \in Executors, NEW e \in Exec
  PROVE  /\ KeyIn(w, e) \in Keys
         /\ \A v \in Executors, f \in Exec : v # w => KeyIn(v, f) # KeyIn(w, e)
BY DEF KeyIn, Keys, Exec

\* A worker's step touches its own allocation only, destroys for good and
\* empties nothing.
OwnStep(w, q) ==
  /\ execs' = [execs EXCEPT ![w] = q]
  /\ alloc' \in [Keys -> Allocation] /\ artifacts' \in [Keys -> Contents \cup {NoContent}]
  /\ store' \in [Steps -> SUBSET Contents]
  /\ \A k \in Keys : k # KeyOf(w) => alloc'[k] = alloc[k] /\ artifacts'[k] = artifacts[k]
  /\ \A k \in Keys : alloc'[k].state = "NONE" => artifacts'[k] = NoContent /\ alloc'[k].until = 0
  /\ alloc[KeyOf(w)].state = "DESTROYED" =>
       /\ alloc'[KeyOf(w)].state = "DESTROYED"
       /\ artifacts'[KeyOf(w)] = artifacts[KeyOf(w)]
  /\ \A s \in Steps : store[s] \subseteq store'[s]
  /\ orphans \subseteq orphans' /\ sbNow' = sbNow

\* A worker lets go of its key only when the allocation is gone or over, or
\* when it crashes.
LetsGo(w, q) ==
  \/ execs[w].pc = "idle" /\ alloc' = alloc
  \/ q.pc # "idle" /\ KeyIn(w, q) = KeyOf(w)
  \/ alloc'[KeyOf(w)].state \in {"NONE", "DESTROYED"}
  \/ alloc'[KeyOf(w)].until <= sbNow
  \/ KeyOf(w) \in orphans'

\* A step on one's own sandbox keeps the types.
LEMMA OwnTypes ==
  ASSUME SbInv, NEW w \in Executors, NEW q \in Exec, OwnStep(w, q)
  PROVE  SbTypeOK' /\ sbNow' \in 0..MaxSbTime
BY DEF SbInv, SbTypeOK, OwnStep

\* A step that gives up no live sandbox keeps every live one in use.
LEMMA OwnUses ==
  ASSUME SbInv, NEW w \in Executors, NEW q \in Exec, OwnStep(w, q), LetsGo(w, q)
  PROVE  LiveAreUsed'
<1> SUFFICES ASSUME NEW k \in Keys, alloc'[k].state \notin {"NONE", "DESTROYED"},
                    alloc'[k].until > sbNow
             PROVE  Used(k)'
  BY DEF LiveAreUsed, Live, OwnStep
<1>0. execs \in [Executors -> Exec]
  BY DEF SbInv, SbTypeOK
<1>1. execs'[w] = q /\ \A v \in Executors \ {w} : execs'[v] = execs[v]
  BY <1>0 DEF OwnStep
<1>2. alloc' \in [Keys -> Allocation] /\ sbNow \in Nat
  BY DEF SbInv, OwnStep
<1>3. ASSUME alloc'[k] = alloc[k], k # KeyOf(w) \/ execs[w].pc = "idle"
      PROVE  Used(k)'
  <2>1. Used(k)
    BY <1>3 DEF SbInv, LiveAreUsed, Live
  <2>2. CASE k \in orphans
    BY <2>2 DEF Used, OwnStep
  <2>3. ASSUME NEW v \in Executors, KeyOf(v) = k, execs[v].pc # "idle"
        PROVE  Used(k)'
    BY <1>1, <1>3, <2>3 DEF Used, KeyOf
  <2> QED
    BY <2>1, <2>2, <2>3 DEF Used
<1>4. CASE k # KeyOf(w)
  BY <1>3, <1>4 DEF OwnStep
<1>5. CASE k = KeyOf(w)
  <2>1. ~ (alloc'[k].until <= sbNow)
    BY <1>2 DEF Allocation
  <2>2. CASE q.pc # "idle" /\ KeyIn(w, q) = KeyOf(w)
    BY <1>1, <1>5, <2>2 DEF Used, KeyOf, KeyIn
  <2>3. CASE k \in orphans'
    BY <2>3 DEF Used
  <2> QED
    BY <1>3, <1>5, <2>1, <2>2, <2>3 DEF LetsGo
<1> QED
  BY <1>4, <1>5

\* A step on one's own sandbox does not disturb the other workers.
LEMMA OwnExecs ==
  ASSUME SbInv, NEW w \in Executors, NEW q \in Exec, OwnStep(w, q), ExecOK(w, q)'
  PROVE  \A v \in Executors : ExecOK(v, execs[v])'
<1>0. execs \in [Executors -> Exec]
  BY DEF SbInv, SbTypeOK
<1>1. execs'[w] = q /\ \A v \in Executors \ {w} : execs'[v] = execs[v]
  BY <1>0 DEF OwnStep
<1> SUFFICES ASSUME NEW v \in Executors \ {w} PROVE ExecOK(v, execs[v])'
  BY <1>1
<1> DEFINE e == execs[v]  k == KeyIn(v, e)
<1>2. e \in Exec /\ execs'[v] = e /\ ExecOK(v, e)
  BY <1>0, <1>1 DEF SbInv
<1>3. k \in Keys /\ k # KeyOf(w)
  BY <1>0, <1>2, KeysOfWorkers DEF KeyOf, KeyIn
<1>4. artifacts'[k] = artifacts[k] /\ alloc'[k] = alloc[k] /\ store[e.step] \subseteq store'[e.step]
  BY <1>2, <1>3 DEF OwnStep, Exec
<1> HIDE DEF e
<1> QED
  BY <1>2, <1>4 DEF ExecOK

\* What is recorded stays attributable.
LEMMA OwnRecords ==
  ASSUME SbInv, NEW w \in Executors, NEW q \in Exec, OwnStep(w, q), NEW d \in done
  PROVE  /\ d.content \in store'[d.step]
         /\ \E k \in Keys : k[2] = d.step /\ artifacts'[k] = d.content
                              /\ alloc'[k].state = "DESTROYED"
<1>1. d.step \in Steps /\ d.content \in store[d.step]
  BY DEF SbInv, RecordedIsAttributable
<1>2. PICK k \in Keys : k[2] = d.step /\ artifacts[k] = d.content
                         /\ alloc[k].state = "DESTROYED"
  BY DEF SbInv, RecordedIsAttributable
<1>3. artifacts'[k] = artifacts[k] /\ alloc'[k].state = "DESTROYED"
  BY <1>2 DEF OwnStep
<1> QED
  BY <1>1, <1>2, <1>3 DEF OwnStep

\* What counting the live allocations needs; the library of finite sets, which
\* proves it, comes in at the end (CountingHolds).
Counting ==
  /\ IsFiniteSet({}) /\ Cardinality({}) <= Capacity
  /\ \A S : IsFiniteSet(S) =>
       /\ \A T \in SUBSET S : /\ IsFiniteSet(T)
                              /\ Cardinality(S) <= Capacity => Cardinality(T) <= Capacity
       /\ \A k : Cardinality(S) < Capacity =>
                   IsFiniteSet(S \cup {k}) /\ Cardinality(S \cup {k}) <= Capacity

\* Fewer live allocations fit as well.
LEMMA FewerFit ==
  ASSUME Counting, LiveFit, Live' \subseteq Live
  PROVE  LiveFit'
BY DEF Counting, LiveFit

\* A new allocation fits while there is room.
LEMMA OneMoreFits ==
  ASSUME Counting, LiveFit, Cardinality(Live) < Capacity, NEW k, Live' \subseteq Live \cup {k}
  PROVE  LiveFit'
<1> DEFINE L == Live \cup {k}
<1>1. IsFiniteSet(L) /\ Cardinality(L) <= Capacity
  BY DEF Counting, LiveFit
<1>2. Live' \in SUBSET L
  OBVIOUS
<1> HIDE DEF L
<1> QED
  BY <1>1, <1>2 DEF Counting, LiveFit

\* The invariant after a step of a worker.
LEMMA OwnStepKeeps ==
  ASSUME SbInv, NEW w \in Executors, NEW q \in Exec, OwnStep(w, q), LetsGo(w, q),
         ExecOK(w, q)', LiveFit', done' = done
  PROVE  SbInv'
<1>1. SbTypeOK' /\ sbNow' \in 0..MaxSbTime
  BY OwnTypes
<1>2. LiveAreUsed'
  BY OwnUses
<1>3. \A v \in Executors : ExecOK(v, execs[v])'
  BY OwnExecs
<1>4. RecordedIsAttributable'
  BY OwnRecords DEF RecordedIsAttributable
<1> QED
  BY <1>1, <1>2, <1>3, <1>4 DEF SbInv

\* A step that changes only where the worker is.
LEMMA MoveKeeps ==
  ASSUME SbInv, NEW w \in Executors, NEW q \in Exec,
         execs' = [execs EXCEPT ![w] = q],
         UNCHANGED <<alloc, artifacts, store, sbNow>>, orphans \subseteq orphans',
         LetsGo(w, q), ExecOK(w, q)
  PROVE  /\ OwnStep(w, q) /\ ExecOK(w, q)' /\ LiveFit'
         /\ done' = done => SbInv'
<1>1. OwnStep(w, q)
  BY DEF OwnStep, SbInv, SbTypeOK
<1>2. ExecOK(w, q)'
  BY DEF ExecOK
<1>3. LiveFit'
  BY DEF SbInv, LiveFit, Live
<1> QED
  BY <1>1, <1>2, <1>3, OwnStepKeeps

\* Where a worker goes.
LEMMA GoesIdle ==
  ASSUME SbInv, NEW w \in Executors, At(w, "idle")
  PROVE  /\ execs' = [execs EXCEPT ![w] = IdleExec] /\ IdleExec \in Exec
         /\ ExecOK(w, IdleExec) /\ ExecOK(w, IdleExec)'
BY IdleExecOK DEF At, ExecOK

\* What At leaves of the variables of a worker.
LEMMA GoesTo ==
  ASSUME SbInv, NEW w \in Executors,
         NEW pc \in {"begin", "answer", "store", "release", "confirm", "record"}, At(w, pc)
  PROVE  \E q \in Exec :
           /\ execs' = [execs EXCEPT ![w] = q] /\ q.pc = pc
           /\ q.step = execs[w].step /\ q.n = execs[w].n
           /\ q.content = execs[w].content /\ q.failed = execs[w].failed
<1> DEFINE e == execs[w]
           q == [pc |-> pc, step |-> e.step, n |-> e.n, content |-> e.content,
                 failed |-> e.failed]
<1>1. e \in Exec
  BY DEF SbInv, SbTypeOK
<1>2. q \in Exec
  BY <1>1 DEF Exec
<1>3. q = [e EXCEPT !.pc = pc]
  BY <1>1 DEF Exec
<1>4. execs' = [execs EXCEPT ![w] = q]
  BY <1>3, Zenon DEF At
<1> QED
  BY <1>2, <1>4, Zenon

\* What a failed execution leaves of the variables of its worker.
LEMMA GivesBack ==
  ASSUME SbInv, NEW w \in Executors, GiveBack(w)
  PROVE  \E q \in Exec :
           /\ execs' = [execs EXCEPT ![w] = q] /\ q.pc = "release" /\ q.failed
           /\ KeyIn(w, q) = KeyOf(w) /\ ExecOK(w, q) /\ ExecOK(w, q)'
<1> DEFINE e == execs[w]
           q == [e EXCEPT !.pc = "release", !.failed = TRUE]
<1>1. e \in Exec /\ execs \in [Executors -> Exec]
  BY DEF SbInv, SbTypeOK
<1>2. q \in Exec /\ q.pc = "release" /\ q.failed /\ KeyIn(w, q) = KeyOf(w)
  BY <1>1, Zenon DEF Exec, KeyIn, KeyOf
<1>3. execs' = [execs EXCEPT ![w] = q]
  BY DEF GiveBack
<1> HIDE DEF q
<1> QED
  BY <1>2, <1>3, Zenon DEF ExecOK

\* A refused call gives the allocation back.
LEMMA GiveBackKeeps ==
  ASSUME SbInv, NEW w \in Executors, GiveBack(w),
         UNCHANGED <<alloc, artifacts, store, done, orphans, sbNow>>
  PROVE  SbInv'
<1>1. PICK q \in Exec :
        /\ execs' = [execs EXCEPT ![w] = q] /\ q.pc = "release" /\ q.failed
        /\ KeyIn(w, q) = KeyOf(w) /\ ExecOK(w, q)
  BY GivesBack
<1>2. LetsGo(w, q)
  BY <1>1 DEF LetsGo
<1> QED
  BY <1>1, <1>2, MoveKeeps, Zenon

\* One lemma per action: it preserves the inductive invariant.
LEMMA ExecuteKeeps ==
  ASSUME SbInv, NEW w \in Executors, NEW s \in Steps, Execute(w, s)
  PROVE  SbInv'
<1> DEFINE q == [pc |-> "create", step |-> s, n |-> 1, content |-> NoContent,
                 failed |-> FALSE]
<1>1. q \in Exec /\ ExecOK(w, q)
  BY SbConstants DEF Exec, ExecOK
<1>2. execs' = [execs EXCEPT ![w] = q] /\ execs[w].pc = "idle"
      /\ UNCHANGED <<alloc, artifacts, store, done, orphans, sbNow, execCrashes>>
  BY DEF Execute
<1> HIDE DEF q
<1>3. LetsGo(w, q)
  BY <1>2 DEF LetsGo
<1> QED
  BY <1>1, <1>2, <1>3, MoveKeeps, Zenon

\* Admission counts the live sandboxes, so one more still fits.
LEMMA CreateKeeps ==
  ASSUME Counting, SbInv, NEW w \in Executors, Create(w)
  PROVE  SbInv'
<1> DEFINE k == KeyOf(w)
<1>0. /\ execs[w] \in Exec /\ k \in Keys /\ KeyIn(w, execs[w]) = k
      /\ alloc \in [Keys -> Allocation] /\ sbNow \in 0..MaxSbTime
  BY KeysOfWorkers DEF SbInv, SbTypeOK, KeyOf, KeyIn
<1>1. UNCHANGED <<artifacts, store, done, orphans, sbNow, execCrashes>>
  BY DEF Create
<1>2. ASSUME alloc[k].state \in {"NONE", "DESTROYED"}, At(w, "idle"), UNCHANGED alloc
      PROVE  SbInv'
  <2>1. LetsGo(w, IdleExec)
    BY <1>2 DEF LetsGo
  <2> QED
    BY <1>1, <1>2, <2>1, GoesIdle, MoveKeeps
<1>3. CASE /\ alloc[k].state = "DESTROYED" /\ execs[w].n < MaxKeys
           /\ execs' = [execs EXCEPT ![w].n = @ + 1]
           /\ UNCHANGED alloc
  <2> DEFINE e == execs[w]
             q == [pc |-> e.pc, step |-> e.step, n |-> e.n + 1, content |-> e.content,
                   failed |-> e.failed]
  <2>1. q \in Exec
    BY <1>0, <1>3, SbConstants DEF Exec
  <2>2. execs' = [execs EXCEPT ![w] = q]
    <3>1. q = [e EXCEPT !.n = e.n + 1]
      BY <1>0 DEF Exec
    <3> QED
      BY <1>3, <3>1, Zenon
  <2>3. q.pc = "create"
    BY DEF Create
  <2> HIDE DEF q
  <2>4. LetsGo(w, q)
    BY <1>3 DEF LetsGo
  <2>5. ExecOK(w, q)
    BY <2>3 DEF ExecOK
  <2> QED
    BY <1>1, <1>3, <2>1, <2>2, <2>4, <2>5, MoveKeeps, Zenon
<1>4. ASSUME At(w, "begin"), alloc' = alloc
      PROVE  SbInv'
  <2>1. PICK q \in Exec :
          /\ execs' = [execs EXCEPT ![w] = q] /\ q.pc = "begin"
          /\ q.step = execs[w].step /\ q.n = execs[w].n
    BY <1>4, GoesTo
  <2>2. LetsGo(w, q)
    BY <2>1 DEF LetsGo, KeyIn, KeyOf
  <2>3. ExecOK(w, q)
    BY <2>1 DEF ExecOK
  <2> QED
    BY <1>1, <1>4, <2>1, <2>2, <2>3, MoveKeeps, Zenon
<1>5. CASE /\ alloc[k].state = "NONE" /\ Cardinality(Live) < Capacity
           /\ alloc' = [alloc EXCEPT ![k] = [state |-> "READY", until |-> sbNow + SandboxLease]]
           /\ At(w, "begin")
  <2>1. PICK q \in Exec :
          /\ execs' = [execs EXCEPT ![w] = q] /\ q.pc = "begin"
          /\ q.step = execs[w].step /\ q.n = execs[w].n
    BY <1>5, GoesTo
  <2>2. LetsGo(w, q)
    BY <2>1 DEF LetsGo, KeyIn, KeyOf
  <2>3. ExecOK(w, q)'
    BY <2>1 DEF ExecOK
  <2> DEFINE a == [state |-> "READY", until |-> sbNow + SandboxLease]
  <2>4. a \in Allocation /\ a.state = "READY"
    BY <1>0, SbConstants DEF Allocation, States
  <2>5. alloc' = [alloc EXCEPT ![k] = a]
    BY <1>5
  <2> HIDE DEF a, k
  <2>6. OwnStep(w, q)
    BY <1>0, <1>1, <1>5, <2>1, <2>4, <2>5 DEF OwnStep, SbInv, SbTypeOK, k
  <2>7. Live' \subseteq Live \cup {k}
    BY <1>0, <2>5 DEF Live
  <2>8. LiveFit'
    BY <1>5, <2>7, OneMoreFits DEF SbInv
  <2> QED
    BY <1>1, <2>2, <2>3, <2>6, <2>8, OwnStepKeeps
<1> QED
  BY <1>2, <1>3, <1>4, <1>5 DEF Create

\* A step that changes the state of the worker's own live allocation.
LEMMA StateKeeps ==
  ASSUME Counting, SbInv, NEW w \in Executors, NEW q \in Exec, NEW st \in States,
         execs' = [execs EXCEPT ![w] = q],
         alloc' = [alloc EXCEPT ![KeyOf(w)].state = st],
         UNCHANGED <<artifacts, store, orphans, sbNow>>,
         alloc[KeyOf(w)].state # "NONE" \/ st = "DESTROYED", st # "NONE",
         alloc[KeyOf(w)].state = "DESTROYED" => st = "DESTROYED"
  PROVE  /\ OwnStep(w, q) /\ LiveFit'
         /\ alloc'[KeyOf(w)].state = st
<1> DEFINE k == KeyOf(w)  a == [state |-> st, until |-> alloc[k].until]
<1>0. k \in Keys /\ alloc \in [Keys -> Allocation]
  BY KeysOfWorkers DEF SbInv, SbTypeOK, KeyOf, KeyIn
<1>1. a \in Allocation /\ alloc' = [alloc EXCEPT ![k] = a] /\ a.state = st
  <2>1. a = [alloc[k] EXCEPT !.state = st] /\ a \in Allocation
    BY <1>0 DEF Allocation
  <2> QED
    BY <2>1, Zenon
<1> HIDE DEF a, k
<1>2. alloc'[k] = a /\ alloc' \in [Keys -> Allocation]
      /\ \A j \in Keys : j # k => alloc'[j] = alloc[j]
  BY <1>0, <1>1, Zenon
<1>3. OwnStep(w, q)
  BY <1>0, <1>1, <1>2 DEF OwnStep, SbInv, SbTypeOK, k
<1>4. Live' \subseteq Live
  BY <1>0, <1>1, <1>2 DEF Live, k
<1>5. LiveFit'
  BY <1>4, FewerFit DEF SbInv
<1> QED
  BY <1>1, <1>2, <1>3, <1>5 DEF k

\* An execution begins in the sandbox.
LEMMA BeginKeeps ==
  ASSUME Counting, SbInv, NEW w \in Executors, Begin(w)
  PROVE  SbInv'
<1>1. UNCHANGED <<artifacts, store, done, orphans, sbNow, execCrashes>>
  BY DEF Begin
<1>2. CASE GiveBack(w) /\ UNCHANGED alloc
  BY <1>1, <1>2, GiveBackKeeps
<1>3. CASE /\ Startable(KeyOf(w))
           /\ alloc' = [alloc EXCEPT ![KeyOf(w)].state = "RUNNING"]
           /\ At(w, "answer")
  <2>1. PICK q \in Exec :
          /\ execs' = [execs EXCEPT ![w] = q] /\ q.pc = "answer"
          /\ q.step = execs[w].step /\ q.n = execs[w].n
    BY <1>3, GoesTo
  <2>2. LetsGo(w, q)
    BY <2>1 DEF LetsGo, KeyIn, KeyOf
  <2>3. ExecOK(w, q)'
    BY <2>1 DEF ExecOK
  <2>4. alloc[KeyOf(w)].state \notin {"NONE", "DESTROYED"} /\ "RUNNING" \in States
    BY <1>3 DEF Startable, States
  <2>5. OwnStep(w, q) /\ LiveFit'
    BY <1>1, <1>3, <2>1, <2>4, StateKeeps, Zenon
  <2> QED
    BY <1>1, <2>2, <2>3, <2>5, OwnStepKeeps
<1> QED
  BY <1>2, <1>3 DEF Begin

\* The answer of the sandbox, good or bad.
LEMMA AnswerKeeps ==
  ASSUME SbInv, NEW w \in Executors, NEW c \in Contents \cup {NoContent}, Answer(w, c)
  PROVE  SbInv'
<1>1. UNCHANGED <<alloc, artifacts, store, done, orphans, sbNow, execCrashes>>
  BY DEF Answer
<1>2. CASE GiveBack(w)
  BY <1>1, <1>2, GiveBackKeeps
<1>3. CASE /\ c # NoContent
           /\ execs' = [execs EXCEPT ![w] = [@ EXCEPT !.pc = "publish", !.content = c]]
  <2> DEFINE e == execs[w]
             q == [e EXCEPT !.pc = "publish", !.content = c]
  <2>0. e \in Exec /\ execs \in [Executors -> Exec]
    BY DEF SbInv, SbTypeOK
  <2>1. q \in Exec /\ q.pc = "publish" /\ q.content \in Contents /\ KeyIn(w, q) = KeyOf(w)
    BY <1>3, <2>0, Zenon DEF Exec, KeyIn, KeyOf
  <2>2. execs' = [execs EXCEPT ![w] = q]
    BY <1>3
  <2> HIDE DEF q
  <2>3. LetsGo(w, q) /\ ExecOK(w, q)
    BY <2>1 DEF LetsGo, ExecOK
  <2> QED
    BY <1>1, <2>1, <2>2, <2>3, MoveKeeps, Zenon
<1> QED
  BY <1>2, <1>3 DEF Answer

\* The artifact is published from the worker's own sandbox.
LEMMA PublishKeeps ==
  ASSUME SbInv, NEW w \in Executors, Publish(w)
  PROVE  SbInv'
<1> DEFINE k == KeyOf(w)  c == execs[w].content
<1>0. /\ execs[w] \in Exec /\ k \in Keys /\ c \in Contents
      /\ artifacts \in [Keys -> Contents \cup {NoContent}]
  BY KeysOfWorkers DEF SbInv, SbTypeOK, KeyOf, KeyIn, ExecOK, Publish
<1>1. UNCHANGED <<alloc, store, done, orphans, sbNow, execCrashes>>
  BY DEF Publish
<1>2. CASE GiveBack(w) /\ UNCHANGED artifacts
  BY <1>1, <1>2, GiveBackKeeps
<1>3. CASE Writable(k, c) /\ artifacts' = [artifacts EXCEPT ![k] = c] /\ At(w, "store")
  <2>1. PICK q \in Exec :
          /\ execs' = [execs EXCEPT ![w] = q] /\ q.pc = "store"
          /\ q.step = execs[w].step /\ q.n = execs[w].n /\ q.content = c
    BY <1>3, GoesTo
  <2>2. LetsGo(w, q) /\ KeyIn(w, q) = k
    BY <2>1 DEF LetsGo, KeyIn, KeyOf
  <2>3. ExecOK(w, q)'
    BY <1>0, <1>3, <2>1, <2>2 DEF ExecOK
  <2>4. alloc[k].state \in {"READY", "RUNNING"}
    BY <1>3 DEF Writable
  <2> HIDE DEF k, c
  <2>5. OwnStep(w, q)
    BY <1>0, <1>1, <1>3, <2>1, <2>4 DEF OwnStep, SbInv, SbTypeOK, k
  <2>6. LiveFit'
    BY <1>1 DEF SbInv, LiveFit, Live
  <2> QED
    BY <1>1, <2>2, <2>3, <2>5, <2>6, OwnStepKeeps
<1> QED
  BY <1>2, <1>3 DEF Publish

\* The artifact is stored and its observation recorded, or not.
LEMMA StoreKeeps ==
  ASSUME SbInv, NEW w \in Executors, NEW stored \in BOOLEAN, NEW observed \in BOOLEAN,
         StoreAndObserve(w, stored, observed)
  PROVE  SbInv'
<1> DEFINE e == execs[w]
<1>0. /\ e \in Exec /\ e.content \in Contents /\ artifacts[KeyIn(w, e)] = e.content
      /\ KeyIn(w, e) = KeyOf(w) /\ store \in [Steps -> SUBSET Contents] /\ e.step \in Steps
  BY DEF SbInv, SbTypeOK, ExecOK, StoreAndObserve, KeyOf, KeyIn, Exec
<1>1. UNCHANGED <<alloc, artifacts, done, orphans, sbNow, execCrashes>>
  BY DEF StoreAndObserve
<1>2. /\ store' \in [Steps -> SUBSET Contents] /\ \A s \in Steps : store[s] \subseteq store'[s]
      /\ stored => e.content \in store'[e.step]
  BY <1>0 DEF StoreAndObserve
<1>3. PICK q \in Exec :
        /\ execs' = [execs EXCEPT ![w] = q] /\ q.pc = "release" /\ KeyIn(w, q) = KeyOf(w)
        /\ ExecOK(w, q)'
  <2>1. CASE GiveBack(w)
    BY <2>1, GivesBack
  <2>2. CASE stored /\ observed /\ At(w, "release")
    <3>1. PICK q \in Exec :
            /\ execs' = [execs EXCEPT ![w] = q] /\ q.pc = "release"
            /\ q.step = e.step /\ q.n = e.n /\ q.content = e.content
      BY <2>2, GoesTo
    <3>2. KeyIn(w, q) = KeyOf(w)
      BY <3>1 DEF KeyIn, KeyOf
    <3>3. ExecOK(w, q)'
      BY <1>0, <1>1, <1>2, <2>2, <3>1, <3>2 DEF ExecOK
    <3> QED
      BY <3>1, <3>2, <3>3, ZenonT(40)
  <2> QED
    BY <2>1, <2>2 DEF StoreAndObserve
<1>4. LetsGo(w, q)
  BY <1>3 DEF LetsGo
<1>5. OwnStep(w, q)
  BY <1>1, <1>2, <1>3 DEF OwnStep, SbInv, SbTypeOK
<1>6. LiveFit'
  BY <1>1, Zenon DEF SbInv, LiveFit, Live
<1> QED
  BY <1>1, <1>3, <1>4, <1>5, <1>6, OwnStepKeeps

\* The release is asked for.
LEMMA RequestReleaseKeeps ==
  ASSUME Counting, SbInv, NEW w \in Executors, RequestRelease(w)
  PROVE  SbInv'
<1> DEFINE k == KeyOf(w)  e == execs[w]
<1>0. /\ k \in Keys /\ KeyIn(w, e) = k /\ alloc[k] \in Allocation /\ e.pc = "release"
      /\ sbNow \in Nat /\ ExecOK(w, e) /\ e \in Exec
  BY KeysOfWorkers DEF SbInv, SbTypeOK, KeyOf, KeyIn, RequestRelease
<1>1. UNCHANGED <<artifacts, store, done, orphans, sbNow, execCrashes>>
  BY DEF RequestRelease
<1>2. CASE ~ Current(k) /\ At(w, "idle") /\ UNCHANGED alloc
  <2>1. alloc'[k].until <= sbNow
    BY <1>0, <1>2, SMTT(30) DEF Current, Allocation
  <2>2. LetsGo(w, IdleExec)
    BY <2>1 DEF LetsGo
  <2> QED
    BY <1>1, <1>2, <2>2, GoesIdle, MoveKeeps
<1>3. CASE /\ Current(k)
           /\ alloc' = [alloc EXCEPT ![k].state =
                IF @ = "DESTROYED" THEN @ ELSE "DESTROY_REQUESTED"]
           /\ At(w, "confirm")
  <2> DEFINE st == IF alloc[k].state = "DESTROYED" THEN "DESTROYED" ELSE "DESTROY_REQUESTED"
  <2>1. st \in States /\ st # "NONE" /\ (alloc[k].state = "DESTROYED" => st = "DESTROYED")
    BY DEF States
  <2>2. alloc' = [alloc EXCEPT ![k].state = st]
    BY <1>3, Zenon
  <2>3. alloc[k].state # "NONE"
    BY <1>0, <1>3 DEF Current, SbInv, SbTypeOK, Allocation
  <2>4. PICK q \in Exec :
          /\ execs' = [execs EXCEPT ![w] = q] /\ q.pc = "confirm"
          /\ q.step = e.step /\ q.n = e.n /\ q.content = e.content /\ q.failed = e.failed
    BY <1>3, GoesTo
  <2> HIDE DEF st
  <2>5. OwnStep(w, q) /\ LiveFit'
    BY <1>1, <2>1, <2>2, <2>3, <2>4, StateKeeps, Zenon
  <2>6. LetsGo(w, q) /\ KeyIn(w, q) = k
    BY <2>4 DEF LetsGo, KeyIn, KeyOf
  <2>7. ExecOK(w, q)'
    BY <1>0, <1>1, <2>4, <2>6 DEF ExecOK
  <2> QED
    BY <1>1, <2>5, <2>6, <2>7, OwnStepKeeps
<1> QED
  BY <1>2, <1>3 DEF RequestRelease

\* The release is confirmed: the sandbox is DESTROYED.
LEMMA ConfirmReleaseKeeps ==
  ASSUME Counting, SbInv, NEW w \in Executors, ConfirmRelease(w)
  PROVE  SbInv'
<1> DEFINE k == KeyOf(w)  e == execs[w]
<1>0. /\ k \in Keys /\ KeyIn(w, e) = k /\ e.pc = "confirm" /\ ExecOK(w, e) /\ e \in Exec
  BY KeysOfWorkers DEF SbInv, SbTypeOK, KeyOf, KeyIn, ConfirmRelease
<1>1. /\ UNCHANGED <<artifacts, store, done, orphans, sbNow, execCrashes>>
      /\ alloc' = [alloc EXCEPT ![k].state = "DESTROYED"]
      /\ At(w, IF e.failed THEN "idle" ELSE "record")
  BY DEF ConfirmRelease, Confirmed
<1>2. "DESTROYED" \in States
  BY DEF States
<1>3. CASE e.failed
  <2>1. /\ execs' = [execs EXCEPT ![w] = IdleExec] /\ IdleExec \in Exec
        /\ ExecOK(w, IdleExec)'
    BY <1>1, <1>3, GoesIdle
  <2>2. OwnStep(w, IdleExec) /\ LiveFit' /\ alloc'[k].state = "DESTROYED"
    BY <1>1, <1>2, <2>1, StateKeeps, Zenon
  <2>3. LetsGo(w, IdleExec)
    BY <2>2 DEF LetsGo
  <2> QED
    BY <1>1, <2>1, <2>2, <2>3, OwnStepKeeps
<1>4. CASE ~ e.failed
  <2>1. PICK q \in Exec :
          /\ execs' = [execs EXCEPT ![w] = q] /\ q.pc = "record"
          /\ q.step = e.step /\ q.n = e.n /\ q.content = e.content /\ q.failed = e.failed
    BY <1>1, <1>4, GoesTo
  <2>2. OwnStep(w, q) /\ LiveFit' /\ alloc'[k].state = "DESTROYED"
    BY <1>1, <1>2, <2>1, StateKeeps, ZenonT(40)
  <2>3. LetsGo(w, q) /\ KeyIn(w, q) = k
    BY <2>1 DEF LetsGo, KeyIn, KeyOf
  <2>4. ExecOK(w, q)'
    BY <1>0, <1>1, <1>4, <2>1, <2>2, <2>3 DEF ExecOK
  <2> QED
    BY <1>1, <2>2, <2>3, <2>4, OwnStepKeeps
<1> QED
  BY <1>3, <1>4

\* The step is recorded with what its own sandbox published.
LEMMA RecordStepKeeps ==
  ASSUME SbInv, NEW w \in Executors, RecordStep(w)
  PROVE  SbInv'
<1> DEFINE k == KeyOf(w)  e == execs[w]
<1>0. /\ k \in Keys /\ KeyIn(w, e) = k /\ e.pc = "record" /\ ExecOK(w, e) /\ e \in Exec
      /\ k[2] = e.step /\ e.step \in Steps
  BY KeysOfWorkers DEF SbInv, SbTypeOK, KeyOf, KeyIn, RecordStep, Exec
<1>1. /\ UNCHANGED <<alloc, artifacts, store, orphans, sbNow, execCrashes>>
      /\ At(w, "idle") /\ done' \subseteq done \cup {Result(w)}
  BY DEF RecordStep
<1>2. /\ alloc[k].state = "DESTROYED" /\ artifacts[k] = e.content
      /\ e.content \in store[e.step]
  BY <1>0 DEF ExecOK
<1>3. /\ execs' = [execs EXCEPT ![w] = IdleExec] /\ IdleExec \in Exec /\ ExecOK(w, IdleExec)
  BY <1>1, GoesIdle
<1>4. LetsGo(w, IdleExec)
  BY <1>1, <1>2 DEF LetsGo
<1>5. OwnStep(w, IdleExec) /\ ExecOK(w, IdleExec)' /\ LiveFit'
  BY <1>1, <1>3, <1>4, MoveKeeps, ZenonT(40)
<1>6. SbTypeOK' /\ sbNow' \in 0..MaxSbTime
  BY <1>3, <1>5, OwnTypes
<1>7. LiveAreUsed'
  BY <1>3, <1>4, <1>5, OwnUses
<1>8. \A v \in Executors : ExecOK(v, execs[v])'
  BY <1>3, <1>5, OwnExecs
<1>9. Result(w).step = e.step /\ Result(w).content = e.content
  BY DEF Result
<1>10. RecordedIsAttributable'
  <2> SUFFICES ASSUME NEW d \in done \cup {Result(w)}
               PROVE  /\ d.content \in store'[d.step]
                      /\ \E j \in Keys : j[2] = d.step /\ artifacts'[j] = d.content
                                           /\ alloc'[j].state = "DESTROYED"
    BY <1>1 DEF RecordedIsAttributable
  <2>1. CASE d \in done
    BY <1>3, <1>5, <2>1, OwnRecords
  <2>2. CASE d = Result(w)
    BY <1>0, <1>1, <1>2, <1>9, <2>2
  <2> QED
    BY <2>1, <2>2
<1>11. \A d \in done' : d.step \in Steps
  BY <1>0, <1>1, <1>9 DEF SbInv
<1> QED
  BY <1>5, <1>6, <1>7, <1>8, <1>10, <1>11 DEF SbInv

\* A crash orphans the sandbox the worker was using.
LEMMA CrashKeeps ==
  ASSUME SbInv, NEW w \in Executors, SbCrash(w)
  PROVE  SbInv'
<1>1. /\ UNCHANGED <<alloc, artifacts, store, done, sbNow>> /\ At(w, "idle")
      /\ orphans' = orphans \cup {KeyOf(w)}
  BY DEF SbCrash
<1>2. LetsGo(w, IdleExec)
  BY <1>1 DEF LetsGo
<1> QED
  BY <1>1, <1>2, GoesIdle, MoveKeeps

\* The sweep asks for the end of expired sandboxes.
LEMMA SweepKeeps ==
  ASSUME Counting, SbInv, Sweep
  PROVE  SbInv'
<1>0. alloc \in [Keys -> Allocation]
      /\ UNCHANGED <<artifacts, store, done, execs, orphans, sbNow, execCrashes>>
  BY DEF SbInv, SbTypeOK, Sweep
<1>1. ASSUME NEW k \in Keys
      PROVE  /\ alloc'[k] \in Allocation /\ alloc'[k].until = alloc[k].until
             /\ \/ alloc'[k].state = alloc[k].state
                \/ /\ alloc[k].state \in {"READY", "RUNNING"}
                   /\ alloc'[k].state = "DESTROY_REQUESTED"
  <2> DEFINE a == [alloc[k] EXCEPT !.state = "DESTROY_REQUESTED"]
  <2>1. a \in Allocation /\ a.until = alloc[k].until /\ a.state = "DESTROY_REQUESTED"
    BY <1>0 DEF Allocation, States
  <2>2. \/ alloc'[k] = alloc[k]
        \/ alloc[k].state \in {"READY", "RUNNING"} /\ alloc'[k] = a
    BY DEF Sweep, Swept
  <2> HIDE DEF a
  <2>3. alloc[k] \in Allocation
    BY <1>0
  <2>4. CASE alloc'[k] = alloc[k]
    BY <2>3, <2>4, Zenon
  <2>5. CASE alloc[k].state \in {"READY", "RUNNING"} /\ alloc'[k] = a
    BY <2>1, <2>5, Zenon
  <2> QED
    BY <2>2, <2>4, <2>5, Zenon
<1>2. alloc' \in [Keys -> Allocation]
  <2>1. alloc' = [k \in Keys |-> alloc'[k]]
    BY DEF Sweep
  <2> QED
    BY <1>1, <2>1
<1>3. SbTypeOK'
  BY <1>0, <1>1, <1>2 DEF SbInv, SbTypeOK
<1>4. LiveFit'
  <2>1. Live' \subseteq Live
    BY <1>1 DEF Live
  <2> QED
    BY <2>1, FewerFit DEF SbInv
<1>5. LiveAreUsed'
  BY <1>0, <1>1 DEF SbInv, LiveAreUsed, Live, Used, KeyOf
<1>6. RecordedIsAttributable'
  BY <1>0, <1>1 DEF SbInv, RecordedIsAttributable
<1>7. ASSUME NEW w \in Executors PROVE ExecOK(w, execs[w])'
  <2>1. execs[w] \in Exec /\ ExecOK(w, execs[w])
    BY DEF SbInv, SbTypeOK
  <2>2. KeyIn(w, execs[w]) \in Keys
    BY <2>1, KeysOfWorkers
  <2>3. alloc[KeyIn(w, execs[w])].state = "DESTROYED" => alloc'[KeyIn(w, execs[w])].state = "DESTROYED"
    BY <1>1, <2>2
  <2> QED
    BY <1>0, <2>1, <2>3 DEF ExecOK
<1> QED
  BY <1>0, <1>3, <1>4, <1>5, <1>6, <1>7 DEF SbInv

\* Time passes.
LEMMA SbTickKeeps ==
  ASSUME SbInv, SbTick
  PROVE  SbInv'
<1>0. UNCHANGED <<alloc, artifacts, store, done, execs, orphans, execCrashes>>
      /\ sbNow' = sbNow + 1 /\ sbNow < MaxSbTime /\ sbNow \in Nat
  BY DEF SbTick, SbInv
<1>1. LiveAreUsed'
  <2> SUFFICES ASSUME NEW k \in Live, alloc[k].until > sbNow + 1 PROVE Used(k)'
    BY <1>0 DEF LiveAreUsed, Live
  <2>1. alloc[k].until \in Nat
    BY SbConstants DEF SbInv, SbTypeOK, Live, Allocation
  <2>2. Used(k)
    BY <1>0, <2>1 DEF SbInv, LiveAreUsed
  <2> QED
    BY <1>0, <2>2 DEF Used, KeyOf
<1>2. LiveFit'
  BY <1>0 DEF SbInv, LiveFit, Live
<1>3. sbNow' \in 0..MaxSbTime
  BY <1>0, SbConstants
<1> QED
  BY <1>0, <1>1, <1>2, <1>3, ZenonT(40) DEF SbInv, SbTypeOK, RecordedIsAttributable, ExecOK

\* The initial states.
LEMMA SbInitially ==
  ASSUME Counting, SbInit
  PROVE  SbInv
<1>1. NoAllocation \in Allocation
  BY SbConstants DEF NoAllocation, Allocation, States
<1>2. SbTypeOK
  BY <1>1, IdleExecOK DEF SbInit, SbTypeOK, NoAllocation
<1>3. Live = {}
  BY DEF SbInit, Live, NoAllocation
<1>4. LiveFit
  BY <1>3 DEF LiveFit, Counting
<1>5. \A w \in Executors : ExecOK(w, execs[w])
  BY IdleExecOK DEF SbInit, ExecOK
<1>6. sbNow \in 0..MaxSbTime /\ done = {}
  BY SbConstants DEF SbInit
<1> QED
  BY <1>2, <1>3, <1>4, <1>5, <1>6 DEF SbInv, LiveAreUsed, RecordedIsAttributable

\* Every step.
LEMMA SbStep ==
  ASSUME Counting, SbInv, [SbNext]_sbVars
  PROVE  SbInv'
<1>1. CASE UNCHANGED sbVars
  BY <1>1, ZenonT(40) DEF sbVars, SbInv, SbTypeOK, LiveFit, LiveAreUsed, Live, Used, KeyOf,
              RecordedIsAttributable, ExecOK
<1>2. ASSUME NEW w \in Executors, ExecutorStep(w) PROVE SbInv'
  BY <1>2, CreateKeeps, BeginKeeps, AnswerKeeps, PublishKeeps, StoreKeeps,
     RequestReleaseKeeps, ConfirmReleaseKeeps, RecordStepKeeps DEF ExecutorStep
<1> QED
  BY <1>1, <1>2, CrashKeeps, ExecuteKeeps, SweepKeeps, SbTickKeeps DEF SbNext

-----------------------------------------------------------------------------
(* The refund.                                                              *)

\* What a dispatcher's position says about the rows: it is under way only for
\* an approved refund, past the second transaction only for a requested
\* Action, and a CONFIRMED receipt is the provider's.
DispatchOK ==
  \A d \in Dispatchers :
    /\ proc[d].pc # "idle" => approval.decision = "APPROVED"
    /\ proc[d].pc \in {"requested", "answered", "raised"}
         => action.state \notin {"absent", "RESERVED"}
    /\ proc[d].pc = "answered" /\ proc[d].receipt = "CONFIRMED"
         => provider = "done"

\* The ledger's properties, and that no code path commits UNKNOWN or FAILED.
LedgerOK == /\ RefundIsApproved
            /\ RefundIsRecorded
            /\ ConfirmedCompletesRun
            /\ action.state \notin {"UNKNOWN", "FAILED"}
            /\ action.state = "absent" => approval.decision = "absent"

\* The wait's property, with what ties wait, approval and inbox together.
ApprovalOK ==
  /\ DecisionSettlesWait
  /\ approval.decision = "absent" => wait = NoWait
  /\ approval.decision # "absent" =>
       /\ wait.state \notin {"absent", "PENDING"}
       /\ wait.deadline = wait.created + WaitLength
       /\ approval.expires = wait.deadline
  /\ approval.decision \notin {"APPROVED", "REJECTED"} => inbox = {}
  /\ \A s, u \in inbox : s = u

\* The inductive invariant.
RefundInv == RefundTypeOK /\ DispatchOK /\ LedgerOK /\ ApprovalOK

-----------------------------------------------------------------------------
(* What RunRepository and WaitRepository leave in the rows they write.      *)

\* The only reply is the one First() picks.
LEMMA OnlyReply ==
  ASSUME NEW s \in Signal
  PROVE  First({s}) = s /\ s.id \in 0..MaxSignal
<1>1. s.id \in Nat /\ s.id \in 0..MaxSignal /\ s.received \in Nat
  BY SignalAssumption DEF Signal
<1> QED BY <1>1 DEF First

\* A wait as it is registered, activated or not.
LEMMA NewWaitRow ==
  ASSUME NEW t \in Nat
  PROVE  /\ NewWait(t) \in WaitRow
         /\ NewWait(t).state = "PENDING"
         /\ NewWait(t).winner = 0
BY WaitLengthAssumption, SignalAssumption DEF NewWait, WaitRow, WaitState

\* Activating a wait changes its state only.
LEMMA ActivatedRow ==
  ASSUME NEW w \in WaitRow
  PROVE  /\ Activated(w) \in WaitRow
         /\ Activated(w).state = "ACTIVE"
         /\ Activated(w).winner = w.winner
         /\ Activated(w).created = w.created
BY DEF Activated, WaitRow, WaitState

\* A Run row that left RUNNING, or was just claimed, is a Run row.
LEMMA RunRows ==
  ASSUME NEW r \in RunRow
  PROVE  /\ \A s \in RunState : /\ Moved(r, s, 0) \in RunRow
                                /\ Moved(r, s, 0).state = s
         /\ \A h \in Owners : /\ Claimed(r, h) \in RunRow
                              /\ Claimed(r, h).state = "RUNNING"
         /\ RunAfter(r, 1) \in RunRow
         /\ RunAfter(r, 1).state = r.state
<1>1. \A s \in RunState : Moved(r, s, 0) \in RunRow /\ Moved(r, s, 0).state = s
  BY LeaseAssumption, DelayAssumption DEF Moved, RunRow, RunState
<1>2. \A h \in Owners : Claimed(r, h) \in RunRow /\ Claimed(r, h).state = "RUNNING"
  BY LeaseAssumption, DelayAssumption DEF Claimed, RunRow, RunState
<1>3. Left(r.lease, 1) \in 0..Lease /\ Left(r.avail, 1) \in 0..MaxDelay
  BY LeaseAssumption, DelayAssumption DEF Left, RunRow
<1>4. RunAfter(r, 1) \in RunRow /\ RunAfter(r, 1).state = r.state
  BY <1>3, Zenon DEF RunAfter, RunRow
<1> QED BY <1>1, <1>2, <1>4

-----------------------------------------------------------------------------
\* A step that changes neither approval, wait nor inbox.
LEMMA SameApproval ==
  ASSUME ApprovalOK, UNCHANGED <<approval, wait, inbox>>
  PROVE  ApprovalOK'
BY DEF ApprovalOK, DecisionSettlesWait

\* A step that moves the Run, unless a confirmed refund completed it.
LEMMA SameLedger ==
  ASSUME LedgerOK, run.state # "COMPLETED" \/ UNCHANGED <<run.state, run.token>>,
         UNCHANGED <<action, provider>>,
         approval.decision = "absent" => approval'.decision = "absent",
         approval.decision = "APPROVED" => approval'.decision = "APPROVED"
  PROVE  LedgerOK'
BY DEF LedgerOK, RefundIsApproved, RefundIsRecorded, ConfirmedCompletesRun

\* A step that leaves the dispatchers and the provider alone.
LEMMA SameDispatch ==
  ASSUME DispatchOK, UNCHANGED <<proc, action, provider>>,
         approval.decision = "APPROVED" => approval'.decision = "APPROVED"
  PROVE  DispatchOK'
BY DEF DispatchOK

\* A first decision settles the wait, or came before its created_at.
LEMMA DecideKeeps ==
  ASSUME RefundInv, NEW by \in Deciders, NEW decision \in {"APPROVED", "REJECTED"},
         FirstDecision, Decided(by, decision)
  PROVE  /\ ApprovalOK'
         /\ wait' \in WaitRow
         /\ inbox' \subseteq Signal
         /\ approval' \in [decision : Decision, by : Deciders \cup {Nobody},
                           expires : Nat]
         /\ approval'.decision = decision
         /\ approval.decision = "PENDING"
         /\ run.state = "WAITING_APPROVAL"
<1> USE DEF RefundInv, RefundTypeOK
<1>0. now \in Nat /\ wait \in WaitRow /\ wait.created \in Nat
  BY InstantAssumption DEF Instant, WaitRow
<1>1. /\ approval' \in [decision : Decision, by : Deciders \cup {Nobody},
                        expires : Nat]
      /\ approval'.decision = decision
      /\ approval'.expires = approval.expires
  BY Zenon DEF Decided, Decision
<1>2. inbox' = {DecisionSignal} /\ DecisionSignal \in Signal /\ DecisionSignal.received = now
  <2>1. 1 \in 1..MaxSignal
    BY RefundBounds
  <2> QED BY <2>1, <1>0 DEF Decided, DecisionSignal, Signal
<1>3. approval.decision = "PENDING" /\ wait.state = "ACTIVE" /\ now < wait.deadline
  BY DEF FirstDecision, ApprovalOK
<1>4. wait.deadline = wait.created + WaitLength /\ approval.expires = wait.deadline
  BY <1>3 DEF ApprovalOK
<1> DEFINE replies == Replies(wait, 1, inbox', now)
<1>5. wait.created <= now => replies # {}
  <2>1. matches_wait(1, DecisionSignal)
    BY DEF matches_wait, DecisionSignal
  <2> QED BY <1>0, <1>2, <2>1 DEF Replies
<1>6. ~ (wait.created <= now) => replies = {}
  BY <1>0, <1>2 DEF Replies
<1>7. CASE wait.created <= now
  <2>1. Over(wait, 1, inbox', now)
    BY <1>7, <1>5, <1>3 DEF Over
  <2>2. wait' = Settled(wait, 1, inbox', now)
    BY <2>1 DEF Decided
  <2>3. wait' \in WaitRow /\ wait'.state = "SATISFIED"
    <3>1. replies = {DecisionSignal}
      BY <1>2, <1>5, <1>7 DEF Replies
    <3>2. First(replies) = DecisionSignal /\ DecisionSignal.id \in 0..MaxSignal
      BY <1>2, <3>1, OnlyReply, Zenon
    <3>3. Settled(wait, 1, inbox', now)
            = [wait EXCEPT !.state = "SATISFIED", !.winner = DecisionSignal.id]
      BY <3>1, <3>2, Zenon DEF Settled
    <3> QED BY <1>0, <2>2, <3>2, <3>3, Zenon DEF WaitRow, WaitState
  <2>4. wait'.deadline = wait.deadline /\ wait'.created = wait.created
    BY <2>2, <1>0 DEF Settled, WaitRow
  <2> QED BY <1>1, <1>2, <1>3, <1>4, <2>3, <2>4
             DEF ApprovalOK, DecisionSettlesWait, FirstDecision
<1>8. CASE ~ (wait.created <= now)
  <2>1. ~ Over(wait, 1, inbox', now)
    BY <1>8, <1>6, <1>3, <1>0 DEF Over, WaitRow
  <2>2. wait' = wait
    BY <2>1 DEF Decided
  <2>3. \E s \in inbox' : s.received < wait.created
    BY <1>2, <1>8, <1>0
  <2> QED BY <1>0, <1>1, <1>2, <1>3, <1>4, <2>2, <2>3
             DEF ApprovalOK, DecisionSettlesWait, FirstDecision
<1> QED BY <1>7, <1>8

\* The Run a first decision leaves behind.
LEMMA WokenRow ==
  ASSUME run \in RunRow, NEW signals
  PROVE  Woken(signals) \in RunRow
BY RunRows DEF Woken, RunState

-----------------------------------------------------------------------------
(* One lemma per group of actions.                                         *)

\* Requesting the approval.
LEMMA RequestKeeps ==
  ASSUME RefundInv, NEW t \in Clock, request_refund_approval(t)
  PROVE  RefundInv'
<1> USE DEF RefundInv
<1>0. t \in Nat /\ t + WaitLength \in Nat
  BY InstantAssumption, WaitLengthAssumption DEF Clock, Instant
<1>1. approval.decision = "absent"
  BY DEF request_refund_approval, Exists
<1>2. run' \in RunRow /\ wait' \in WaitRow
  <2>1. NewRun \in RunRow
    BY LeaseAssumption, DelayAssumption DEF NewRun, RunRow, RunState
  <2>2. ApprovalWorker \in Owners /\ "WAITING_APPROVAL" \in RunState
    BY RefundOwners DEF RunState
  <2>3. Claimed(NewRun, ApprovalWorker) \in RunRow
    BY <2>1, <2>2, RunRows
  <2> QED BY <2>2, <2>3, <1>0, RunRows, NewWaitRow, ActivatedRow, Zenon
             DEF request_refund_approval
<1>3. /\ wait'.state = "ACTIVE"
      /\ wait'.deadline = t + WaitLength
      /\ wait'.created = t
  BY DEF request_refund_approval, Activated, NewWait
<1>4. /\ action' = [state |-> "RESERVED", token |-> 0]
      /\ approval' = [decision |-> "PENDING", by |-> Nobody, expires |-> t + WaitLength]
      /\ UNCHANGED <<inbox, provider, proc, daemon, now>>
  BY DEF request_refund_approval
<1>5. RefundTypeOK'
  BY <1>0, <1>2, <1>4 DEF RefundTypeOK, ActionState, Decision
<1>6. provider = "none" /\ \A d \in Dispatchers : proc[d].pc = "idle"
  BY <1>1 DEF LedgerOK, RefundIsApproved, DispatchOK
<1>7. DispatchOK'
  BY <1>4, <1>6 DEF DispatchOK
<1>8. LedgerOK'
  BY <1>4, <1>6 DEF LedgerOK, RefundIsApproved, RefundIsRecorded, ConfirmedCompletesRun
<1>9. ApprovalOK'
  <2>1. inbox' = {}
    BY <1>1, <1>4 DEF ApprovalOK
  <2> QED BY <1>3, <1>4, <2>1 DEF ApprovalOK, DecisionSettlesWait
<1> QED BY <1>5, <1>7, <1>8, <1>9

\* Deciding over the API, and rejecting into review.
LEMMA DecisionKeeps ==
  ASSUME RefundInv, NEW by \in Deciders, NEW decision \in {"APPROVED", "REJECTED"},
         decide_approval(by, decision) \/ reject_approval_to_review(by)
  PROVE  RefundInv'
<1> USE DEF RefundInv
<1>0. UNCHANGED <<action, provider, proc, daemon, now>> /\ run \in RunRow
  BY DEF decide_approval, reject_approval_to_review, RefundTypeOK
<1>1. CASE decide_approval(by, decision)
  <2>1. FirstDecision /\ Decided(by, decision) /\ run' = Woken(inbox')
    BY <1>1 DEF decide_approval
  <2>2. RefundTypeOK'
    BY <2>1, <1>0, DecideKeeps, WokenRow DEF RefundTypeOK
  <2> QED BY <2>1, <2>2, <1>0, DecideKeeps, SameLedger, SameDispatch, Zenon
<1>2. CASE RejectFirst(by)
  <2> DEFINE woken == Woken({DecisionSignal})
  <2>1. /\ FirstDecision /\ Decided(by, "REJECTED")
        /\ run' = Moved(Claimed(woken, ReviewWorker), "REVIEW", 0)
    BY <1>2 DEF RejectFirst
  <2>2. run' \in RunRow
    <3>1. woken \in RunRow
      BY <1>0, WokenRow
    <3> HIDE DEF woken
    <3>2. ReviewWorker \in Owners
      BY RefundOwners
    <3>3. Claimed(woken, ReviewWorker) \in RunRow
      BY <3>1, <3>2, RunRows, Zenon
    <3> QED BY <2>1, <3>3, RunRows DEF RunState
  <2>3. RefundTypeOK'
    BY <2>1, <2>2, <1>0, DecideKeeps DEF RefundTypeOK
  <2> QED BY <2>1, <2>3, <1>0, DecideKeeps, SameLedger, SameDispatch, Zenon
<1>3. CASE RejectReplay(by)
  <2>1. /\ UNCHANGED <<approval, wait, inbox>>
        /\ Claimable(run)
        /\ run' = Moved(Claimed(run, ReviewWorker), "REVIEW", 0)
    BY <1>3 DEF RejectReplay, CanClaim
  <2>2. run' \in RunRow
    <3>1. Claimed(run, ReviewWorker) \in RunRow
      BY <1>0, RunRows, RefundOwners
    <3> QED BY <2>1, <3>1, RunRows DEF RunState
  <2>3. run.state # "COMPLETED"
    BY <2>1 DEF Claimable, ExpiredLease
  <2>4. RefundTypeOK'
    BY <2>1, <2>2, <1>0 DEF RefundTypeOK
  <2> QED BY <2>1, <2>3, <2>4, <1>0, SameApproval, SameLedger, SameDispatch, Zenon
<1> QED BY <1>1, <1>2, <1>3 DEF reject_approval_to_review

\* Expiry of the request and timeout of the wait.
LEMMA ScanKeeps ==
  ASSUME RefundInv, expire \/ resolve_timeout
  PROVE  RefundInv'
<1> USE DEF RefundInv
<1>1. CASE expire
  <2>1. /\ approval.decision = "PENDING"
        /\ approval'.decision = "EXPIRED"
        /\ approval'.expires = approval.expires
        /\ approval' \in [decision : Decision, by : Deciders \cup {Nobody}, expires : Nat]
        /\ UNCHANGED <<run, wait, inbox, action, provider, proc, daemon, now>>
    BY <1>1 DEF expire, RefundTypeOK, Decision
  <2>2. RefundTypeOK'
    BY <2>1 DEF RefundTypeOK
  <2>3. ApprovalOK'
    BY <2>1 DEF ApprovalOK, DecisionSettlesWait
  <2> QED BY <2>1, <2>2, <2>3, SameLedger, SameDispatch
<1>2. CASE resolve_timeout
  <2>0. now \in Nat /\ wait \in WaitRow /\ inbox \subseteq Signal /\ run \in RunRow
    BY InstantAssumption DEF RefundTypeOK, Instant
  <2>1. /\ run.state = "WAITING_APPROVAL"
        /\ wait.state = "ACTIVE"
        /\ wait' = Settled(wait, 1, inbox, now)
        /\ run' = Moved(run, "READY", 0)
        /\ UNCHANGED <<inbox, approval, action, provider, proc, daemon, now>>
    BY <1>2 DEF resolve_timeout, Over
  <2>2. Replies(wait, 1, inbox, now) = {}
    <3> SUFFICES ASSUME NEW s \in Replies(wait, 1, inbox, now) PROVE FALSE
      OBVIOUS
    <3>1. s \in inbox /\ wait.created <= s.received
      BY DEF Replies
    <3>2. approval.decision \in {"APPROVED", "REJECTED"}
      BY <3>1 DEF ApprovalOK
    <3>3. PICK u \in inbox : u.received < wait.created
      BY <3>2, <2>1 DEF ApprovalOK, DecisionSettlesWait
    <3>4. s = u
      BY <3>1, <3>3 DEF ApprovalOK
    <3>5. s.received \in Nat /\ wait.created \in Nat
      BY <2>0, <3>1 DEF Signal, WaitRow
    <3> QED BY <3>1, <3>3, <3>4, <3>5
  <2>3. /\ wait' \in WaitRow
        /\ wait'.state = "TIMED_OUT"
        /\ wait'.created = wait.created
        /\ wait'.deadline = wait.deadline
    BY <2>0, <2>1, <2>2 DEF Settled, WaitRow, WaitState
  <2>4. run' \in RunRow
    BY <2>0, <2>1, RunRows DEF RunState
  <2>5. RefundTypeOK'
    BY <2>1, <2>3, <2>4 DEF RefundTypeOK
  <2>6. approval.decision # "absent"
    BY <2>1 DEF ApprovalOK, NoWait
  <2>7. ApprovalOK'
    BY <2>1, <2>3, <2>6 DEF ApprovalOK, DecisionSettlesWait
  <2> QED BY <2>1, <2>5, <2>7, SameLedger, SameDispatch
<1> QED BY <1>1, <1>2

\* A dispatcher moved on, nothing else.
LEMMA MovedProc ==
  ASSUME RefundInv, NEW d \in Dispatchers, NEW p \in Proc,
         proc' = [proc EXCEPT ![d] = p],
         p.pc # "idle" => approval'.decision = "APPROVED",
         p.pc \in {"requested", "answered", "raised"}
           => action'.state \notin {"absent", "RESERVED"},
         p.pc = "answered" /\ p.receipt = "CONFIRMED" => provider' = "done",
         approval.decision = "APPROVED" => approval'.decision = "APPROVED",
         action.state \notin {"absent", "RESERVED"}
           => action'.state \notin {"absent", "RESERVED"},
         provider = "done" => provider' = "done"
  PROVE  DispatchOK' /\ proc' \in [Dispatchers -> Proc]
BY DEF RefundInv, RefundTypeOK, DispatchOK

\* The first transaction of a dispatcher.
LEMMA ApproveKeeps ==
  ASSUME RefundInv, NEW d \in Dispatchers, NEW by \in Deciders, Approve(d, by)
  PROVE  RefundInv'
<1> USE DEF RefundInv
<1> DEFINE p == [proc[d] EXCEPT !.pc = IF action.state = "CONFIRMED" THEN "idle" ELSE "approved"]
<1>0. /\ proc' = [proc EXCEPT ![d] = p]
      /\ p \in Proc
      /\ p.pc \in {"idle", "approved"}
      /\ UNCHANGED <<action, provider, daemon, now>>
      /\ run \in RunRow
  <2>1. (IF action.state = "CONFIRMED" THEN "idle" ELSE "approved") \in {"idle", "approved"}
    OBVIOUS
  <2>2. proc[d] \in Proc
    BY DEF RefundTypeOK
  <2> QED BY <2>1, <2>2 DEF Approve, Goto, Proc, RefundTypeOK
<1> HIDE DEF p
<1>1. CASE FirstDecision /\ Decided(by, "APPROVED") /\ run' = Woken(inbox')
  <2>1. /\ ApprovalOK' /\ wait' \in WaitRow /\ inbox' \subseteq Signal
        /\ approval' \in [decision : Decision, by : Deciders \cup {Nobody}, expires : Nat]
        /\ approval'.decision = "APPROVED"
        /\ approval.decision = "PENDING"
        /\ run.state = "WAITING_APPROVAL"
    BY <1>1, DecideKeeps
  <2>2. DispatchOK' /\ proc' \in [Dispatchers -> Proc]
    BY <1>0, <2>1, MovedProc, Zenon
  <2>3. run' \in RunRow
    BY <1>0, <1>1, WokenRow
  <2>4. RefundTypeOK'
    BY <1>0, <2>1, <2>2, <2>3 DEF RefundTypeOK
  <2> QED BY <1>0, <2>1, <2>2, <2>4, SameLedger, Zenon
<1>2. CASE ReplayedDecision(by, "APPROVED") /\ UNCHANGED <<approval, inbox, wait, run>>
  <2>1. approval'.decision = "APPROVED"
    BY <1>2 DEF ReplayedDecision
  <2>2. DispatchOK' /\ proc' \in [Dispatchers -> Proc]
    BY <1>0, <1>2, <2>1, MovedProc, Zenon
  <2>3. RefundTypeOK'
    BY <1>0, <1>2, <2>2 DEF RefundTypeOK
  <2> QED BY <1>0, <1>2, <2>2, <2>3, SameLedger, SameApproval
<1> QED BY <1>1, <1>2, Zenon DEF Approve

\* The second transaction of a dispatcher.
LEMMA ClaimAndRequestKeeps ==
  ASSUME RefundInv, NEW d \in Dispatchers, ClaimAndRequest(d)
  PROVE  RefundInv'
<1> USE DEF RefundInv
<1> DEFINE p == [pc |-> "requested", token |-> run.token + 1, receipt |-> "none"]
<1>0. run \in RunRow /\ run.token + 1 \in Nat
  BY DEF RefundTypeOK, RunRow
<1>1. /\ proc[d].pc = "approved" /\ Exists /\ Claimable(run)
      /\ run' = Claimed(run, ProviderWorker)
      /\ Requested(run.token + 1)
      /\ proc' = [proc EXCEPT ![d] = p]
      /\ UNCHANGED <<wait, inbox, approval, provider, daemon, now>>
  BY DEF ClaimAndRequest, CanClaim
<1>2. approval.decision = "APPROVED"
  BY <1>1 DEF DispatchOK
<1>3. run' \in RunRow /\ run.state # "COMPLETED"
  BY <1>0, <1>1, RunRows, RefundOwners DEF Claimable, ExpiredLease
<1>4. action.state \notin {"CONFIRMED", "UNKNOWN", "FAILED"}
  BY <1>3 DEF LedgerOK, ConfirmedCompletesRun
<1>5. /\ action' \in [state : ActionState, token : Nat]
      /\ action.state = "RESERVED" => action'.state = "REQUESTED"
      /\ action.state # "RESERVED" => action' = action
  BY <1>0, <1>1 DEF Requested, RefundTypeOK, ActionState
<1>6. action'.state \notin {"absent", "RESERVED"}
  BY <1>2, <1>5 DEF LedgerOK
<1>7. p \in Proc /\ p.pc = "requested"
  BY <1>0 DEF Proc
<1> HIDE DEF p
<1>8. DispatchOK' /\ proc' \in [Dispatchers -> Proc]
  BY <1>1, <1>2, <1>6, <1>7, MovedProc, Zenon
<1>9. RefundTypeOK'
  BY <1>1, <1>3, <1>5, <1>8 DEF RefundTypeOK
<1>10. action'.state \notin {"CONFIRMED", "UNKNOWN", "FAILED"}
  BY <1>4, <1>5
<1>11. LedgerOK'
  BY <1>1, <1>2, <1>6, <1>10
     DEF LedgerOK, RefundIsApproved, RefundIsRecorded, ConfirmedCompletesRun
<1> QED BY <1>1, <1>8, <1>9, <1>11, SameApproval

\* The provider call.
LEMMA ProviderKeeps ==
  ASSUME RefundInv, NEW d \in Dispatchers, ProviderRequest(d)
  PROVE  RefundInv'
<1> USE DEF RefundInv
<1>1. /\ proc[d].pc = "requested"
      /\ UNCHANGED <<run, wait, inbox, approval, action, daemon, now>>
      /\ provider' \in {"none", "done", "refused"}
      /\ provider # "none" => provider' = provider
  BY DEF ProviderRequest, RefundTypeOK
<1>2. PICK receipt \in Receipt :
        /\ receipt = "CONFIRMED" => provider' = "done"
        /\ proc' = [proc EXCEPT ![d].pc = "answered", ![d].receipt = receipt]
  BY Zenon DEF ProviderRequest, Receipt
<1> DEFINE p == [proc[d] EXCEPT !.pc = "answered", !.receipt = receipt]
<1>3. proc[d] \in Proc
  BY DEF RefundTypeOK
<1>4. p \in Proc /\ p.pc = "answered" /\ p.receipt = receipt
  BY <1>3, Zenon DEF Proc
<1>5. proc' = [proc EXCEPT ![d] = p]
  BY <1>2, <1>3, Zenon DEF RefundTypeOK, Proc
<1>6. approval.decision = "APPROVED" /\ action.state \notin {"absent", "RESERVED"}
  BY <1>1, Zenon DEF DispatchOK
<1> HIDE DEF p
<1>7. DispatchOK' /\ proc' \in [Dispatchers -> Proc]
  BY <1>1, <1>2, <1>4, <1>5, <1>6, MovedProc, ZenonT(40)
<1>8. RefundTypeOK'
  BY <1>1, <1>7 DEF RefundTypeOK
<1>9. LedgerOK'
  BY <1>1, <1>6 DEF LedgerOK, RefundIsApproved, RefundIsRecorded, ConfirmedCompletesRun
<1> QED BY <1>1, <1>7, <1>8, <1>9, SameApproval, Zenon

\* The third transaction, and leaving.
LEMMA RecordKeeps ==
  ASSUME RefundInv, NEW d \in Dispatchers,
         ConfirmRefund(d) \/ RaiseUnconfirmed(d) \/ Leave(d)
  PROVE  RefundInv'
<1> USE DEF RefundInv
<1>0. IdleProc \in Proc /\ IdleProc.pc = "idle" /\ proc[d] \in Proc
  BY DEF IdleProc, Proc, RefundTypeOK
<1>1. CASE ConfirmRefund(d)
  <2>1. /\ proc[d].pc = "answered" /\ proc[d].receipt = "CONFIRMED"
        /\ HoldsLease(run, ProviderWorker, proc[d].token)
        /\ action' = IF action.state = "CONFIRMED" THEN action
                     ELSE [state |-> "CONFIRMED", token |-> proc[d].token]
        /\ run' = Moved(run, "COMPLETED", 0)
        /\ proc' = [proc EXCEPT ![d] = IdleProc]
        /\ UNCHANGED <<wait, inbox, approval, provider, daemon, now>>
    BY <1>1, Zenon DEF ConfirmRefund, Recordable
  <2>2. run' \in RunRow /\ run'.state = "COMPLETED" /\ run'.token = run.token
    BY <2>1, RunRows, Zenon DEF RefundTypeOK, RunState, Moved
  <2>3. run.token = proc[d].token /\ run.state = "RUNNING"
    BY <2>1, Zenon DEF HoldsLease
  <2>4. action.state # "CONFIRMED"
    BY <2>3 DEF LedgerOK, ConfirmedCompletesRun
  <2>5. action' = [state |-> "CONFIRMED", token |-> proc[d].token]
    BY <2>1, <2>4
  <2>6. approval.decision = "APPROVED" /\ provider = "done"
    BY <2>1 DEF DispatchOK
  <2>7. DispatchOK' /\ proc' \in [Dispatchers -> Proc]
    <3>1. action'.state = "CONFIRMED"
      BY <2>5
    <3>2. /\ action'.state \notin {"absent", "RESERVED"}
          /\ proc' = [proc EXCEPT ![d] = IdleProc]
          /\ approval' = approval /\ provider' = provider
      BY <3>1, <2>1
    <3> QED BY <1>0, <3>2, MovedProc, Zenon
  <2>8. RefundTypeOK'
    <3>1. action' \in [state : ActionState, token : Nat]
      BY ONLY <1>0, <2>5 DEF ActionState, Proc
    <3> QED
      BY <2>1, <2>2, <2>7, <3>1, Zenon DEF RefundTypeOK
  <2>9. LedgerOK'
    <3>1. action'.state = "CONFIRMED" /\ action'.token = run'.token
      BY <2>2, <2>3, <2>5, Zenon
    <3>2. approval'.decision = "APPROVED" /\ provider' = "done"
      BY <2>1, <2>6
    <3> QED BY <2>2, <3>1, <3>2, Zenon
      DEF LedgerOK, RefundIsApproved, RefundIsRecorded, ConfirmedCompletesRun
  <2> QED BY <2>1, <2>7, <2>8, <2>9, SameApproval
<1>2. CASE RaiseUnconfirmed(d)
  <2> DEFINE p == [proc[d] EXCEPT !.pc = "raised"]
  <2>1. /\ proc[d].pc = "answered"
        /\ proc' = [proc EXCEPT ![d] = p]
        /\ UNCHANGED <<run, wait, inbox, approval, action, provider, daemon, now>>
    BY <1>2, <1>0 DEF RaiseUnconfirmed, Goto, RefundTypeOK
  <2>2. p \in Proc /\ p.pc = "raised"
    BY <1>0 DEF Proc
  <2>3. approval.decision = "APPROVED" /\ action.state \notin {"absent", "RESERVED"}
    BY <2>1 DEF DispatchOK
  <2> HIDE DEF p
  <2>4. DispatchOK' /\ proc' \in [Dispatchers -> Proc]
    BY <2>1, <2>2, <2>3, MovedProc, Zenon
  <2>5. RefundTypeOK'
    BY <2>1, <2>4 DEF RefundTypeOK
  <2> QED BY <2>1, <2>4, <2>5, SameApproval, SameLedger
<1>3. CASE Leave(d)
  <2>1. /\ proc' = [proc EXCEPT ![d] = IdleProc]
        /\ UNCHANGED <<run, wait, inbox, approval, action, provider, daemon, now>>
    BY <1>3 DEF Leave
  <2>2. DispatchOK' /\ proc' \in [Dispatchers -> Proc]
    BY <1>0, <2>1, MovedProc, Zenon
  <2>3. RefundTypeOK'
    BY <2>1, <2>2 DEF RefundTypeOK
  <2> QED BY <2>1, <2>2, <2>3, SameApproval, SameLedger
<1> QED BY <1>1, <1>2, <1>3

\* The Worker daemons, the review and the clock move only the Run.
LEMMA RunOnlyKeeps ==
  ASSUME RefundInv, run' \in RunRow, daemon' \in [Daemons -> Nat], now' \in Instant,
         run.state # "COMPLETED" \/ UNCHANGED <<run.state, run.token>>,
         UNCHANGED <<wait, inbox, approval, action, provider, proc>>
  PROVE  RefundInv'
<1>1. RefundTypeOK'
  BY DEF RefundInv, RefundTypeOK
<1> QED BY <1>1, SameApproval, SameLedger, SameDispatch DEF RefundInv

\* Their steps.
LEMMA OthersKeep ==
  ASSUME RefundInv,
         \/ \E w \in Daemons : DaemonStep(w)
         \/ \E target \in {"READY", "CANCELLED"} : ResolveReview(target)
         \/ Tick
  PROVE  RefundInv'
<1>0. /\ run \in RunRow /\ daemon \in [Daemons -> Nat] /\ now \in Instant
      /\ run.token + 1 \in Nat
  BY DEF RefundInv, RefundTypeOK, RunRow
<1>1. ASSUME NEW w \in Daemons, DaemonClaim(w) PROVE RefundInv'
  <2>1. w \in Owners
    BY RefundOwners
  <2>2. run' \in RunRow
    BY <1>0, <1>1, <2>1, RunRows DEF DaemonClaim
  <2>3. run.state # "COMPLETED"
    BY <1>1 DEF DaemonClaim, CanClaim, RetryDue, Claimable, ExpiredLease
  <2> QED BY <1>0, <1>1, <2>2, <2>3, RunOnlyKeeps DEF DaemonClaim
<1>2. ASSUME NEW w \in Daemons, NEW target \in RunState, DaemonCommit(w, target)
      PROVE  RefundInv'
  <2>1. run' \in RunRow
    BY <1>0, <1>2, RunRows DEF DaemonCommit
  <2>2. run.state # "COMPLETED"
    BY <1>2 DEF DaemonCommit, HoldsLease
  <2> QED BY <1>0, <1>2, <2>1, <2>2, RunOnlyKeeps DEF DaemonCommit
<1>3. ASSUME NEW w \in Daemons, DaemonLeave(w) PROVE RefundInv'
  BY <1>0, <1>3, RunOnlyKeeps DEF DaemonLeave
<1>4. ASSUME NEW target \in RunState, ResolveReview(target) PROVE RefundInv'
  <2>1. run' \in RunRow /\ run.state # "COMPLETED"
    BY <1>0, <1>4, RunRows, Zenon DEF ResolveReview
  <2> QED BY <1>0, <1>4, <2>1, RunOnlyKeeps DEF ResolveReview
<1>5. CASE Tick
  <2>1. run' \in RunRow /\ run'.state = run.state
    BY <1>0, <1>5, RunRows DEF Tick
  <2>2. run'.token = run.token
    BY <1>0, <1>5 DEF Tick, RunAfter, RunRow
  <2>3. now' \in Instant
    BY <1>0, <1>5, InstantAssumption DEF Tick, Instant
  <2> QED BY <1>0, <1>5, <2>1, <2>2, <2>3, RunOnlyKeeps DEF Tick
<1> QED BY <1>1, <1>2, <1>3, <1>4, <1>5 DEF DaemonStep, RunState

\* The invariant is inductive.
THEOREM RefundInvariant == Spec => []RefundInv
<1>1. Init => RefundInv
  <2> SUFFICES ASSUME Init PROVE RefundInv
    OBVIOUS
  <2>1. RefundTypeOK
    <3>1. NewRun \in RunRow
      BY LeaseAssumption, DelayAssumption DEF NewRun, RunRow, RunState
    <3>2. NoWait \in WaitRow
      BY LeaseAssumption, DelayAssumption, SignalAssumption, InstantAssumption
         DEF NoWait, WaitRow, WaitState, Instant
    <3>3. IdleProc \in Proc /\ 0 \in Instant
      BY InstantAssumption DEF Proc, IdleProc, Instant
    <3>4. /\ [decision |-> "absent", by |-> Nobody, expires |-> 0]
                \in [decision : Decision, by : Deciders \cup {Nobody}, expires : Nat]
          /\ [state |-> "absent", token |-> 0] \in [state : ActionState, token : Nat]
      BY DEF Decision, ActionState
    <3> QED
      BY <3>1, <3>2, <3>3, <3>4, Zenon DEF Init, RefundTypeOK
  <2>2. DispatchOK
    BY Zenon DEF Init, DispatchOK, IdleProc
  <2>3. LedgerOK
    BY DEF Init, LedgerOK, RefundIsApproved, RefundIsRecorded, ConfirmedCompletesRun
  <2>4. ApprovalOK
    BY Zenon DEF Init, ApprovalOK, DecisionSettlesWait, NoWait
  <2> QED BY <2>1, <2>2, <2>3, <2>4 DEF RefundInv
<1>2. RefundInv /\ [Next]_vars => RefundInv'
  <2> SUFFICES ASSUME RefundInv, [Next]_vars PROVE RefundInv'
    OBVIOUS
  <2>1. ASSUME NEW d \in Dispatchers, DispatcherStep(d) PROVE RefundInv'
    BY <2>1, ApproveKeeps, ClaimAndRequestKeeps, ProviderKeeps, RecordKeeps
       DEF DispatcherStep
  <2>2. CASE UNCHANGED vars
    BY <2>2, Zenon DEF vars, RefundInv, RefundTypeOK, DispatchOK, LedgerOK, RefundIsApproved,
                RefundIsRecorded, ConfirmedCompletesRun, ApprovalOK, DecisionSettlesWait
  <2> QED BY <2>1, <2>2, RequestKeeps, DecisionKeeps, ScanKeeps, OthersKeep DEF Next
<1> QED BY <1>1, <1>2, PTL DEF Spec

\* Types of the refund's rows.
THEOREM RefundTypeCorrect == Spec => []RefundTypeOK
BY RefundInvariant, PTL DEF RefundInv

\* No refund without an approval that stands.
THEOREM RefundsApproved == Spec => []RefundIsApproved
BY RefundInvariant, PTL DEF RefundInv, LedgerOK

\* The ledger is never behind the provider, nor ahead of it.
THEOREM RefundsRecorded == Spec => []RefundIsRecorded
BY RefundInvariant, PTL DEF RefundInv, LedgerOK

\* A decision and its wait stand together.
THEOREM DecisionsSettle == Spec => []DecisionSettlesWait
BY RefundInvariant, PTL DEF RefundInv, ApprovalOK

\* A confirmation completes its Run under the newest fence.
THEOREM ConfirmationsComplete == Spec => []ConfirmedCompletesRun
BY RefundInvariant, PTL DEF RefundInv, LedgerOK

-----------------------------------------------------------------------------
(* Counting.                                                               *)

INSTANCE FiniteSetTheorems

\* The facts about counting hold.
LEMMA CountingHolds == Counting
<1>1. IsFiniteSet({}) /\ Cardinality({}) = 0 /\ Capacity \in Nat
  BY FS_EmptySet, SbConstants
<1>2. ASSUME NEW S, IsFiniteSet(S), NEW T \in SUBSET S
      PROVE  /\ IsFiniteSet(T)
             /\ Cardinality(S) <= Capacity => Cardinality(T) <= Capacity
  <2>1. IsFiniteSet(T) /\ Cardinality(T) <= Cardinality(S)
    BY <1>2, FS_Subset
  <2>2. Cardinality(S) \in Nat /\ Cardinality(T) \in Nat
    BY <1>2, <2>1, FS_CardinalityType
  <2> QED
    BY <1>1, <2>1, <2>2
<1>3. ASSUME NEW S, IsFiniteSet(S), NEW k, Cardinality(S) < Capacity
      PROVE  IsFiniteSet(S \cup {k}) /\ Cardinality(S \cup {k}) <= Capacity
  <2>1. /\ IsFiniteSet(S \cup {k}) /\ Cardinality(S) \in Nat
        /\ \/ Cardinality(S \cup {k}) = Cardinality(S)
           \/ Cardinality(S \cup {k}) = Cardinality(S) + 1
    BY <1>3, FS_AddElement, FS_CardinalityType
  <2> QED
    BY <1>1, <1>3, <2>1
<1> QED
  <2>1. IsFiniteSet({}) /\ Cardinality({}) <= Capacity
    BY <1>1
  <2> QED
    BY <2>1, <1>2, <1>3, Zenon DEF Counting

\* The sandboxes fit the capacity, each live one is in use or was orphaned by a
\* crash, and what an executor carries is what its own sandbox published.
THEOREM SandboxInvariant == SbSpec => []SbInv
<1>1. SbInit => SbInv
  BY SbInitially, CountingHolds
<1>2. SbInv /\ [SbNext]_sbVars => SbInv'
  BY SbStep, CountingHolds
<1> QED
  BY <1>1, <1>2, PTL DEF SbSpec

\* Live sandboxes fit the capacity, and one that is neither destroyed nor in
\* use belonged to a worker that crashed.
THEOREM CapacityIsHeld == SbSpec => []CapacityHeld
<1>1. SbInv => CapacityHeld
  <2> SUFFICES ASSUME SbInv PROVE CapacityHeld
    OBVIOUS
  <2>1. {k \in Keys : alloc[k].state \in {"READY", "RUNNING", "DESTROY_REQUESTED"}} = Live
    BY DEF SbInv, SbTypeOK, Allocation, States, Live
  <2> QED
    BY <2>1, Zenon DEF SbInv, CapacityHeld, LiveFit, LiveAreUsed, Used
<1> QED
  BY <1>1, SandboxInvariant, PTL

\* What a checkpoint records is stored, and came from a destroyed sandbox of
\* its step.
THEOREM RecordsAttributable == SbSpec => []RecordedIsAttributable
<1>1. SbInv => RecordedIsAttributable
  BY DEF SbInv
<1> QED
  BY <1>1, SandboxInvariant, PTL

=============================================================================
