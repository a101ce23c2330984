--------------------------- MODULE EvidenceProofs ---------------------------
(***************************************************************************)
(* Proofs about EvidenceBridge, for any number of facts, workers and       *)
(* exports and any page size: the ledger, the projections and the          *)
(* Evidence Graph never disagree, and the import cursor passes only what   *)
(* both stores hold.                                                       *)
(***************************************************************************)
EXTENDS EvidenceBridge, TLAPS

USE BridgeAssumption

\* A command of this revision can no longer be executed by EGM, nor is it the
\* one that was.
Stale(receipt, revision, E) ==
  IF receipt.at # 0 THEN receipt.expected # revision ELSE revision < E.revision

InBoth(f, L, P) == L[f].present /\ P[f].completed # 0

\* The command a worker carries, and what EGM holds of it.
CommandOf(q, P, R) == IF q.job = "revoke" THEN R[q.fact] ELSE P[q.fact]
ReceiptOf(q, E) == IF q.job = "revoke" THEN E.withdrawn[q.fact] ELSE E.evidence[q.fact]

Carrying == {"send", "reread", "rebase", "complete"}

\* What the variables of a worker still say about the stores.
ProcOK(q, L, P, R, E) ==
  /\ q.pc = "idle" => q = IdleProc
  /\ q.pc # "idle" => q.fact \in Fact
  /\ q.revision <= E.revision
  /\ q.pc # "idle" /\ q.job = "revoke" =>
       q.pc \in {"read", "reserve"} \cup Carrying /\ P[q.fact].completed # 0
  /\ q.pc \notin {"idle", "persist"} /\ q.job # "revoke" => L[q.fact].present
  /\ q.pc # "idle" /\ q.job = "import" =>
       /\ q.from < q.fact /\ q.fact <= PageEnd(q.from)
       /\ \A f \in (q.from + 1)..(q.fact - 1) : InBoth(f, L, P)
  /\ q.pc = "advance" =>
       q.job = "import" /\ q.fact = PageEnd(q.from) /\ InBoth(q.fact, L, P)
  /\ q.pc \in Carrying => CommandOf(q, P, R).present
  /\ q.pc = "send" =>
       q.revision = CommandOf(q, P, R).expected \/ Stale(ReceiptOf(q, E), q.revision, E)
  /\ q.pc \in {"reread", "rebase"} => Stale(ReceiptOf(q, E), q.revision, E)
  /\ q.pc = "rebase" => q.fresh <= E.revision
  /\ q.pc = "complete" =>
       ReceiptOf(q, E) = [expected |-> q.revision, at |-> q.fresh] /\ q.fresh # 0

\* Every stored command was read from the case.
CommandsAreOld ==
  \A f \in Fact : projections[f].expected <= egm.revision
                  /\ revocations[f].expected <= egm.revision

TypedStores ==
  /\ ledger \in [Fact -> Row]
  /\ projections \in [Fact -> Command] /\ revocations \in [Fact -> Command]
  /\ binding \in BOOLEAN /\ cursor \in 0..Facts /\ egm \in EgmCase
  /\ \A f \in Fact : ledger[f].revoked \/ projections[f].present => ledger[f].present

StoresOK == TypedStores /\ StoresAgree /\ CursorCovers /\ CommandsAreOld

BridgeInv ==
  /\ StoresOK
  /\ export \in [Workers -> Exports] /\ procs \in [Workers -> Proc]
  /\ \A p \in Workers : ProcOK(procs[p], ledger, projections, revocations, egm)

-----------------------------------------------------------------------------
(* How the stores move on, and what that leaves of a worker's knowledge.   *)

CommandEvolves(c, d, r, s) ==
  /\ c.present => d.present
  /\ c.completed # 0 => d.completed # 0
  /\ c.present => d.expected = c.expected \/ Stale(r, c.expected, egm)
  /\ r.at # 0 => s = r
  /\ r.at = 0 /\ s.at # 0 => s.expected = egm.revision

Evolves ==
  /\ egm.revision <= egm'.revision
  /\ \A f \in Fact :
       /\ ledger[f].present => ledger'[f].present
       /\ CommandEvolves(projections[f], projections'[f], egm.evidence[f], egm'.evidence[f])
       /\ CommandEvolves(revocations[f], revocations'[f], egm.withdrawn[f], egm'.withdrawn[f])

\* A dead revision stays dead.
LEMMA StaleStays ==
  ASSUME NEW r \in Receipt, NEW s \in Receipt, NEW rev \in Nat,
         egm \in EgmCase, egm' \in EgmCase, egm.revision <= egm'.revision,
         r.at # 0 => s = r, r.at = 0 /\ s.at # 0 => s.expected = egm.revision,
         Stale(r, rev, egm)
  PROVE  Stale(s, rev, egm')
BY DEF Stale, Receipt, EgmCase

\* What a worker knows of a command survives the evolution of its row.
LEMMA CommandStays ==
  ASSUME NEW c \in Command, NEW d \in Command, NEW r \in Receipt, NEW s \in Receipt,
         NEW rev \in Nat, egm \in EgmCase, egm' \in EgmCase,
         egm.revision <= egm'.revision, CommandEvolves(c, d, r, s), c.present
  PROVE  /\ d.present
         /\ rev = c.expected \/ Stale(r, rev, egm) => rev = d.expected \/ Stale(s, rev, egm')
         /\ Stale(r, rev, egm) => Stale(s, rev, egm')
         /\ r.at # 0 => s = r
<1>1. Stale(r, rev, egm) => Stale(s, rev, egm')
  BY StaleStays DEF CommandEvolves
<1> QED
  BY <1>1 DEF CommandEvolves

\* A worker's knowledge survives what other workers do to the stores.
LEMMA ProcStays ==
  ASSUME TypedStores, TypedStores', Evolves, NEW q \in Proc,
         ProcOK(q, ledger, projections, revocations, egm)
  PROVE  ProcOK(q, ledger', projections', revocations', egm')
<1>0. /\ egm \in EgmCase /\ egm' \in EgmCase /\ egm.revision \in Nat /\ egm'.revision \in Nat
      /\ q.revision \in Nat /\ q.fresh \in Nat
  BY DEF TypedStores, EgmCase, Proc
<1>1. egm.revision <= egm'.revision
      /\ \A f \in Fact : /\ ledger[f].present => ledger'[f].present
                         /\ projections[f].completed # 0 => projections'[f].completed # 0
  BY DEF Evolves, CommandEvolves
<1> DEFINE c == CommandOf(q, projections, revocations)
           d == CommandOf(q, projections', revocations')
           r == ReceiptOf(q, egm)
           s == ReceiptOf(q, egm')
<1>2. ASSUME q.pc \in Carrying
      PROVE  /\ d.present
             /\ q.revision = c.expected \/ Stale(r, q.revision, egm)
                  => q.revision = d.expected \/ Stale(s, q.revision, egm')
             /\ Stale(r, q.revision, egm) => Stale(s, q.revision, egm')
             /\ r.at # 0 => s = r
  <2>1. q.fact \in Fact /\ c.present
    BY <1>2 DEF ProcOK, Carrying
  <2>2. c \in Command /\ d \in Command /\ r \in Receipt /\ s \in Receipt
    BY <2>1 DEF TypedStores, EgmCase, CommandOf, ReceiptOf
  <2>3. CommandEvolves(c, d, r, s)
    BY <2>1, Zenon DEF Evolves, CommandOf, ReceiptOf
  <2> HIDE DEF c, d, r, s
  <2> QED
    BY <1>0, <1>1, <2>1, <2>2, <2>3, CommandStays
<1>3. /\ q.pc \in Carrying => d.present
      /\ q.pc = "send" => q.revision = d.expected \/ Stale(s, q.revision, egm')
      /\ q.pc \in {"reread", "rebase"} => Stale(s, q.revision, egm')
  BY <1>2, Zenon DEF ProcOK, Carrying
<1>4. q.pc = "complete" => s = [expected |-> q.revision, at |-> q.fresh] /\ q.fresh # 0
  <2>1. q.pc = "complete" => r.at # 0 /\ s = r
    <3> HIDE DEF s
    <3> QED BY <1>2 DEF ProcOK, Carrying
  <2> QED BY <2>1 DEF ProcOK
<1>5. q.revision <= egm'.revision /\ (q.pc = "rebase" => q.fresh <= egm'.revision)
  <2>1. q.revision <= egm.revision /\ (q.pc = "rebase" => q.fresh <= egm.revision)
    BY Zenon DEF ProcOK
  <2> QED BY <1>0, <1>1, <2>1
<1>6. \A f \in Fact : InBoth(f, ledger, projections) => InBoth(f, ledger', projections')
  BY <1>1 DEF InBoth
<1>7. /\ q.pc # "idle" /\ q.job = "import" =>
           /\ q.from < q.fact /\ q.fact <= PageEnd(q.from)
           /\ \A f \in (q.from + 1)..(q.fact - 1) : InBoth(f, ledger', projections')
      /\ q.pc = "advance" =>
           q.job = "import" /\ q.fact = PageEnd(q.from) /\ InBoth(q.fact, ledger', projections')
  <2>1. (q.from + 1)..(q.fact - 1) \subseteq Fact
    BY DEF Fact, Proc
  <2> QED
    BY <1>6, <2>1 DEF ProcOK
<1>8. /\ q.pc # "idle" /\ q.job = "revoke" =>
           q.pc \in {"read", "reserve"} \cup Carrying /\ projections'[q.fact].completed # 0
      /\ q.pc \notin {"idle", "persist"} /\ q.job # "revoke" => ledger'[q.fact].present
  BY <1>1 DEF ProcOK
<1> QED
  BY <1>3, <1>4, <1>5, <1>7, <1>8, Zenon DEF ProcOK

\* One worker moves on.
LEMMA WorkerMoves ==
  ASSUME BridgeInv, StoresOK', Evolves, UNCHANGED export,
         NEW p \in Workers, NEW n \in Proc, procs' = [procs EXCEPT ![p] = n],
         ProcOK(n, ledger', projections', revocations', egm')
  PROVE  BridgeInv'
<1>1. procs' \in [Workers -> Proc] /\ export' \in [Workers -> Exports]
  BY DEF BridgeInv
<1>2. ASSUME NEW o \in Workers PROVE ProcOK(procs'[o], ledger', projections', revocations', egm')
  <2>1. CASE o = p
    BY <2>1, Zenon DEF BridgeInv
  <2>2. CASE o # p
    <3>1. procs'[o] = procs[o] /\ procs[o] \in Proc
      BY <2>2 DEF BridgeInv
    <3>2. ProcOK(procs[o], ledger, projections, revocations, egm) /\ TypedStores /\ TypedStores'
      BY Zenon DEF BridgeInv, StoresOK
    <3> QED
      BY <3>1, <3>2, ProcStays, Zenon
  <2> QED BY <2>1, <2>2
<1> QED
  BY <1>1, <1>2, Zenon DEF BridgeInv

\* A step that leaves the stores alone.
LEMMA StoresStay ==
  ASSUME StoresOK, UNCHANGED <<stores, egm>>
  PROVE  StoresOK' /\ Evolves
<1>1. /\ ledger' = ledger /\ projections' = projections /\ revocations' = revocations
      /\ binding' = binding /\ cursor' = cursor /\ egm' = egm
  BY DEF stores
<1>2. StoresOK'
  BY <1>1, ZenonT(40) DEF StoresOK, TypedStores, StoresAgree, CursorCovers, CommandsAreOld
<1>3. egm.revision <= egm.revision
  BY DEF StoresOK, TypedStores, EgmCase
<1>5. ASSUME NEW c, NEW r PROVE CommandEvolves(c, c, r, r)
  BY Zenon DEF CommandEvolves
<1> QED
  BY <1>1, <1>2, <1>3, <1>5, ZenonT(40) DEF Evolves

\* A worker moves on without touching the stores.
LEMMA WorkerPonders ==
  ASSUME BridgeInv, UNCHANGED <<stores, egm, export>>,
         NEW p \in Workers, NEW n \in Proc, procs' = [procs EXCEPT ![p] = n],
         ProcOK(n, ledger, projections, revocations, egm)
  PROVE  BridgeInv'
<1>1. /\ ledger' = ledger /\ projections' = projections /\ revocations' = revocations
      /\ egm' = egm /\ export' = export /\ UNCHANGED <<stores, egm>>
  BY DEF stores
<1>2. StoresOK
  BY DEF BridgeInv
<1>3. ProcOK(n, ledger', projections', revocations', egm')
  BY <1>1
<1> QED
  BY <1>1, <1>2, <1>3, StoresStay, WorkerMoves, Zenon

-----------------------------------------------------------------------------
(* Where a worker goes next, and what it then knows.                       *)

Moved(p, L, P, R, E) ==
  \E n \in Proc : procs' = [procs EXCEPT ![p] = n] /\ ProcOK(n, L, P, R, E)

\* A step of one worker, from what it does to the stores and to the worker.
LEMMA MovedKeeps ==
  ASSUME BridgeInv, StoresOK', Evolves, UNCHANGED export, NEW p \in Workers,
         Moved(p, ledger', projections', revocations', egm')
  PROVE  BridgeInv'
BY WorkerMoves, Zenon DEF Moved

\* A step that only moves its worker.
LEMMA PonderKeeps ==
  ASSUME BridgeInv, UNCHANGED <<stores, egm, export>>, NEW p \in Workers,
         Moved(p, ledger, projections, revocations, egm)
  PROVE  BridgeInv'
BY WorkerPonders, Zenon DEF Moved

\* A worker between jobs.
LEMMA IdleIsProc == IdleProc \in Proc /\ IdleProc.pc = "idle" /\ IdleProc.job = "lookup"
                    /\ IdleProc.revision = 0
BY DEF IdleProc, Proc

\* A worker that fails returns to idle.
LEMMA Fails ==
  ASSUME NEW p \in Workers, NEW L, NEW P, NEW R, NEW E, E.revision \in Nat, Fail(p)
  PROVE  Moved(p, L, P, R, E)
<1>1. 0 <= E.revision
  OBVIOUS
<1>2. ProcOK(IdleProc, L, P, R, E)
  BY <1>1, IdleIsProc DEF ProcOK, Carrying
<1> QED
  BY <1>2, IdleIsProc, Zenon DEF Fail, Goto, Moved

\* A page is not empty and stays in the export.
LEMMA PageEndFacts ==
  ASSUME NEW c \in 0..Facts
  PROVE  PageEnd(c) \in 0..Facts /\ (c < Facts => c < PageEnd(c)) /\ c <= PageEnd(c)
BY DEF PageEnd

\* The next message of a page.
LEMMA ImportsNext ==
  ASSUME NEW p \in Workers, NEW L, NEW P, NEW R, NEW E, E.revision \in Nat,
         NEW c \in 0..Facts, NEW f \in Fact, c < f, f <= PageEnd(c),
         \A g \in Fact : c < g /\ g < f => InBoth(g, L, P),
         Goto(p, Importing(f, c))
  PROVE  Moved(p, L, P, R, E)
<1> DEFINE n == Importing(f, c)
<1>1. /\ n \in Proc /\ n.pc = "persist" /\ n.job = "import" /\ n.fact = f
      /\ n.from = c /\ n.revision = 0
  <2>1. IdleProc \in Proc /\ IdleProc.revision = 0 /\ f \in 0..Facts
    BY IdleIsProc DEF Fact
  <2> QED BY <2>1, Zenon DEF Proc, Importing
<1>2. \A g \in (c + 1)..(f - 1) : InBoth(g, L, P)
  BY DEF Fact
<1> HIDE DEF n
<1>3. 0 <= E.revision
  OBVIOUS
<1>4. ProcOK(n, L, P, R, E)
  BY <1>1, <1>2, <1>3 DEF ProcOK, Carrying
<1> QED
  BY <1>1, <1>4, Zenon DEF Moved, Goto, n

\* Moving on to another step of the job leaves the rest alone.
LEMMA StepTo ==
  ASSUME NEW q \in Proc, NEW x \in {"bind", "putnode", "load", "read", "reread", "advance"}
  PROVE  LET n == [q EXCEPT !.pc = x] IN
         /\ n \in Proc /\ n.pc = x /\ n.job = q.job /\ n.fact = q.fact /\ n.from = q.from
         /\ n.revision = q.revision /\ n.fresh = q.fresh
BY DEF Proc

\* FactDone: the worker has seen the receipt of its command.
LEMMA FactDoneNext ==
  ASSUME procs \in [Workers -> Proc], NEW p \in Workers,
         NEW L, NEW P, NEW R, NEW E, E.revision \in Nat,
         procs[p].pc # "idle", ProcOK(procs[p], L, P, R, E),
         procs[p].job = "import" => InBoth(procs[p].fact, L, P),
         FactDone(p)
  PROVE  Moved(p, L, P, R, E)
<1> DEFINE q == procs[p]
<1>1. q \in Proc /\ q.fact \in Fact /\ q.from \in 0..Facts /\ q.revision <= E.revision
  BY DEF ProcOK, Proc
<1>0. q.job = "import" => InBoth(q.fact, L, P)
  OBVIOUS
<1>2. CASE q.job = "import" /\ q.fact < PageEnd(q.from)
  <2> DEFINE f == q.fact + 1
             c == q.from
  <2>1. Goto(p, Importing(f, c))
    BY <1>2, Zenon DEF FactDone
  <2>2. f \in Fact /\ c \in 0..Facts /\ c < f /\ f <= PageEnd(c)
    BY <1>1, <1>2, PageEndFacts DEF ProcOK, Fact
  <2>3. \A g \in (c + 1)..(q.fact - 1) : InBoth(g, L, P)
    BY <1>2, Zenon DEF ProcOK
  <2>4. \A g \in Fact : c < g /\ g < f => InBoth(g, L, P)
    <3> SUFFICES ASSUME NEW g \in Fact, c < g, g < f PROVE InBoth(g, L, P)
      OBVIOUS
    <3>1. g \in (c + 1)..(q.fact - 1) \/ g = q.fact
      BY <1>1 DEF Fact
    <3> QED
      BY <1>0, <1>2, <2>3, <3>1, Zenon
  <2> HIDE DEF f, c
  <2> QED
    BY <2>1, <2>2, <2>4, ImportsNext
<1>3. CASE q.job = "import" /\ ~ (q.fact < PageEnd(q.from))
  <2> DEFINE n == [q EXCEPT !.pc = "advance"]
  <2>1. procs' = [procs EXCEPT ![p] = n]
    BY <1>3, Zenon DEF FactDone, Goto
  <2>2. /\ n \in Proc /\ n.pc = "advance" /\ n.job = q.job /\ n.fact = q.fact
        /\ n.from = q.from /\ n.revision = q.revision
    BY <1>1, StepTo, ZenonT(40)
  <2> HIDE DEF n
  <2>3. q.fact = PageEnd(q.from)
    BY <1>1, <1>3, PageEndFacts DEF ProcOK, Fact
  <2>4. ProcOK(n, L, P, R, E)
    BY <1>1, <1>3, <2>2, <2>3 DEF ProcOK, Carrying, InBoth
  <2> QED
    BY <2>1, <2>2, <2>4, Zenon DEF Moved
<1>4. CASE q.job # "import"
  <2>1. Fail(p)
    BY <1>4, Zenon DEF FactDone, Fail
  <2> QED
    BY <2>1, Fails
<1> QED
  BY <1>2, <1>3, <1>4

\* Resume: a stored command is sent as it stands.
LEMMA ResumeNext ==
  ASSUME procs \in [Workers -> Proc], NEW p \in Workers,
         NEW L, NEW P, NEW R, NEW E, E.revision \in Nat,
         procs[p].pc \in {"load", "reserve"}, ProcOK(procs[p], L, P, R, E),
         NEW c \in Command, c = CommandOf(procs[p], P, R), c.present,
         c.expected <= E.revision, Resume(p, c)
  PROVE  Moved(p, L, P, R, E)
<1> DEFINE q == procs[p]
<1>1. q \in Proc /\ q.fact \in Fact /\ q.pc # "idle"
  BY DEF ProcOK
<1>2. CASE c.completed # 0
  <2>1. q.job = "import" => InBoth(q.fact, L, P)
    BY <1>2 DEF ProcOK, CommandOf, InBoth
  <2> QED
    BY <1>1, <1>2, <2>1, FactDoneNext DEF Resume
<1>3. CASE c.completed = 0
  <2> DEFINE n == [q EXCEPT !.pc = "send", !.revision = c.expected]
  <2>1. procs' = [procs EXCEPT ![p] = n]
    BY <1>3 DEF Resume, Goto
  <2>2. /\ n \in Proc /\ n.pc = "send" /\ n.job = q.job /\ n.fact = q.fact
        /\ n.from = q.from /\ n.revision = c.expected
    BY <1>1, Zenon DEF Proc, Command
  <2> HIDE DEF n
  <2>3. CommandOf(n, P, R) = c
    BY <2>2 DEF CommandOf
  <2>4. ProcOK(n, L, P, R, E)
    BY <1>1, <2>2, <2>3 DEF ProcOK, Carrying
  <2> QED
    BY <2>1, <2>2, <2>4, Zenon DEF Moved
<1> QED
  BY <1>2, <1>3

\* Conflict: EGM refused the command, which is stale.
LEMMA ConflictNext ==
  ASSUME procs \in [Workers -> Proc], NEW p \in Workers,
         NEW L, NEW P, NEW R, NEW E, E.revision \in Nat,
         procs[p].pc = "send", ProcOK(procs[p], L, P, R, E),
         Stale(ReceiptOf(procs[p], E), procs[p].revision, E), Conflict(p)
  PROVE  Moved(p, L, P, R, E)
<1> DEFINE q == procs[p]
           n == [q EXCEPT !.pc = "reread"]
<1>1. q \in Proc /\ q.pc = "send"
  OBVIOUS
<1>2. CASE q.again
  BY <1>2, Fails DEF Conflict
<1>3. CASE ~ q.again
  <2>1. procs' = [procs EXCEPT ![p] = n]
    BY <1>3 DEF Conflict, Goto
  <2>2. /\ n \in Proc /\ n.pc = "reread" /\ n.job = q.job /\ n.fact = q.fact
        /\ n.from = q.from /\ n.revision = q.revision
    BY <1>1, StepTo, ZenonT(40)
  <2> HIDE DEF n
  <2>3. CommandOf(n, P, R) = CommandOf(q, P, R) /\ ReceiptOf(n, E) = ReceiptOf(q, E)
    BY <2>2, Zenon DEF CommandOf, ReceiptOf
  <2>4. ProcOK(n, L, P, R, E)
    BY <1>1, <2>2, <2>3 DEF ProcOK, Carrying
  <2> QED
    BY <2>1, <2>2, <2>4, Zenon DEF Moved
<1> QED
  BY <1>2, <1>3

\* AfterRebase: the command read back decides.
LEMMA RebaseNext ==
  ASSUME procs \in [Workers -> Proc], NEW p \in Workers,
         NEW L, NEW P, NEW R, NEW E, E.revision \in Nat,
         procs[p].pc = "rebase", ProcOK(procs[p], L, P, R, E),
         NEW c \in Command, c = CommandOf(procs[p], P, R), AfterRebase(p, c)
  PROVE  Moved(p, L, P, R, E)
<1> DEFINE q == procs[p]
<1>1. q \in Proc /\ q.fact \in Fact /\ q.pc = "rebase"
  BY DEF ProcOK
<1>2. CASE c.completed # 0
  <2>1. q.job = "import" => InBoth(q.fact, L, P)
    BY <1>1, <1>2 DEF ProcOK, CommandOf, InBoth
  <2>2. FactDone(p)
    BY <1>2, Zenon DEF AfterRebase
  <2> QED
    BY <1>1, <2>1, <2>2, FactDoneNext
<1>3. CASE c.completed = 0 /\ c.expected # q.fresh
  <2>1. Fail(p)
    BY <1>3 DEF AfterRebase
  <2> QED
    BY <2>1, Fails
<1>4. CASE c.completed = 0 /\ c.expected = q.fresh
  <2> DEFINE n == [q EXCEPT !.pc = "send", !.revision = q.fresh, !.again = TRUE]
  <2>1. procs' = [procs EXCEPT ![p] = n]
    BY <1>4 DEF AfterRebase, Goto
  <2>2. /\ n \in Proc /\ n.pc = "send" /\ n.job = q.job /\ n.fact = q.fact
        /\ n.from = q.from /\ n.revision = q.fresh
    BY <1>1, Zenon DEF Proc
  <2> HIDE DEF n
  <2>3. CommandOf(n, P, R) = CommandOf(q, P, R)
    BY <2>2, Zenon DEF CommandOf
  <2>4. ProcOK(n, L, P, R, E)
    BY <1>1, <1>4, <2>2, <2>3 DEF ProcOK, Carrying
  <2> QED
    BY <2>1, <2>2, <2>4, Zenon DEF Moved
<1> QED
  BY <1>2, <1>3, <1>4

\* AfterComplete: the receipt is in the table.
LEMMA CompleteNext ==
  ASSUME procs \in [Workers -> Proc], NEW p \in Workers,
         NEW L, NEW P, NEW R, NEW E, E.revision \in Nat,
         procs[p].pc = "complete", ProcOK(procs[p], L, P, R, E),
         NEW c \in Command, c = CommandOf(procs[p], P, R), AfterComplete(p, c)
  PROVE  Moved(p, L, P, R, E)
<1> DEFINE q == procs[p]
<1>1. q \in Proc /\ q.pc = "complete" /\ q.fresh # 0
  BY DEF ProcOK
<1>2. CASE c.expected = q.revision /\ c.completed = q.fresh
  <2>1. q.job = "import" => InBoth(q.fact, L, P)
    BY <1>1, <1>2 DEF ProcOK, CommandOf, InBoth
  <2>2. FactDone(p)
    BY <1>2, Zenon DEF AfterComplete
  <2> QED
    BY <1>1, <2>1, <2>2, FactDoneNext
<1>3. CASE ~ (c.expected = q.revision /\ c.completed = q.fresh)
  <2>1. Fail(p)
    BY <1>3, Zenon DEF AfterComplete
  <2> QED
    BY <2>1, Fails
<1> QED
  BY <1>2, <1>3

-----------------------------------------------------------------------------
(* The actions that leave the stores alone.                                *)

\* What the invariant says of the worker that moves.
LEMMA AtWork ==
  ASSUME BridgeInv, NEW p \in Workers
  PROVE  /\ procs \in [Workers -> Proc] /\ procs[p] \in Proc
         /\ ProcOK(procs[p], ledger, projections, revocations, egm)
         /\ procs[p].pc # "idle" => procs[p].fact \in Fact
         /\ StoresOK /\ TypedStores /\ egm.revision \in Nat
<1>1. /\ procs \in [Workers -> Proc] /\ StoresOK /\ TypedStores
      /\ ProcOK(procs[p], ledger, projections, revocations, egm)
  BY Zenon DEF BridgeInv, StoresOK
<1>2. procs[p] \in Proc /\ egm.revision \in Nat
  BY <1>1 DEF TypedStores, EgmCase
<1> QED
  BY <1>1, <1>2, Zenon DEF ProcOK

\* A worker stops.
LEMMA StopKeeps ==
  ASSUME BridgeInv, NEW p \in Workers, Stop(p)
  PROVE  BridgeInv'
<1>1. Fail(p) /\ UNCHANGED <<stores, egm, export>>
  BY DEF Stop
<1> QED
  BY <1>1, AtWork, Fails, PonderKeeps, Zenon

\* A lookup of a fact begins.
LEMMA StartLookupKeeps ==
  ASSUME BridgeInv, NEW p \in Workers, NEW f \in Fact, StartLookup(p, f)
  PROVE  BridgeInv'
<1> DEFINE n == [IdleProc EXCEPT !.pc = "persist", !.fact = f]
<1>1. procs' = [procs EXCEPT ![p] = n] /\ UNCHANGED <<stores, egm, export>>
  BY DEF StartLookup, Goto
<1>2. /\ n \in Proc /\ n.pc = "persist" /\ n.job = "lookup" /\ n.fact = f
      /\ n.revision = 0
  <2>1. /\ IdleProc \in Proc /\ IdleProc.revision = 0 /\ IdleProc.job = "lookup"
        /\ f \in 0..Facts
    BY IdleIsProc DEF Fact
  <2> QED BY <2>1, Zenon DEF Proc
<1> HIDE DEF n
<1>3. 0 <= egm.revision
  BY AtWork
<1>4. ProcOK(n, ledger, projections, revocations, egm)
  BY <1>2, <1>3 DEF ProcOK, Carrying
<1> QED
  BY <1>1, <1>2, <1>4, WorkerPonders, Zenon

\* An import begins at the cursor.
LEMMA StartImportKeeps ==
  ASSUME BridgeInv, NEW p \in Workers, StartImport(p)
  PROVE  BridgeInv'
<1> DEFINE f == cursor + 1
<1>1. UNCHANGED <<stores, egm, export>> /\ Goto(p, Importing(f, cursor)) /\ cursor < Facts
  BY DEF StartImport
<1>2. cursor \in 0..Facts /\ egm.revision \in Nat
  BY AtWork DEF TypedStores
<1>3. f \in Fact /\ cursor < f /\ f <= PageEnd(cursor)
      /\ \A g \in Fact : cursor < g /\ g < f => FALSE
  BY <1>1, <1>2, PageEndFacts DEF Fact
<1> HIDE DEF f
<1>4. Moved(p, ledger, projections, revocations, egm)
  BY <1>1, <1>2, <1>3, ImportsNext
<1> QED
  BY <1>1, <1>4, PonderKeeps

\* The stored projection is loaded.
LEMMA LoadKeeps ==
  ASSUME BridgeInv, NEW p \in Workers, LoadProjection(p)
  PROVE  BridgeInv'
<1> DEFINE q == procs[p]
           c == projections[q.fact]
<1>1. q.pc = "load" /\ UNCHANGED <<stores, egm, export>>
  BY DEF LoadProjection
<1>2. /\ q \in Proc /\ q.fact \in Fact /\ egm.revision \in Nat /\ q.job # "revoke"
      /\ ProcOK(q, ledger, projections, revocations, egm)
  BY <1>1, AtWork, Zenon DEF ProcOK, Carrying
<1>3. CASE c.present
  <2>1. c \in Command /\ c.expected <= egm.revision
    BY <1>2, AtWork DEF TypedStores, StoresOK, CommandsAreOld
  <2>2. c = CommandOf(q, projections, revocations) /\ Resume(p, c)
    BY <1>2, <1>3, Zenon DEF CommandOf, LoadProjection
  <2> HIDE DEF c
  <2>3. Moved(p, ledger, projections, revocations, egm)
    BY <1>1, <1>2, <1>3, <2>1, <2>2, AtWork, ResumeNext
  <2> QED
    BY <1>1, <2>3, PonderKeeps
<1>4. CASE ~ c.present
  <2> DEFINE n == [q EXCEPT !.pc = "read"]
  <2>1. procs' = [procs EXCEPT ![p] = n]
    BY <1>4, Zenon DEF LoadProjection, Goto
  <2>2. /\ n \in Proc /\ n.pc = "read" /\ n.job = q.job /\ n.fact = q.fact
        /\ n.from = q.from /\ n.revision = q.revision
    BY <1>2, StepTo, ZenonT(40)
  <2> HIDE DEF n
  <2>3. ProcOK(n, ledger, projections, revocations, egm)
    BY <1>1, <1>2, <2>2 DEF ProcOK, Carrying
  <2> QED
    BY <1>1, <2>1, <2>2, <2>3, WorkerPonders, Zenon
<1> QED
  BY <1>3, <1>4

\* A revocation begins.
LEMMA StartRevokeKeeps ==
  ASSUME BridgeInv, NEW p \in Workers, NEW f \in Fact, StartRevoke(p, f)
  PROVE  BridgeInv'
<1> DEFINE i == [IdleProc EXCEPT !.job = "revoke", !.fact = f]
           e == revocations[f].expected
           n == IF revocations[f].present THEN [i EXCEPT !.pc = "reserve", !.revision = e]
                                          ELSE [i EXCEPT !.pc = "read"]
<1>1. /\ procs' = [procs EXCEPT ![p] = n] /\ UNCHANGED <<stores, egm, export>>
      /\ projections[f].completed # 0
  BY DEF StartRevoke, Goto
<1>2. e \in Nat /\ e <= egm.revision /\ 0 <= egm.revision
  BY AtWork DEF TypedStores, StoresOK, CommandsAreOld, Command
<1>3. /\ n \in Proc /\ n.pc \in {"read", "reserve"} /\ n.job = "revoke" /\ n.fact = f
      /\ n.revision \in {0, e}
  <2>1. i \in Proc /\ i.job = "revoke" /\ i.fact = f /\ i.revision = 0
    <3>1. IdleProc \in Proc /\ IdleProc.revision = 0 /\ f \in 0..Facts
      BY IdleIsProc DEF Fact
    <3> QED BY <3>1, Zenon DEF Proc
  <2> HIDE DEF i, e
  <2> QED
    BY <1>2, <2>1, Zenon DEF Proc
<1> HIDE DEF n, e
<1>4. ProcOK(n, ledger, projections, revocations, egm)
  BY <1>1, <1>2, <1>3 DEF ProcOK, Carrying
<1> QED
  BY <1>1, <1>3, <1>4, WorkerPonders, Zenon

\* The revision of the case is read from EGM.
LEMMA ReadRevisionKeeps ==
  ASSUME BridgeInv, NEW p \in Workers, ReadRevision(p)
  PROVE  BridgeInv'
<1> DEFINE q == procs[p]
           v == egm.revision
<1>1. UNCHANGED <<stores, egm, export>>
  BY DEF ReadRevision
<1>2. q \in Proc /\ v \in Nat /\ ProcOK(q, ledger, projections, revocations, egm)
  BY AtWork
<1>3. CASE q.pc = "read"
  <2> DEFINE n == [q EXCEPT !.pc = "reserve", !.revision = v]
  <2>1. procs' = [procs EXCEPT ![p] = n]
    BY <1>3 DEF ReadRevision, Goto
  <2>2. /\ n \in Proc /\ n.pc = "reserve" /\ n.job = q.job /\ n.fact = q.fact
        /\ n.from = q.from /\ n.revision = v
    BY <1>2, ZenonT(40) DEF Proc
  <2> HIDE DEF n
  <2>3. ProcOK(n, ledger, projections, revocations, egm)
    BY <1>2, <1>3, <2>2 DEF ProcOK, Carrying
  <2> QED
    BY <1>1, <2>1, <2>2, <2>3, WorkerPonders, Zenon
<1>4. CASE q.pc = "reread"
  <2> DEFINE n == [q EXCEPT !.pc = "rebase", !.fresh = v]
  <2>1. procs' = [procs EXCEPT ![p] = n]
    BY <1>4 DEF ReadRevision, Goto
  <2>2. /\ n \in Proc /\ n.pc = "rebase" /\ n.job = q.job /\ n.fact = q.fact
        /\ n.from = q.from /\ n.revision = q.revision /\ n.fresh = v
    BY <1>2, Zenon DEF Proc
  <2> HIDE DEF n
  <2>3. /\ CommandOf(n, projections, revocations) = CommandOf(q, projections, revocations)
        /\ ReceiptOf(n, egm) = ReceiptOf(q, egm)
    BY <2>2, Zenon DEF CommandOf, ReceiptOf
  <2>4. ProcOK(n, ledger, projections, revocations, egm)
    BY ONLY <1>2, <1>4, <2>2, <2>3 DEF ProcOK, Carrying
  <2> QED
    BY <1>1, <2>1, <2>2, <2>4, WorkerPonders, Zenon
<1> QED
  BY <1>3, <1>4 DEF ReadRevision

-----------------------------------------------------------------------------
(* How one row of the stores changes.                                      *)

\* A row left alone.
LEMMA SameEvolves ==
  ASSUME NEW c, NEW r PROVE CommandEvolves(c, c, r, r)
BY Zenon DEF CommandEvolves

\* The ledger takes a first row.
LEMMA LedgerGrows ==
  ASSUME StoresOK, NEW f \in Fact, NEW row \in Row, ~ ledger[f].present,
         row.present, ~ row.revoked, ledger' = [ledger EXCEPT ![f] = row],
         UNCHANGED <<projections, revocations, binding, cursor, egm>>
  PROVE  StoresOK' /\ Evolves
<1>1. /\ ledger' \in [Fact -> Row] /\ ledger'[f] = row
      /\ \A g \in Fact : g # f => ledger'[g] = ledger[g]
  BY DEF StoresOK, TypedStores
<1>2. TypedStores'
  BY <1>1 DEF StoresOK, TypedStores
<1>3. \A g \in Fact : ledger[g].present => ledger'[g].present
  BY <1>1
<1>4. \A g \in Fact : ledger'[g].revoked <=> ledger[g].revoked
  BY <1>1 DEF StoresOK, TypedStores
<1>5. StoresAgree'
  BY <1>3, <1>4 DEF StoresOK, StoresAgree
<1>6. CursorCovers' /\ CommandsAreOld'
  <2>1. 1..cursor \subseteq Fact
    BY DEF StoresOK, TypedStores, Fact
  <2> QED
    BY <1>3, <2>1 DEF StoresOK, CursorCovers, CommandsAreOld
<1>7. egm.revision <= egm'.revision
  BY DEF StoresOK, TypedStores, EgmCase
<1> QED
  BY <1>2, <1>3, <1>5, <1>6, <1>7, SameEvolves, Zenon DEF StoresOK, Evolves

\* The row of one fact in the table of projections changes.
LEMMA ProjectionChanges ==
  ASSUME StoresOK, NEW f \in Fact, NEW d \in Command,
         projections' = [projections EXCEPT ![f] = d],
         UNCHANGED <<ledger, revocations, binding, cursor, egm>>,
         d.present, ledger[f].present, d.expected <= egm.revision,
         egm.evidence[f].at # 0 => d.expected = egm.evidence[f].expected,
         d.completed # 0 => d.completed = egm.evidence[f].at,
         projections[f].completed # 0 => d.completed # 0,
         projections[f].present =>
           d.expected = projections[f].expected
             \/ Stale(egm.evidence[f], projections[f].expected, egm)
  PROVE  StoresOK' /\ Evolves
<1>1. /\ projections' \in [Fact -> Command] /\ projections'[f] = d
      /\ \A g \in Fact : g # f => projections'[g] = projections[g]
  BY DEF StoresOK, TypedStores
<1>2. TypedStores'
  BY <1>1 DEF StoresOK, TypedStores
<1>3. StoresAgree'
  <2> SUFFICES ASSUME NEW g \in Fact
               PROVE  /\ egm.evidence[g].at # 0 => projections'[g].present
                           /\ projections'[g].expected = egm.evidence[g].expected
                      /\ projections'[g].completed # 0 =>
                           projections'[g].completed = egm.evidence[g].at
    BY DEF StoresOK, StoresAgree
  <2> QED
    BY <1>1 DEF StoresOK, StoresAgree
<1>4. \A g \in Fact : projections[g].completed # 0 => projections'[g].completed # 0
  BY <1>1
<1>5. CursorCovers' /\ CommandsAreOld'
  <2>1. 1..cursor \subseteq Fact
    BY DEF StoresOK, TypedStores, Fact
  <2>2. CursorCovers'
    BY <1>4, <2>1 DEF StoresOK, CursorCovers
  <2> QED
    BY <1>1, <2>2 DEF StoresOK, CommandsAreOld
<1>6. \A g \in Fact : CommandEvolves(projections[g], projections'[g],
                                     egm.evidence[g], egm.evidence[g])
  <2>1. CommandEvolves(projections[f], d, egm.evidence[f], egm.evidence[f])
    BY DEF CommandEvolves
  <2> QED
    BY <1>1, <2>1, SameEvolves
<1>7. egm.revision <= egm'.revision
  BY DEF StoresOK, TypedStores, EgmCase
<1> QED
  BY <1>2, <1>3, <1>5, <1>6, <1>7, SameEvolves, Zenon DEF StoresOK, Evolves

\* The row of one fact in the table of revocations changes, and the ledger
\* shows the fact withdrawn.
LEMMA RevocationChanges ==
  ASSUME StoresOK, NEW f \in Fact, NEW d \in Command,
         revocations' = [revocations EXCEPT ![f] = d],
         ledger' \in [Fact -> Row], ledger[f].present, ledger'[f].revoked,
         \A g \in Fact : ledger'[g].present <=> ledger[g].present,
         \A g \in Fact : g # f => (ledger'[g].revoked <=> ledger[g].revoked),
         UNCHANGED <<projections, binding, cursor, egm>>,
         d.present, d.expected <= egm.revision,
         egm.withdrawn[f].at # 0 => d.expected = egm.withdrawn[f].expected,
         d.completed # 0 => d.completed = egm.withdrawn[f].at,
         revocations[f].completed # 0 => d.completed # 0,
         revocations[f].present =>
           d.expected = revocations[f].expected
             \/ Stale(egm.withdrawn[f], revocations[f].expected, egm)
  PROVE  StoresOK' /\ Evolves
<1>1. /\ revocations' \in [Fact -> Command] /\ revocations'[f] = d
      /\ \A g \in Fact : g # f => revocations'[g] = revocations[g]
  BY DEF StoresOK, TypedStores
<1>2. TypedStores'
  <2>1. \A g \in Fact : ledger'[g].revoked \/ projections[g].present => ledger'[g].present
    BY DEF StoresOK, TypedStores
  <2> QED
    BY <1>1, <2>1 DEF StoresOK, TypedStores
<1>3. StoresAgree'
  <2> SUFFICES ASSUME NEW g \in Fact
               PROVE  /\ egm.withdrawn[g].at # 0 => revocations'[g].present
                           /\ revocations'[g].expected = egm.withdrawn[g].expected
                      /\ revocations'[g].completed # 0 =>
                           revocations'[g].completed = egm.withdrawn[g].at
                      /\ egm.withdrawn[g].at # 0 => ledger'[g].revoked
                      /\ ledger'[g].revoked <=> revocations'[g].present
    BY DEF StoresOK, StoresAgree
  <2>1. CASE g = f
    BY <1>1, <2>1
  <2>2. CASE g # f
    BY <1>1, <2>2 DEF StoresOK, StoresAgree
  <2> QED
    BY <2>1, <2>2, Zenon
<1>4. CursorCovers' /\ CommandsAreOld'
  <2>1. 1..cursor \subseteq Fact
    BY DEF StoresOK, TypedStores, Fact
  <2>2. CursorCovers'
    BY <2>1 DEF StoresOK, CursorCovers
  <2> QED
    BY <1>1, <2>2 DEF StoresOK, CommandsAreOld
<1>5. \A g \in Fact : CommandEvolves(revocations[g], revocations'[g],
                                     egm.withdrawn[g], egm.withdrawn[g])
  <2>1. CommandEvolves(revocations[f], d, egm.withdrawn[f], egm.withdrawn[f])
    BY DEF CommandEvolves
  <2> QED
    BY <1>1, <2>1, SameEvolves
<1>6. egm.revision <= egm'.revision
  BY DEF StoresOK, TypedStores, EgmCase
<1> QED
  BY <1>2, <1>3, <1>4, <1>5, <1>6, SameEvolves, Zenon DEF StoresOK, Evolves

\* The case moves on: it executes at most one command, which the tables hold.
LEMMA CaseChanges ==
  ASSUME StoresOK, UNCHANGED stores, egm' \in EgmCase, egm.revision <= egm'.revision,
         \A g \in Fact :
           /\ \/ egm'.evidence[g] = egm.evidence[g]
              \/ /\ egm.evidence[g].at = 0 /\ egm'.evidence[g].at # 0
                 /\ egm'.evidence[g].expected = egm.revision
                 /\ projections[g].present /\ projections[g].expected = egm.revision
           /\ \/ egm'.withdrawn[g] = egm.withdrawn[g]
              \/ /\ egm.withdrawn[g].at = 0 /\ egm'.withdrawn[g].at # 0
                 /\ egm'.withdrawn[g].expected = egm.revision
                 /\ revocations[g].present /\ revocations[g].expected = egm.revision
                 /\ egm.evidence[g].at # 0
  PROVE  StoresOK' /\ Evolves
<1>1. /\ ledger' = ledger /\ projections' = projections /\ revocations' = revocations
      /\ binding' = binding /\ cursor' = cursor
  BY DEF stores
<1>2. TypedStores'
  BY <1>1, Zenon DEF StoresOK, TypedStores
<1>3. StoresAgree'
  <2> SUFFICES ASSUME NEW g \in Fact
        PROVE /\ egm'.evidence[g].at # 0 =>
                   projections[g].present /\ projections[g].expected = egm'.evidence[g].expected
              /\ egm'.withdrawn[g].at # 0 =>
                   revocations[g].present /\ revocations[g].expected = egm'.withdrawn[g].expected
              /\ projections[g].completed # 0 => projections[g].completed = egm'.evidence[g].at
              /\ revocations[g].completed # 0 => revocations[g].completed = egm'.withdrawn[g].at
              /\ egm'.evidence[g].at # 0 => ledger[g].present
              /\ egm'.withdrawn[g].at # 0 => ledger[g].revoked /\ egm'.evidence[g].at # 0
              /\ ledger[g].revoked <=> revocations[g].present
    BY <1>1, Zenon DEF StoresAgree
  <2>1. /\ egm.evidence[g].at # 0 =>
             projections[g].present /\ projections[g].expected = egm.evidence[g].expected
        /\ egm.withdrawn[g].at # 0 =>
             revocations[g].present /\ revocations[g].expected = egm.withdrawn[g].expected
        /\ projections[g].completed # 0 => projections[g].completed = egm.evidence[g].at
        /\ revocations[g].completed # 0 => revocations[g].completed = egm.withdrawn[g].at
        /\ egm.evidence[g].at # 0 => ledger[g].present
        /\ egm.withdrawn[g].at # 0 => ledger[g].revoked /\ egm.evidence[g].at # 0
        /\ ledger[g].revoked <=> revocations[g].present
        /\ projections[g].present => ledger[g].present
    BY DEF StoresOK, StoresAgree, TypedStores
  <2> QED
    BY <2>1
<1>4. CursorCovers' /\ CommandsAreOld'
  <2>1. CursorCovers'
    BY <1>1, Zenon DEF StoresOK, CursorCovers
  <2>2. egm.revision \in Nat /\ egm'.revision \in Nat
        /\ \A g \in Fact : projections[g].expected \in Nat /\ revocations[g].expected \in Nat
    BY DEF StoresOK, TypedStores, EgmCase, Command
  <2> QED
    BY <1>1, <2>1, <2>2 DEF StoresOK, CommandsAreOld
<1>5. \A g \in Fact :
        /\ CommandEvolves(projections[g], projections[g], egm.evidence[g], egm'.evidence[g])
        /\ CommandEvolves(revocations[g], revocations[g], egm.withdrawn[g], egm'.withdrawn[g])
  BY DEF CommandEvolves
<1> QED
  BY <1>1, <1>2, <1>3, <1>4, <1>5, Zenon DEF StoresOK, Evolves

-----------------------------------------------------------------------------
(* The actions that write to a store.                                      *)

\* The moving worker knows as much of the new stores.
LEMMA StillKnows ==
  ASSUME BridgeInv, StoresOK', Evolves, NEW p \in Workers
  PROVE  /\ procs \in [Workers -> Proc] /\ procs[p] \in Proc
         /\ ProcOK(procs[p], ledger', projections', revocations', egm')
         /\ egm'.revision \in Nat
<1>1. TypedStores /\ TypedStores'
  BY AtWork DEF StoresOK
<1> QED
  BY <1>1, AtWork, ProcStays DEF TypedStores, EgmCase

\* The fact is written to the ledger.
LEMMA PersistKeeps ==
  ASSUME BridgeInv, NEW p \in Workers, Persist(p)
  PROVE  BridgeInv'
<1> DEFINE q == procs[p]
           n == [q EXCEPT !.pc = "bind"]
<1>1. /\ q.pc = "persist" /\ export' = export
      /\ UNCHANGED <<projections, revocations, binding, cursor, egm>>
  BY DEF Persist
<1>2. /\ q \in Proc /\ q.fact \in Fact /\ StoresOK /\ egm.revision \in Nat
      /\ ProcOK(q, ledger, projections, revocations, egm) /\ q.job # "revoke"
  BY <1>1, AtWork, Zenon DEF ProcOK, Carrying
<1>3. /\ n \in Proc /\ n.pc = "bind" /\ n.job = q.job /\ n.fact = q.fact
      /\ n.from = q.from /\ n.revision = q.revision
  BY <1>2, StepTo, Zenon
<1>4. CASE ~ ledger[q.fact].present
  <2> DEFINE row == NewRow(p)
  <2>1. ledger' = [ledger EXCEPT ![q.fact] = row] /\ procs' = [procs EXCEPT ![p] = n]
    BY <1>4, Zenon DEF Persist, Goto
  <2>2. row \in Row /\ row.present /\ ~ row.revoked
    BY DEF NewRow, Row, BridgeInv
  <2> HIDE DEF row, n
  <2>3. StoresOK' /\ Evolves
    BY <1>1, <1>2, <1>4, <2>1, <2>2, LedgerGrows, Zenon
  <2>4. ProcOK(q, ledger', projections', revocations', egm')
    BY <2>3, StillKnows
  <2>5. ledger'[q.fact].present
    BY <1>2, <2>1, <2>2 DEF StoresOK, TypedStores
  <2>6. ProcOK(n, ledger', projections', revocations', egm')
    <3> HIDE DEF q
    <3> QED BY <1>1, <1>2, <1>3, <2>4, <2>5, Zenon DEF ProcOK, Carrying
  <2> QED
    BY <1>1, <1>3, <2>1, <2>3, <2>6, WorkerMoves, Zenon
<1>5. CASE ledger[q.fact].present /\ SameEvidence(ledger[q.fact], p)
  <2>1. ledger' = ledger /\ procs' = [procs EXCEPT ![p] = n]
    BY <1>5, Zenon DEF Persist, Goto
  <2> HIDE DEF n
  <2>2. ProcOK(n, ledger, projections, revocations, egm)
    BY <1>1, <1>2, <1>3, <1>5, Zenon DEF ProcOK, Carrying
  <2>3. UNCHANGED <<stores, egm, export>>
    BY <1>1, <2>1 DEF stores
  <2> QED
    BY <1>3, <2>1, <2>2, <2>3, WorkerPonders, Zenon
<1>6. CASE ledger[q.fact].present /\ ~ SameEvidence(ledger[q.fact], p)
  <2>1. ledger' = ledger /\ Fail(p)
    BY <1>6, Zenon DEF Persist
  <2>2. UNCHANGED <<stores, egm, export>>
    BY <1>1, <2>1 DEF stores
  <2> QED
    BY <1>2, <2>1, <2>2, Fails, PonderKeeps, Zenon
<1> QED
  BY <1>4, <1>5, <1>6, Zenon

\* The binding is looked up.
LEMMA BindKeeps ==
  ASSUME BridgeInv, NEW p \in Workers, Bind(p)
  PROVE  BridgeInv'
<1> DEFINE q == procs[p]
<1>1. q.pc = "bind" /\ UNCHANGED <<stores, export>>
  BY DEF Bind
<1>2. /\ q \in Proc /\ q.fact \in Fact /\ StoresOK /\ egm.revision \in Nat /\ egm \in EgmCase
      /\ ProcOK(q, ledger, projections, revocations, egm) /\ q.job # "revoke"
  BY <1>1, AtWork, Zenon DEF ProcOK, Carrying, TypedStores
<1>3. CASE binding
  <2> DEFINE n == [q EXCEPT !.pc = "load"]
  <2>1. procs' = [procs EXCEPT ![p] = n] /\ egm' = egm
    BY <1>3, Zenon DEF Bind, Goto
  <2>2. /\ n \in Proc /\ n.pc = "load" /\ n.job = q.job /\ n.fact = q.fact
        /\ n.from = q.from /\ n.revision = q.revision
    BY <1>2, StepTo, Zenon
  <2> HIDE DEF n
  <2>3. ProcOK(n, ledger, projections, revocations, egm)
    BY <1>1, <1>2, <2>2, Zenon DEF ProcOK, Carrying
  <2> QED
    BY <1>1, <2>1, <2>2, <2>3, WorkerPonders, Zenon
<1>4. CASE ~ binding /\ EgmAnswers(egm.node, 0)
  <2> DEFINE n == [q EXCEPT !.pc = "putnode"]
             e == [egm EXCEPT !.revision = EgmRevision(egm.node, 0),
                              !.node = EgmReceipt(egm.node, 0)]
  <2>1. procs' = [procs EXCEPT ![p] = n] /\ egm' = e
    BY <1>4, Zenon DEF Bind, Goto
  <2>2. /\ n \in Proc /\ n.pc = "putnode" /\ n.job = q.job /\ n.fact = q.fact
        /\ n.from = q.from /\ n.revision = q.revision
    BY <1>2, StepTo, Zenon
  <2>3. EgmRevision(egm.node, 0) \in Nat /\ EgmReceipt(egm.node, 0) \in Receipt
        /\ egm.revision <= EgmRevision(egm.node, 0)
    BY <1>2 DEF EgmRevision, EgmReceipt, Receipt, EgmCase
  <2>4. /\ e \in EgmCase /\ e.evidence = egm.evidence /\ e.withdrawn = egm.withdrawn
        /\ egm.revision <= e.revision
    BY <1>2, <2>3, ZenonT(40) DEF EgmCase
  <2> HIDE DEF n, e
  <2>5. StoresOK' /\ Evolves
    BY <1>1, <1>2, <2>1, <2>4, CaseChanges
  <2>6. ProcOK(q, ledger', projections', revocations', egm')
    BY <2>5, StillKnows
  <2>7. ProcOK(n, ledger', projections', revocations', egm')
    <3> HIDE DEF q
    <3> QED BY <1>1, <1>2, <2>2, <2>6, Zenon DEF ProcOK, Carrying
  <2> QED
    BY <1>1, <2>1, <2>2, <2>5, <2>7, WorkerMoves, Zenon
<1>5. CASE ~ binding /\ ~ EgmAnswers(egm.node, 0)
  <2>1. Fail(p) /\ egm' = egm
    BY <1>5, Zenon DEF Bind
  <2> QED
    BY <1>1, <1>2, <2>1, Fails, PonderKeeps, Zenon
<1> QED
  BY <1>3, <1>4, <1>5, Zenon

\* The binding is written.
LEMMA PutBindingKeeps ==
  ASSUME BridgeInv, NEW p \in Workers, PutBinding(p)
  PROVE  BridgeInv'
<1> DEFINE q == procs[p]
           n == [q EXCEPT !.pc = "load"]
<1>1. /\ q.pc = "putnode" /\ binding' = TRUE /\ procs' = [procs EXCEPT ![p] = n]
      /\ UNCHANGED <<ledger, projections, revocations, cursor, egm, export>>
  BY DEF PutBinding, Goto
<1>2. /\ q \in Proc /\ StoresOK /\ egm.revision \in Nat
      /\ ProcOK(q, ledger, projections, revocations, egm)
  BY <1>1, AtWork
<1>3. /\ n \in Proc /\ n.pc = "load" /\ n.job = q.job /\ n.fact = q.fact
      /\ n.from = q.from /\ n.revision = q.revision
  BY <1>2, StepTo, Zenon
<1> HIDE DEF n
<1>4. ProcOK(n, ledger, projections, revocations, egm)
  BY <1>1, <1>2, <1>3, Zenon DEF ProcOK, Carrying
<1>5. ProcOK(n, ledger', projections', revocations', egm')
  BY <1>1, <1>4
<1>6. StoresOK'
  BY <1>1, <1>2, ZenonT(40)
     DEF StoresOK, TypedStores, StoresAgree, CursorCovers, CommandsAreOld
<1>7. Evolves
  <2>1. egm.revision <= egm'.revision
    BY <1>1, <1>2
  <2> QED
    BY <1>1, <2>1, SameEvolves, Zenon DEF Evolves
<1> QED
  BY <1>1, <1>3, <1>5, <1>6, <1>7, WorkerMoves, Zenon

\* The cursor passes a page that is in both stores.
LEMMA AdvanceKeeps ==
  ASSUME BridgeInv, NEW p \in Workers, Advance(p)
  PROVE  BridgeInv'
<1> DEFINE q == procs[p]
           end == PageEnd(q.from)
<1>1. /\ q.pc = "advance" /\ cursor' = CursorAfter(q.from)
      /\ UNCHANGED <<ledger, projections, revocations, binding, egm, export>>
  BY DEF Advance
<1>2. /\ q \in Proc /\ StoresOK /\ egm.revision \in Nat /\ q.from \in 0..Facts
      /\ cursor \in 0..Facts
      /\ ProcOK(q, ledger, projections, revocations, egm)
  BY <1>1, AtWork DEF Proc, TypedStores
<1>3. end \in 0..Facts /\ \A f \in (q.from + 1)..end : InBoth(f, ledger, projections)
  <2>1. /\ end \in 0..Facts /\ q.job = "import" /\ q.fact = end /\ InBoth(end, ledger, projections)
        /\ \A f \in (q.from + 1)..(q.fact - 1) : InBoth(f, ledger, projections)
    BY <1>1, <1>2, PageEndFacts, ZenonT(40) DEF ProcOK
  <2>2. \A f \in (q.from + 1)..end : f \in (q.from + 1)..(q.fact - 1) \/ f = end
    BY <1>2, <2>1
  <2> QED
    BY <2>1, <2>2, Zenon
<1>4. cursor' \in 0..Facts /\ CursorCovers'
  <2>1. CASE cursor = q.from
    <3>1. cursor' = end
      BY <1>1, <2>1 DEF CursorAfter
    <3>2. \A f \in 1..end : f \in 1..cursor \/ f \in (q.from + 1)..end
      BY <1>2, <1>3, <2>1
    <3> HIDE DEF end
    <3> QED
      BY <1>1, <1>2, <1>3, <3>1, <3>2, Zenon DEF CursorCovers, StoresOK, InBoth
  <2>2. CASE cursor # q.from
    BY <1>1, <1>2, <2>2 DEF CursorAfter, CursorCovers, StoresOK
  <2> QED
    BY <2>1, <2>2
<1>5. StoresOK'
  BY <1>1, <1>2, <1>4, ZenonT(40) DEF StoresOK, TypedStores, StoresAgree, CommandsAreOld
<1>6. Evolves
  <2>1. egm.revision <= egm'.revision
    BY <1>1, <1>2
  <2> QED
    BY <1>1, <2>1, SameEvolves, Zenon DEF Evolves
<1>7. CASE cursor' = end /\ end < Facts
  <2> DEFINE f == end + 1
  <2>1. Goto(p, Importing(f, end))
    BY <1>7, Zenon DEF Advance
  <2>2. f \in Fact /\ end < f /\ f <= PageEnd(end) /\ \A g \in Fact : end < g /\ g < f => FALSE
    BY <1>3, <1>7, PageEndFacts DEF Fact
  <2> HIDE DEF f, end
  <2>3. Moved(p, ledger', projections', revocations', egm')
    BY <1>1, <1>2, <1>3, <2>1, <2>2, ImportsNext, Zenon
  <2> QED
    BY <1>1, <1>5, <1>6, <2>3, MovedKeeps
<1>8. CASE ~ (cursor' = end /\ end < Facts)
  <2>1. Fail(p) /\ egm'.revision \in Nat
    BY <1>1, <1>2, <1>8, Zenon DEF Advance
  <2> QED
    BY <1>1, <1>5, <1>6, <2>1, Fails, MovedKeeps, Zenon
<1> QED
  BY <1>7, <1>8

\* Somebody else writes the case in EGM.
LEMMA OtherWriteKeeps ==
  ASSUME BridgeInv, OtherWrite
  PROVE  BridgeInv'
<1> DEFINE e == [egm EXCEPT !.revision = @ + 1]
<1>1. egm' = e /\ UNCHANGED stores /\ UNCHANGED <<export, procs>>
  BY DEF OtherWrite
<1>2. StoresOK /\ egm \in EgmCase /\ procs \in [Workers -> Proc] /\ export \in [Workers -> Exports]
      /\ TypedStores
  BY DEF BridgeInv, StoresOK, TypedStores
<1>3. /\ e \in EgmCase /\ egm.revision <= e.revision /\ e.evidence = egm.evidence
      /\ e.withdrawn = egm.withdrawn
  BY <1>2 DEF EgmCase
<1> HIDE DEF e
<1>4. StoresOK' /\ Evolves
  BY <1>1, <1>2, <1>3, CaseChanges
<1>5. \A p \in Workers : ProcOK(procs'[p], ledger', projections', revocations', egm')
  BY <1>1, <1>2, <1>4, ProcStays DEF BridgeInv, StoresOK
<1> QED
  BY <1>1, <1>2, <1>4, <1>5, Zenon DEF BridgeInv


\* A reservation never changes a command that exists.
LEMMA ReservedCommand ==
  ASSUME NEW c \in Command, NEW v \in Nat
  PROVE  LET d == Reserved(c, v) IN
         /\ d \in Command /\ d.present
         /\ c.present => d = c
         /\ ~ c.present => d.expected = v /\ d.completed = 0
BY DEF Reserved, Command

\* The projection's command is reserved.
LEMMA ReserveProjectionKeeps ==
  ASSUME BridgeInv, NEW p \in Workers, ReserveProjection(p)
  PROVE  BridgeInv'
<1> DEFINE q == procs[p]
           f == q.fact
           c == projections[f]
           d == Reserved(c, q.revision)
<1>1. /\ q.pc = "reserve" /\ q.job # "revoke" /\ Resume(p, d) /\ export' = export
      /\ projections' = [projections EXCEPT ![f] = d]
      /\ UNCHANGED <<ledger, revocations, binding, cursor, egm>>
  BY DEF ReserveProjection
<1>2. /\ q \in Proc /\ f \in Fact /\ StoresOK /\ c \in Command /\ q.revision \in Nat
      /\ q.revision <= egm.revision /\ c.expected <= egm.revision
      /\ ledger[f].present /\ projections \in [Fact -> Command]
  BY <1>1, AtWork, ZenonT(40) DEF ProcOK, TypedStores, StoresOK, CommandsAreOld, Proc
<1>3. /\ egm.evidence[f].at # 0 => c.present /\ c.expected = egm.evidence[f].expected
      /\ c.completed # 0 => c.completed = egm.evidence[f].at
      /\ c.completed # 0 => egm.evidence[f].at # 0
  BY <1>2 DEF StoresOK, StoresAgree
<1>4. /\ d \in Command /\ d.present /\ (c.present => d = c)
      /\ (~ c.present => d.expected = q.revision /\ d.completed = 0)
  BY <1>2, ReservedCommand
<1>5. d.expected <= egm.revision
  BY <1>2, <1>4
<1>6. projections'[f] = d
  BY <1>1, <1>2
<1> HIDE DEF d
<1>7. StoresOK' /\ Evolves
  BY <1>1, <1>2, <1>3, <1>4, <1>5, ProjectionChanges, Zenon
<1>8. Moved(p, ledger', projections', revocations', egm')
  <2>1. d = CommandOf(q, projections', revocations') /\ d.expected <= egm'.revision
    BY <1>1, <1>5, <1>6 DEF CommandOf
  <2> QED
    BY <1>1, <1>4, <1>7, <2>1, StillKnows, ResumeNext, ZenonT(40)
<1> QED
  BY <1>1, <1>7, <1>8, MovedKeeps, Zenon

\* The revocation's command is reserved.
LEMMA ReserveRevocationKeeps ==
  ASSUME BridgeInv, NEW p \in Workers, ReserveRevocation(p)
  PROVE  BridgeInv'
<1> DEFINE q == procs[p]
           f == q.fact
           c == revocations[f]
           d == Reserved(c, q.revision)
           row == Withdrawn(ledger[f])
<1>1. /\ q.pc = "reserve" /\ q.job = "revoke" /\ Resume(p, d) /\ export' = export
      /\ revocations' = [revocations EXCEPT ![f] = d]
      /\ ledger' = [ledger EXCEPT ![f] = row]
      /\ UNCHANGED <<projections, binding, cursor, egm>>
  BY DEF ReserveRevocation
<1>2. /\ q \in Proc /\ f \in Fact /\ StoresOK /\ c \in Command /\ q.revision \in Nat
      /\ q.revision <= egm.revision /\ c.expected <= egm.revision
      /\ projections[f].completed # 0 /\ revocations \in [Fact -> Command]
      /\ ledger \in [Fact -> Row]
  BY <1>1, AtWork, ZenonT(40) DEF ProcOK, TypedStores, StoresOK, CommandsAreOld, Proc
<1>3. /\ egm.withdrawn[f].at # 0 => c.present /\ c.expected = egm.withdrawn[f].expected
      /\ c.completed # 0 => c.completed = egm.withdrawn[f].at
      /\ c.completed # 0 => egm.withdrawn[f].at # 0
      /\ ledger[f].present
  BY <1>2, Zenon DEF StoresOK, StoresAgree
<1>4. /\ d \in Command /\ d.present /\ (c.present => d = c)
      /\ (~ c.present => d.expected = q.revision /\ d.completed = 0)
  BY <1>2, ReservedCommand
<1>5. d.expected <= egm.revision
  BY <1>2, <1>4
<1>6. row \in Row /\ row.revoked /\ (row.present <=> ledger[f].present)
  BY <1>2, Zenon DEF Row, Withdrawn
<1> HIDE DEF d, row
<1>7. /\ revocations'[f] = d /\ ledger' \in [Fact -> Row] /\ ledger'[f] = row
      /\ \A g \in Fact : g # f => ledger'[g] = ledger[g]
  BY <1>1, <1>2, <1>6
<1>8. /\ ledger'[f].revoked
      /\ \A g \in Fact : ledger'[g].present <=> ledger[g].present
      /\ \A g \in Fact : g # f => (ledger'[g].revoked <=> ledger[g].revoked)
  BY <1>6, <1>7
<1>9. StoresOK' /\ Evolves
  <2>1. /\ f \in Fact /\ StoresOK
        /\ egm.withdrawn[f].at # 0 => d.expected = egm.withdrawn[f].expected
        /\ d.completed # 0 => d.completed = egm.withdrawn[f].at
        /\ revocations[f].completed # 0 => d.completed # 0
        /\ revocations[f].present => d.expected = revocations[f].expected
    BY <1>2, <1>3, <1>4, Zenon
  <2>2. /\ revocations' = [revocations EXCEPT ![f] = d]
        /\ UNCHANGED <<projections, binding, cursor, egm>>
    BY <1>1
  <2> HIDE DEF f
  <2> QED
    BY <1>3, <1>4, <1>5, <1>7, <1>8, <2>1, <2>2, RevocationChanges, ZenonT(40)
<1>10. Moved(p, ledger', projections', revocations', egm')
  <2>1. d = CommandOf(q, projections', revocations') /\ d.expected <= egm'.revision
    BY <1>1, <1>5, <1>7 DEF CommandOf
  <2> QED
    BY <1>1, <1>4, <1>9, <2>1, StillKnows, ResumeNext, Zenon
<1> QED
  BY <1>1, <1>9, <1>10, MovedKeeps, Zenon

\* What EGM makes of a command.
LEMMA EgmExecutes ==
  ASSUME NEW r \in Receipt, NEW v \in Nat, egm.revision \in Nat, v <= egm.revision
  PROVE  /\ EgmAnswers(r, v) =>
              /\ EgmReceipt(r, v) \in Receipt /\ EgmRevision(r, v) \in Nat
              /\ egm.revision <= EgmRevision(r, v)
              /\ EgmReceipt(r, v).at # 0 /\ EgmReceipt(r, v).expected = v
              /\ \/ EgmReceipt(r, v) = r
                 \/ r.at = 0 /\ v = egm.revision
         /\ ~ EgmAnswers(r, v) => Stale(r, v, egm)
BY DEF EgmAnswers, Replays, Applies, EgmReceipt, EgmRevision, Receipt, Stale

\* What an answer leaves of the variables of a worker.
LEMMA ResultRecord ==
  ASSUME NEW q \in Proc, NEW r \in Receipt
  PROVE  LET n == [q EXCEPT !.pc = "complete", !.fresh = r.at] IN
         /\ n \in Proc /\ n.pc = "complete" /\ n.job = q.job /\ n.fact = q.fact
         /\ n.from = q.from /\ n.revision = q.revision /\ n.fresh = r.at
BY Zenon DEF Proc, Receipt

\* A worker that got an answer of EGM completes what EGM holds.
LEMMA AnsweredNext ==
  ASSUME procs \in [Workers -> Proc], NEW p \in Workers,
         NEW L, NEW P, NEW R, NEW E, E.revision \in Nat,
         procs[p].pc = "send", ProcOK(procs[p], L, P, R, E),
         NEW r \in Receipt, ReceiptOf(procs[p], E) = r, r.at # 0,
         r.expected = procs[p].revision,
         Goto(p, [procs[p] EXCEPT !.pc = "complete", !.fresh = r.at])
  PROVE  Moved(p, L, P, R, E)
<1> DEFINE q == procs[p]
           n == [q EXCEPT !.pc = "complete", !.fresh = r.at]
<1>1. q \in Proc /\ q.pc = "send"
  OBVIOUS
<1>2. procs' = [procs EXCEPT ![p] = n]
  BY DEF Goto
<1>3. /\ n \in Proc /\ n.pc = "complete" /\ n.job = q.job /\ n.fact = q.fact
      /\ n.from = q.from /\ n.revision = q.revision /\ n.fresh = r.at
  BY <1>1, ResultRecord, Zenon
<1>4. r = [expected |-> q.revision, at |-> r.at]
  BY DEF Receipt
<1> HIDE DEF n
<1>5. CommandOf(n, P, R) = CommandOf(q, P, R) /\ ReceiptOf(n, E) = r
  BY <1>3, Zenon DEF CommandOf, ReceiptOf
<1>6. ProcOK(n, L, P, R, E)
  BY <1>1, <1>3, <1>4, <1>5 DEF ProcOK, Carrying
<1> QED
  BY <1>2, <1>3, <1>6, Zenon DEF Moved

\* EGM takes evidence once per key and at the expected revision.
LEMMA IngestEvidenceKeeps ==
  ASSUME BridgeInv, NEW p \in Workers, IngestEvidence(p)
  PROVE  BridgeInv'
<1> DEFINE q == procs[p]
           f == q.fact
           held == egm.evidence[f]
           r == EgmReceipt(held, q.revision)
           v == EgmRevision(held, q.revision)
<1>1. q.pc = "send" /\ q.job # "revoke" /\ UNCHANGED <<stores, export>>
  BY DEF IngestEvidence
<1>2. /\ q \in Proc /\ f \in Fact /\ StoresOK /\ egm \in EgmCase /\ held \in Receipt
      /\ q.revision \in Nat /\ q.revision <= egm.revision /\ egm.revision \in Nat
      /\ projections[f].present
      /\ q.revision = projections[f].expected \/ Stale(held, q.revision, egm)
  BY <1>1, AtWork, ZenonT(40) DEF ProcOK, TypedStores, Proc, EgmCase, Carrying, CommandOf, ReceiptOf
<1>3. CASE EgmAnswers(held, q.revision)
  <2> DEFINE e == [egm EXCEPT !.revision = v, !.evidence = [@ EXCEPT ![f] = r]]
  <2>1. egm' = e /\ Goto(p, [q EXCEPT !.pc = "complete", !.fresh = r.at])
    BY <1>3, Zenon DEF IngestEvidence, ProjectionResult
  <2>2. /\ r \in Receipt /\ v \in Nat /\ egm.revision <= v /\ r.at # 0
        /\ r.expected = q.revision
        /\ r = held \/ (held.at = 0 /\ q.revision = egm.revision)
    BY <1>2, <1>3, EgmExecutes, Zenon
  <2> HIDE DEF r, v, held
  <2>3. /\ e \in EgmCase /\ e.revision = v /\ e.withdrawn = egm.withdrawn
        /\ e.evidence[f] = r /\ \A g \in Fact : g # f => e.evidence[g] = egm.evidence[g]
    BY <1>2, <2>2, Zenon DEF EgmCase
  <2> HIDE DEF e
  <2>4. held.at = 0 /\ q.revision = egm.revision => projections[f].expected = egm.revision
    BY <1>2 DEF Stale
  <2>5. StoresOK' /\ Evolves
    <3>1. held = egm.evidence[f]
      BY DEF held
    <3> QED
      BY <1>1, <1>2, <2>1, <2>2, <2>3, <2>4, <3>1, CaseChanges
  <2>6. ReceiptOf(q, egm') = r
    BY <1>1, <2>1, <2>3, Zenon DEF ReceiptOf
  <2>7. Moved(p, ledger', projections', revocations', egm')
    BY <1>1, <2>1, <2>2, <2>5, <2>6, StillKnows, AnsweredNext, Zenon
  <2> QED
    BY <1>1, <2>5, <2>7, MovedKeeps, Zenon
<1>4. CASE ~ EgmAnswers(held, q.revision)
  <2>1. Conflict(p) /\ egm' = egm
    BY <1>4, Zenon DEF IngestEvidence
  <2>2. Stale(ReceiptOf(q, egm), q.revision, egm)
    BY <1>1, <1>2, <1>4, EgmExecutes DEF ReceiptOf
  <2> QED
    BY <1>1, <2>1, <2>2, AtWork, ConflictNext, PonderKeeps
<1> QED
  BY <1>3, <1>4

\* EGM withdraws evidence once per key and at the expected revision.
LEMMA RevokeEvidenceKeeps ==
  ASSUME BridgeInv, NEW p \in Workers, RevokeEvidence(p)
  PROVE  BridgeInv'
<1> DEFINE q == procs[p]
           f == q.fact
           held == egm.withdrawn[f]
           r == EgmReceipt(held, q.revision)
           v == EgmRevision(held, q.revision)
<1>1. q.pc = "send" /\ q.job = "revoke" /\ UNCHANGED <<stores, export>>
  BY DEF RevokeEvidence
<1>2. /\ q \in Proc /\ f \in Fact /\ StoresOK /\ egm \in EgmCase /\ held \in Receipt
      /\ q.revision \in Nat /\ q.revision <= egm.revision /\ egm.revision \in Nat
      /\ revocations[f].present /\ projections[f].completed # 0
      /\ q.revision = revocations[f].expected \/ Stale(held, q.revision, egm)
  BY <1>1, AtWork, Zenon DEF ProcOK, TypedStores, Proc, EgmCase, Carrying, CommandOf, ReceiptOf
<1>3. CASE EgmAnswers(held, q.revision)
  <2> DEFINE e == [egm EXCEPT !.revision = v, !.withdrawn = [@ EXCEPT ![f] = r]]
  <2>1. egm' = e /\ Goto(p, [q EXCEPT !.pc = "complete", !.fresh = r.at])
    BY <1>3, Zenon DEF RevokeEvidence, RevocationResult
  <2>2. /\ r \in Receipt /\ v \in Nat /\ egm.revision <= v /\ r.at # 0
        /\ r.expected = q.revision
        /\ r = held \/ (held.at = 0 /\ q.revision = egm.revision)
    BY <1>2, <1>3, EgmExecutes, Zenon
  <2> HIDE DEF r, v, held
  <2>3. /\ e \in EgmCase /\ e.revision = v /\ e.evidence = egm.evidence
        /\ e.withdrawn[f] = r /\ \A g \in Fact : g # f => e.withdrawn[g] = egm.withdrawn[g]
    BY <1>2, <2>2, Zenon DEF EgmCase
  <2> HIDE DEF e
  <2>4. /\ held.at = 0 /\ q.revision = egm.revision => revocations[f].expected = egm.revision
        /\ egm.evidence[f].at # 0
    <3>1. held.at = 0 /\ q.revision = egm.revision => revocations[f].expected = egm.revision
      BY ONLY <1>2 DEF Stale
    <3>2. egm.evidence[f].at # 0
      BY <1>2 DEF StoresOK, StoresAgree
    <3> QED
      BY ONLY <3>1, <3>2
  <2>5. StoresOK' /\ Evolves
    <3>1. held = egm.withdrawn[f]
      BY DEF held
    <3> QED
      BY <1>1, <1>2, <2>1, <2>2, <2>3, <2>4, <3>1, CaseChanges
  <2>6. ReceiptOf(q, egm') = r
    BY <1>1, <2>1, <2>3, Zenon DEF ReceiptOf
  <2>7. Moved(p, ledger', projections', revocations', egm')
    BY <1>1, <2>1, <2>2, <2>5, <2>6, StillKnows, AnsweredNext, ZenonT(40)
  <2> QED
    BY <1>1, <2>5, <2>7, MovedKeeps, Zenon
<1>4. CASE ~ EgmAnswers(held, q.revision)
  <2>1. Conflict(p) /\ egm' = egm
    BY <1>4, Zenon DEF RevokeEvidence
  <2>2. Stale(ReceiptOf(q, egm), q.revision, egm)
    BY <1>1, <1>2, <1>4, EgmExecutes, Zenon DEF ReceiptOf
  <2> QED
    BY <1>1, <2>1, <2>2, AtWork, ConflictNext, PonderKeeps
<1> QED
  BY <1>3, <1>4


\* A projection is rebased only when its revision is dead.
LEMMA RebaseProjectionKeeps ==
  ASSUME BridgeInv, NEW p \in Workers, RebaseProjection(p)
  PROVE  BridgeInv'
<1> DEFINE q == procs[p]
           f == q.fact
           c == projections[f]
           d == Rebased(c, q.revision, q.fresh)
<1>1. /\ q.pc = "rebase" /\ q.job # "revoke" /\ AfterRebase(p, d) /\ export' = export
      /\ projections' = [projections EXCEPT ![f] = d]
      /\ UNCHANGED <<ledger, revocations, binding, cursor, egm>>
  BY Zenon DEF RebaseProjection
<1>2. /\ q \in Proc /\ f \in Fact /\ StoresOK /\ c \in Command /\ q.revision \in Nat
      /\ q.fresh \in Nat /\ q.fresh <= egm.revision /\ c.expected <= egm.revision
      /\ ledger[f].present /\ projections \in [Fact -> Command] /\ c.present
      /\ Stale(egm.evidence[f], q.revision, egm)
  BY <1>1, AtWork, ZenonT(40)
     DEF ProcOK, TypedStores, StoresOK, CommandsAreOld, Proc, Carrying, CommandOf, ReceiptOf
<1>3. /\ egm.evidence[f].at # 0 => c.expected = egm.evidence[f].expected
      /\ c.completed # 0 => c.completed = egm.evidence[f].at
  BY <1>2, Zenon DEF StoresOK, StoresAgree
<1>4. /\ d \in Command /\ d.present /\ d.completed = c.completed
      /\ d.expected = c.expected \/ (c.expected = q.revision /\ d.expected = q.fresh)
  <2>1. c \in Command /\ c.present /\ q.revision \in Nat /\ q.fresh \in Nat
    BY <1>2
  <2> HIDE DEF c, q
  <2>2. /\ Rebased(c, q.revision, q.fresh) \in Command
        /\ Rebased(c, q.revision, q.fresh).present
        /\ Rebased(c, q.revision, q.fresh).completed = c.completed
        /\ \/ Rebased(c, q.revision, q.fresh).expected = c.expected
           \/ /\ c.expected = q.revision
              /\ Rebased(c, q.revision, q.fresh).expected = q.fresh
    BY <2>1 DEF Rebased, Command
  <2> QED BY <2>2, Zenon
<1>5. d.expected <= egm.revision
  BY <1>2, <1>4, Zenon
<1> HIDE DEF d, c
<1>6. /\ egm.evidence[f].at # 0 => d.expected = egm.evidence[f].expected
      /\ d.expected = c.expected \/ Stale(egm.evidence[f], c.expected, egm)
  BY <1>2, <1>3, <1>4 DEF Stale
<1>7. projections'[f] = d /\ c = projections[f]
  BY <1>1, <1>2, Zenon DEF c
<1>8. StoresOK' /\ Evolves
  BY <1>1, <1>2, <1>3, <1>4, <1>5, <1>6, <1>7, ProjectionChanges, ZenonT(40)
<1>9. Moved(p, ledger', projections', revocations', egm')
  <2>1. d = CommandOf(q, projections', revocations')
    BY <1>1, <1>7 DEF CommandOf
  <2> QED
    BY <1>1, <1>4, <1>8, <2>1, StillKnows, RebaseNext, Zenon
<1> QED
  BY <1>1, <1>8, <1>9, MovedKeeps, Zenon

\* A revocation is rebased only when its revision is dead.
LEMMA RebaseRevocationKeeps ==
  ASSUME BridgeInv, NEW p \in Workers, RebaseRevocation(p)
  PROVE  BridgeInv'
<1> DEFINE q == procs[p]
           f == q.fact
           c == revocations[f]
           d == Rebased(c, q.revision, q.fresh)
<1>1. /\ q.pc = "rebase" /\ q.job = "revoke" /\ AfterRebase(p, d) /\ export' = export
      /\ revocations' = [revocations EXCEPT ![f] = d]
      /\ UNCHANGED <<ledger, projections, binding, cursor, egm>>
  BY DEF RebaseRevocation
<1>2. /\ q \in Proc /\ f \in Fact /\ StoresOK /\ c \in Command /\ q.revision \in Nat
      /\ q.fresh \in Nat /\ q.fresh <= egm.revision /\ c.expected <= egm.revision
      /\ revocations \in [Fact -> Command] /\ c.present
      /\ Stale(egm.withdrawn[f], q.revision, egm)
  BY <1>1, AtWork, ZenonT(40)
     DEF ProcOK, TypedStores, StoresOK, CommandsAreOld, Proc, Carrying, CommandOf, ReceiptOf
<1>3. /\ egm.withdrawn[f].at # 0 => c.expected = egm.withdrawn[f].expected
      /\ c.completed # 0 => c.completed = egm.withdrawn[f].at
      /\ ledger[f].revoked /\ ledger[f].present /\ ledger \in [Fact -> Row]
  BY <1>2, ZenonT(40) DEF StoresOK, StoresAgree, TypedStores
<1>4. /\ d \in Command /\ d.present /\ d.completed = c.completed
      /\ d.expected = c.expected \/ (c.expected = q.revision /\ d.expected = q.fresh)
  <2>1. c \in Command /\ c.present /\ q.revision \in Nat /\ q.fresh \in Nat
    BY <1>2
  <2> HIDE DEF c, q
  <2>2. /\ Rebased(c, q.revision, q.fresh) \in Command
        /\ Rebased(c, q.revision, q.fresh).present
        /\ Rebased(c, q.revision, q.fresh).completed = c.completed
        /\ \/ Rebased(c, q.revision, q.fresh).expected = c.expected
           \/ /\ c.expected = q.revision
              /\ Rebased(c, q.revision, q.fresh).expected = q.fresh
    BY <2>1 DEF Rebased, Command
  <2> QED BY <2>2, Zenon
<1>5. d.expected <= egm.revision
  BY <1>2, <1>4, Zenon
<1> HIDE DEF d, c
<1>6. /\ egm.withdrawn[f].at # 0 => d.expected = egm.withdrawn[f].expected
      /\ d.expected = c.expected \/ Stale(egm.withdrawn[f], c.expected, egm)
  BY <1>2, <1>3, <1>4, Zenon DEF Stale
<1>7. revocations'[f] = d /\ c = revocations[f] /\ ledger' = ledger
  BY <1>1, <1>2, Zenon DEF c
<1>8. StoresOK' /\ Evolves
  BY <1>1, <1>2, <1>3, <1>4, <1>5, <1>6, <1>7, RevocationChanges, ZenonT(40)
<1>9. Moved(p, ledger', projections', revocations', egm')
  <2>1. d = CommandOf(q, projections', revocations')
    BY <1>1, <1>7 DEF CommandOf
  <2> QED
    BY <1>1, <1>4, <1>8, <2>1, StillKnows, RebaseNext, Zenon
<1> QED
  BY <1>1, <1>8, <1>9, MovedKeeps, Zenon

\* A completion is written once.
LEMMA CompletedCommand ==
  ASSUME NEW c \in Command, NEW v \in Nat, NEW at \in Nat
  PROVE  LET d == Completed(c, v, at) IN
         /\ d \in Command /\ (c.present => d.present) /\ d.expected = c.expected
         /\ d.completed = c.completed \/ (c.completed = 0 /\ d.completed = at)
BY DEF Completed, Command

\* The projection is completed with the result EGM holds.
LEMMA CompleteProjectionKeeps ==
  ASSUME BridgeInv, NEW p \in Workers, CompleteProjection(p)
  PROVE  BridgeInv'
<1> DEFINE q == procs[p]
           f == q.fact
           c == projections[f]
           d == Completed(c, q.revision, q.fresh)
<1>1. /\ q.pc = "complete" /\ q.job # "revoke" /\ AfterComplete(p, d) /\ export' = export
      /\ projections' = [projections EXCEPT ![f] = d]
      /\ UNCHANGED <<ledger, revocations, binding, cursor, egm>>
  BY Zenon DEF CompleteProjection
<1>2. /\ q \in Proc /\ f \in Fact /\ StoresOK /\ c \in Command /\ q.revision \in Nat
      /\ q.fresh \in Nat /\ c.expected <= egm.revision
      /\ ledger[f].present /\ projections \in [Fact -> Command] /\ c.present
      /\ egm.evidence[f].at = q.fresh
  <2>1. ReceiptOf(q, egm) = [expected |-> q.revision, at |-> q.fresh]
        /\ ReceiptOf(q, egm) = egm.evidence[f]
    BY <1>1, AtWork, Zenon DEF ProcOK, ReceiptOf
  <2>2. egm.evidence[f].at = q.fresh
    BY <2>1
  <2> QED
    BY <1>1, <2>2, AtWork, ZenonT(40)
       DEF ProcOK, TypedStores, StoresOK, CommandsAreOld, Proc, Carrying, CommandOf
<1>3. /\ egm.evidence[f].at # 0 => c.expected = egm.evidence[f].expected
      /\ c.completed # 0 => c.completed = egm.evidence[f].at
  BY <1>2, Zenon DEF StoresOK, StoresAgree
<1>4. /\ d \in Command /\ d.present /\ d.expected = c.expected
      /\ d.completed = c.completed \/ (c.completed = 0 /\ d.completed = q.fresh)
  <2>1. c \in Command /\ c.present /\ q.revision \in Nat /\ q.fresh \in Nat
    BY <1>2
  <2> HIDE DEF c, q
  <2> QED BY <2>1, CompletedCommand, ZenonT(40)
<1>5. projections'[f] = d
  BY <1>1, <1>2, Zenon
<1> HIDE DEF d
<1>6. StoresOK' /\ Evolves
  BY <1>1, <1>2, <1>3, <1>4, ProjectionChanges, Zenon
<1>7. Moved(p, ledger', projections', revocations', egm')
  <2>1. d = CommandOf(q, projections', revocations')
    BY <1>1, <1>5, Zenon DEF CommandOf
  <2> QED
    BY <1>1, <1>4, <1>6, <2>1, StillKnows, CompleteNext, ZenonT(40)
<1> QED
  BY <1>1, <1>6, <1>7, MovedKeeps, ZenonT(40)

\* The revocation is completed with the result EGM holds.
LEMMA CompleteRevocationKeeps ==
  ASSUME BridgeInv, NEW p \in Workers, CompleteRevocation(p)
  PROVE  BridgeInv'
<1> DEFINE q == procs[p]
           f == q.fact
           c == revocations[f]
           d == Completed(c, q.revision, q.fresh)
<1>1. /\ q.pc = "complete" /\ q.job = "revoke" /\ AfterComplete(p, d) /\ export' = export
      /\ revocations' = [revocations EXCEPT ![f] = d]
      /\ UNCHANGED <<ledger, projections, binding, cursor, egm>>
  BY DEF CompleteRevocation
<1>2. /\ q \in Proc /\ f \in Fact /\ StoresOK /\ c \in Command /\ q.revision \in Nat
      /\ q.fresh \in Nat /\ c.expected <= egm.revision
      /\ revocations \in [Fact -> Command] /\ c.present
      /\ egm.withdrawn[f].at = q.fresh
  <2>1. ReceiptOf(q, egm) = [expected |-> q.revision, at |-> q.fresh]
        /\ ReceiptOf(q, egm) = egm.withdrawn[f]
    BY <1>1, AtWork, Zenon DEF ProcOK, ReceiptOf
  <2>2. egm.withdrawn[f].at = q.fresh
    BY <2>1
  <2> QED
    BY <1>1, <2>2, AtWork, ZenonT(40)
       DEF ProcOK, TypedStores, StoresOK, CommandsAreOld, Proc, Carrying, CommandOf
<1>3. /\ egm.withdrawn[f].at # 0 => c.expected = egm.withdrawn[f].expected
      /\ c.completed # 0 => c.completed = egm.withdrawn[f].at
      /\ ledger[f].revoked /\ ledger[f].present /\ ledger \in [Fact -> Row]
  BY <1>2, Zenon DEF StoresOK, StoresAgree, TypedStores
<1>4. /\ d \in Command /\ d.present /\ d.expected = c.expected
      /\ d.completed = c.completed \/ (c.completed = 0 /\ d.completed = q.fresh)
  <2>1. c \in Command /\ c.present /\ q.revision \in Nat /\ q.fresh \in Nat
    BY <1>2
  <2> HIDE DEF c, q
  <2> QED BY <2>1, CompletedCommand, Zenon
<1>5. revocations'[f] = d /\ ledger' = ledger
  BY <1>1, <1>2, Zenon
<1> HIDE DEF d
<1>6. StoresOK' /\ Evolves
  BY <1>1, <1>2, <1>3, <1>4, <1>5, RevocationChanges, ZenonT(40)
<1>7. Moved(p, ledger', projections', revocations', egm')
  <2>1. d = CommandOf(q, projections', revocations')
    BY <1>1, <1>5, Zenon DEF CommandOf
  <2> QED
    BY <1>1, <1>4, <1>6, <2>1, StillKnows, CompleteNext, ZenonT(40)
<1> QED
  BY <1>1, <1>6, <1>7, MovedKeeps, Zenon

-----------------------------------------------------------------------------
(* The invariant and what it gives.                                        *)

\* The initial states.
LEMMA BridgeInitially == BridgeInit => BridgeInv
<1> SUFFICES ASSUME BridgeInit PROVE BridgeInv
  OBVIOUS
<1> DEFINE row == [present |-> FALSE, revoked |-> FALSE,
                   export |-> CHOOSE e \in Exports : TRUE]
<1>1. row \in Row /\ ~ row.present /\ ~ row.revoked
  BY DEF Row
<1>2. /\ NoCommand \in Command /\ NoCommand.expected = 0 /\ NoCommand.completed = 0
      /\ ~ NoCommand.present /\ NoReceipt \in Receipt /\ NoReceipt.at = 0
  BY DEF NoCommand, NoReceipt, Command, Receipt
<1>3. /\ ledger = [f \in Fact |-> row] /\ projections = [f \in Fact |-> NoCommand]
      /\ revocations = [f \in Fact |-> NoCommand] /\ binding = FALSE /\ cursor = 0
      /\ export \in [Workers -> Exports] /\ procs = [p \in Workers |-> IdleProc]
  BY DEF BridgeInit
<1> HIDE DEF row
<1>4. /\ egm \in EgmCase /\ egm.revision = 0
      /\ \A f \in Fact : egm.evidence[f].at = 0 /\ egm.withdrawn[f].at = 0
  BY <1>2 DEF BridgeInit, EgmCase
<1>5. TypedStores
  <2>1. /\ ledger \in [Fact -> Row] /\ projections \in [Fact -> Command]
        /\ revocations \in [Fact -> Command]
    BY <1>1, <1>2, <1>3, Zenon
  <2>4. 0 \in 0..Facts
    OBVIOUS
  <2>2. binding \in BOOLEAN /\ cursor \in 0..Facts
    BY <1>3, <2>4, Zenon
  <2>3. \A f \in Fact : ~ ledger[f].revoked /\ ~ projections[f].present
    BY <1>1, <1>2, <1>3
  <2> QED
    BY <1>4, <2>1, <2>2, <2>3, Zenon DEF TypedStores
<1>6. StoresAgree
  BY <1>1, <1>2, <1>3, <1>4 DEF StoresAgree
<1>7. CursorCovers /\ CommandsAreOld
  BY <1>2, <1>3, <1>4 DEF CursorCovers, CommandsAreOld
<1>8. \A p \in Workers : procs[p] = IdleProc
  BY <1>3, ZenonT(40)
<1>9. ProcOK(IdleProc, ledger, projections, revocations, egm)
  BY <1>4, IdleIsProc DEF ProcOK, Carrying
<1> QED
  BY <1>3, <1>5, <1>6, <1>7, <1>8, <1>9, IdleIsProc DEF BridgeInv, StoresOK

\* Every step.
LEMMA BridgeStep == BridgeInv /\ [BridgeNext]_bridgeVars => BridgeInv'
<1> SUFFICES ASSUME BridgeInv, [BridgeNext]_bridgeVars PROVE BridgeInv'
  OBVIOUS
<1>1. CASE UNCHANGED bridgeVars
  BY <1>1, ZenonT(40) DEF bridgeVars, BridgeInv, StoresOK, TypedStores, StoresAgree,
                          CursorCovers, CommandsAreOld
<1>2. ASSUME NEW p \in Workers, WorkerStep(p) PROVE BridgeInv'
  BY <1>2, PersistKeeps, BindKeeps, PutBindingKeeps, LoadKeeps, ReadRevisionKeeps,
     ReserveProjectionKeeps, ReserveRevocationKeeps, IngestEvidenceKeeps,
     RevokeEvidenceKeeps, RebaseProjectionKeeps, RebaseRevocationKeeps,
     CompleteProjectionKeeps, CompleteRevocationKeeps, AdvanceKeeps, ZenonT(40)
     DEF WorkerStep
<1>3. ASSUME NEW p \in Workers, StartImport(p) \/ Stop(p) PROVE BridgeInv'
  BY <1>3, StartImportKeeps, StopKeeps, Zenon
<1>4. ASSUME NEW p \in Workers, NEW f \in Fact, StartLookup(p, f) \/ StartRevoke(p, f)
      PROVE  BridgeInv'
  BY <1>4, StartLookupKeeps, StartRevokeKeeps, Zenon
<1>5. CASE OtherWrite
  BY <1>5, OtherWriteKeeps, Zenon
<1> QED
  BY <1>1, <1>2, <1>3, <1>4, <1>5, Zenon DEF BridgeNext

\* The inductive invariant of the bridge.
THEOREM BridgeInvariant == BridgeSpec => []BridgeInv
BY BridgeInitially, BridgeStep, PTL DEF BridgeSpec

\* The two stores agree at every moment, whatever the workers, the crashes and
\* the other writers do (ConnectorEvidenceRecorder).
THEOREM BridgeStoresAgree == BridgeSpec => []StoresAgree
<1>1. BridgeInv => StoresAgree
  BY DEF BridgeInv, StoresOK
<1> QED BY <1>1, BridgeInvariant, PTL

\* The cursor passes no message before it is in both stores
\* (import_buyer_history).
THEOREM CursorIsCovered == BridgeSpec => []CursorCovers
<1>1. BridgeInv => CursorCovers
  BY DEF BridgeInv, StoresOK
<1> QED BY <1>1, BridgeInvariant, PTL

=============================================================================
