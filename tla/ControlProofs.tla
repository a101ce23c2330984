--------------------------- MODULE ControlProofs ----------------------------
(***************************************************************************)
(* Proofs about Recovery, for any Actions, limit and clock bound: a safety *)
(* margin above the longest transaction plus the time between the snapshot *)
(* and its clock reading makes the review list complete; and about         *)
(* ReviewGate, for any reviews, people, plans and limits: the gate         *)
(* conserves its budgets, what it releases can resume, and a decision      *)
(* routes a Run once.                                                      *)
(***************************************************************************)
EXTENDS Recovery, ReviewGate, TLAPS

-----------------------------------------------------------------------------
(* The review list after a restore.                                         *)

\* A transaction is stamped in the past and does not outlive MaxOpen.
OpenOK == \A a \in Actions :
  open[a] # None => open[a].at <= clock /\ clock <= open[a].at + MaxOpen

\* The recovery point is read soon after the snapshot.
PointOK == /\ snapAt > 0 /\ point = 0 => clock <= snapAt + MaxGap
           /\ point > 0 => snapAt > 0 /\ point <= snapAt + MaxGap

\* What the dump misses was stamped at most one transaction before it.
MissedOK == snapAt > 0 =>
  \A a \in Actions : live[a] # copy[a] => live[a].at + MaxOpen >= snapAt

\* The inductive invariant.
RvInv == RvTypeOK /\ OpenOK /\ PointOK /\ MissedOK

-----------------------------------------------------------------------------
\* A report has at most Limit entries, and one with fewer has them all: what is
\* used of counting below, and proved at the end (ReportsCounted).
NewestCounted ==
  /\ Cardinality({}) = 0
  /\ \A t : \A s \in SUBSET Actions : \A e \in Newest(t, s) :
       Cardinality(e) <= Limit /\ (Cardinality(e) < Limit => e = s)

\* The table a report on the surviving database selects from.
LEMMA SelectedIsWide ==
  ASSUME RvInv, Margin > MaxOpen + MaxGap, point > 0,
         NEW a \in Actions, Undescribed(a)
  PROVE  a \in Selected(live)
<1>1. live[a] \in Row \cup {None} /\ live[a] # None
  BY DEF RvInv, RvTypeOK, Undescribed
<1>2. live[a].at \in Int
  BY <1>1 DEF Row
<1>3. CASE live[a].unknown
  BY <1>1, <1>3 DEF Selected
<1>4. CASE live[a] # copy[a]
  <2>1. snapAt \in Int /\ point \in Int
    BY DEF RvInv, RvTypeOK
  <2>2. live[a].at + MaxOpen >= snapAt /\ point <= snapAt + MaxGap
    BY <1>4 DEF RvInv, PointOK, MissedOK
  <2>3. live[a].at > point - Margin
    BY <1>2, <2>1, <2>2, RvAssumption
  <2> QED
    BY <1>1, <2>3 DEF Selected, Cut
<1> QED
  BY <1>3, <1>4 DEF Undescribed

\* The initial state has no rows, no dump and no report.
LEMMA InitInv ==
  ASSUME NewestCounted, RvInit
  PROVE  RvInv
<1> USE DEF RvInit
<1>1. Cardinality({}) = 0
  BY DEF NewestCounted
<1>2. RvTypeOK
  BY <1>1, RvAssumption DEF RvTypeOK, NoList
<1>3. OpenOK /\ PointOK /\ MissedOK
  BY DEF OpenOK, PointOK, MissedOK
<1> QED
  BY <1>2, <1>3 DEF RvInv

\* Every step keeps the invariant.
LEMMA NextInv ==
  ASSUME NewestCounted, RvInv, [RvNext]_rvVars
  PROVE  RvInv'
<1> USE DEF RvInv
<1>0. /\ clock \in Nat /\ clock <= MaxTime /\ clock >= 1
      /\ snapAt \in Nat /\ snapAt <= clock /\ point \in Nat /\ point <= clock
      /\ MaxTime \in Nat /\ MaxOpen \in Nat /\ MaxGap \in Nat
  BY RvAssumption DEF RvTypeOK
<1>1. CASE RvTick
  <2> USE <1>1 DEF RvTick
  <2>1. RvTypeOK'
    BY <1>0 DEF RvTypeOK
  <2>2. OpenOK'
    <3> SUFFICES ASSUME NEW a \in Actions, open[a] # None
                 PROVE  open[a].at <= clock + 1 /\ clock + 1 <= open[a].at + MaxOpen
      BY DEF OpenOK
    <3>1. open[a].at \in Nat
      BY DEF RvTypeOK, Row
    <3> QED
      BY <1>0, <3>1 DEF OpenOK
  <2>3. PointOK'
    BY <1>0 DEF PointOK
  <2>4. MissedOK'
    BY DEF MissedOK
  <2> QED
    BY <2>1, <2>2, <2>3, <2>4
<1>2. CASE \E a \in Actions : Write(a)
  <2> PICK a \in Actions : Write(a)
    BY <1>2
  <2> PICK u \in BOOLEAN :
        open' = [open EXCEPT ![a] = [at |-> clock, unknown |-> u]]
    BY ZenonT(40) DEF Write
  <2> UNCHANGED <<clock, live, copy, snapAt, point, list>>
    BY DEF Write
  <2>1. [at |-> clock, unknown |-> u] \in Row
    BY <1>0 DEF Row
  <2>2. RvTypeOK'
    BY <2>1 DEF RvTypeOK
  <2>3. OpenOK'
    BY <1>0 DEF OpenOK, RvTypeOK
  <2>4. PointOK' /\ MissedOK'
    BY DEF PointOK, MissedOK
  <2> QED
    BY <2>2, <2>3, <2>4
<1>3. CASE \E a \in Actions : Commit(a)
  <2> PICK a \in Actions : Commit(a)
    BY <1>3
  <2> USE DEF Commit
  <2>1. open[a] \in Row \cup {None} /\ None \in Row \cup {None}
    BY DEF RvTypeOK
  <2>2. RvTypeOK'
    BY <2>1 DEF RvTypeOK
  <2>3. OpenOK'
    BY DEF OpenOK, RvTypeOK
  <2>4. PointOK'
    BY DEF PointOK
  <2>5. MissedOK'
    <3> SUFFICES ASSUME snapAt > 0, NEW b \in Actions, live'[b] # copy[b]
                 PROVE  live'[b].at + MaxOpen >= snapAt
      BY DEF MissedOK
    <3>1. CASE b = a
      <4>1. live'[b] = open[a] /\ open[a].at \in Nat
        BY <3>1, <2>1 DEF RvTypeOK, Row
      <4>2. clock <= open[a].at + MaxOpen
        BY DEF OpenOK
      <4> QED
        BY <1>0, <4>1, <4>2
    <3>2. CASE b # a
      BY <3>2 DEF MissedOK, RvTypeOK
    <3> QED
      BY <3>1, <3>2
  <2> QED
    BY <2>2, <2>3, <2>4, <2>5
<1>4. CASE \E a \in Actions : Rollback(a)
  <2> PICK a \in Actions : Rollback(a)
    BY <1>4
  <2> USE DEF Rollback
  <2>1. RvTypeOK'
    BY DEF RvTypeOK
  <2>2. OpenOK'
    BY DEF OpenOK, RvTypeOK
  <2>3. PointOK' /\ MissedOK'
    BY DEF PointOK, MissedOK
  <2> QED
    BY <2>1, <2>2, <2>3
<1>5. CASE ExportSnapshot
  <2> USE <1>5 DEF ExportSnapshot
  <2>1. RvTypeOK'
    BY <1>0 DEF RvTypeOK
  <2>2. OpenOK'
    BY DEF OpenOK
  <2>3. PointOK'
    BY <1>0 DEF PointOK
  <2>4. MissedOK'
    BY DEF MissedOK
  <2> QED
    BY <2>1, <2>2, <2>3, <2>4
<1>6. CASE ReadSnapshot
  <2> USE <1>6 DEF ReadSnapshot
  <2>1. RvTypeOK'
    BY <1>0 DEF RvTypeOK
  <2>2. OpenOK' /\ MissedOK'
    BY DEF OpenOK, MissedOK
  <2>3. PointOK'
    BY <1>0 DEF PointOK
  <2> QED
    BY <2>1, <2>2, <2>3
<1>7. CASE BuildReconciliation
  <2> DEFINE t == IF FromCopy THEN copy ELSE live
  <2>1. PICK e \in Newest(t, Selected(t)) :
               list' = [made |-> TRUE, entries |-> e]
    BY <1>7, ZenonT(40) DEF BuildReconciliation
  <2>2. UNCHANGED <<clock, live, open, copy, snapAt, point>>
    BY <1>7 DEF BuildReconciliation
  <2>3. Selected(t) \in SUBSET Actions
    BY DEF Selected
  <2>4. e \subseteq Actions /\ Cardinality(e) <= Limit
    <3> HIDE DEF t
    <3>1. Cardinality(e) <= Limit
      BY <2>3 DEF NewestCounted
    <3> QED
      BY <2>3, <3>1 DEF Newest
  <2>5. list'.entries = e
    BY <2>1
  <2>6. RvTypeOK'
    BY <2>2, <2>4, <2>5 DEF RvTypeOK
  <2>7. OpenOK' /\ PointOK' /\ MissedOK'
    BY <2>2 DEF OpenOK, PointOK, MissedOK
  <2> QED
    BY <2>6, <2>7
<1>8. CASE UNCHANGED rvVars
  BY <1>8 DEF rvVars, RvTypeOK, OpenOK, PointOK, MissedOK
<1> QED
  BY <1>1, <1>2, <1>3, <1>4, <1>5, <1>6, <1>7, <1>8 DEF RvNext

\* A report made on the surviving database: what it names and leaves out.
LEMMA ReportMade ==
  ASSUME RvInv, ~FromCopy, [RvNext]_rvVars, ~list.made, list'.made
  PROVE  point > 0 /\ list'.entries \in Newest(live, Selected(live))
<1>1. BuildReconciliation
  BY DEF RvNext, rvVars, RvTick, Write, Commit, Rollback, ExportSnapshot,
         ReadSnapshot
<1> QED
  BY <1>1 DEF BuildReconciliation

\* A report below its limit that the surviving database made has all that the
\* dump misdescribes.
LEMMA ReportIsComplete ==
  ASSUME NewestCounted, Margin > MaxOpen + MaxGap, ~FromCopy,
         RvInv, [RvNext]_rvVars, ~list.made, list'.made,
         Cardinality(list'.entries) < Limit, NEW a \in Actions, Undescribed(a)
  PROVE  a \in list'.entries
<1>1. point > 0 /\ list'.entries \in Newest(live, Selected(live))
  BY ReportMade
<1>2. Selected(live) \in SUBSET Actions
  BY DEF Selected
<1>3. list'.entries = Selected(live)
  BY <1>1, <1>2 DEF NewestCounted
<1> QED
  BY <1>1, <1>3, SelectedIsWide

\* A capped one leaves out nothing of that which is newer than what it has.
LEMMA ReportIsByAge ==
  ASSUME Margin > MaxOpen + MaxGap, ~FromCopy,
         RvInv, [RvNext]_rvVars, ~list.made, list'.made,
         NEW a \in Actions, NEW b \in Actions, b \in list'.entries, a \notin list'.entries,
         live[a].at > live[b].at, Undescribed(a)
  PROVE  FALSE
<1>1. point > 0 /\ list'.entries \in Newest(live, Selected(live))
  BY ReportMade
<1>2. a \in Selected(live) \ list'.entries
  BY <1>1, SelectedIsWide
<1>3. live[b].at >= live[a].at
  BY <1>1, <1>2 DEF Newest
<1>4. live[a].at \in Int /\ live[b].at \in Int
  <2>1. live[a] \in Row \cup {None} /\ live[b] \in Row \cup {None}
    BY DEF RvInv, RvTypeOK
  <2> QED
    BY <2>1 DEF Row, None
<1> QED
  BY <1>3, <1>4

-----------------------------------------------------------------------------
(* The review gate.                                                         *)

USE GateAssumption, ReasonAssumption

\* A Run without a checkpoint has spent nothing.
Unstarted ==
  gateCkpt.version = 0 =>
    gateCkpt.model = ModelLimit /\ gateCkpt.tool = ToolLimit /\ gateCkpt.results = {}

GateInv == GateTypeOK /\ BudgetConserved /\ ReleasedIsResumable /\ Unstarted

Blocking == Exhausted \cup {"model_strategy_changed"}

\* The numbers of a checkpoint, and of the invariant.
LEMMA CheckpointNumbers ==
  \A c \in GateCheckpoint : c.version \in Nat /\ c.model \in Nat /\ c.tool \in Nat
BY DEF GateCheckpoint

LEMMA GateNumbers ==
  ASSUME GateInv
  PROVE  /\ gateCkpt \in GateCheckpoint
         /\ gateCkpt.version \in Nat /\ gateCkpt.model \in Nat /\ gateCkpt.tool \in Nat
         /\ turns \in Nat /\ transients \in 0..MaxTransients /\ crashes \in 0..MaxCrashes
         /\ granted.model \in Nat /\ granted.tool \in Nat
BY CheckpointNumbers DEF GateInv, GateTypeOK

\* A saved checkpoint has the next version and keeps the rest.
LEMMA AdvancedRow ==
  ASSUME NEW c \in GateCheckpoint
  PROVE  LET d == Advanced(c) IN
         /\ d \in GateCheckpoint /\ d.version = c.version + 1
         /\ d.model = c.model /\ d.tool = c.tool /\ d.cost = c.cost /\ d.left = c.left
         /\ d.results = c.results /\ d.strategy = c.strategy
         /\ d.next = c.next /\ d.reason = c.reason /\ d.pending = c.pending
BY DEF Advanced, GateCheckpoint

\* A routed checkpoint keeps its budgets and results.
LEMMA RoutedRow ==
  ASSUME NEW c \in GateCheckpoint, NEW next \in {"retry", "review"},
         NEW reason \in RouteReason, NEW wait \in Nat
  PROVE  LET d == Routed(c, next, reason, wait) IN
         /\ d \in GateCheckpoint /\ d.version = c.version + 1
         /\ d.model = c.model /\ d.tool = c.tool /\ d.results = c.results
         /\ d.next = next /\ d.reason = reason
<1> DEFINE b == Advanced(c)
<1>1. b \in GateCheckpoint /\ b.version = c.version + 1
      /\ b.model = c.model /\ b.tool = c.tool /\ b.results = c.results
  BY AdvancedRow
<1> HIDE DEF b
<1>2. [b EXCEPT !.next = next, !.reason = reason, !.wait = wait,
                      !.pending = NoCall, !.proposal = FALSE] \in GateCheckpoint
  BY <1>1, Zenon DEF GateCheckpoint
<1> QED BY <1>1, <1>2 DEF Routed, b, GateCheckpoint


\* A call costs one unit of the model budget.
LEMMA SpentRow ==
  ASSUME NEW c \in GateCheckpoint, c.model >= 1
  PROVE  LET d == SpentOneCall(c) IN
         /\ d \in GateCheckpoint /\ d.version = c.version /\ d.model = c.model - 1
         /\ d.tool = c.tool /\ d.results = c.results /\ d.cost = c.cost
         /\ d.next = c.next /\ d.reason = c.reason /\ d.pending = c.pending
BY DEF SpentOneCall, GateCheckpoint

\* A call with its cost.
LEMMA ChargedRow ==
  ASSUME NEW c \in GateCheckpoint, c.model >= 1, NEW cost \in Costs, cost <= c.cost
  PROVE  LET d == Charged(c, cost) IN
         /\ d \in GateCheckpoint /\ d.version = c.version /\ d.model = c.model - 1
         /\ d.tool = c.tool /\ d.results = c.results
         /\ d.next = c.next /\ d.reason = c.reason /\ d.pending = c.pending
<1> DEFINE b == SpentOneCall(c)
<1>1. /\ b \in GateCheckpoint /\ b.version = c.version /\ b.model = c.model - 1
      /\ b.tool = c.tool /\ b.results = c.results /\ b.cost = c.cost
      /\ b.next = c.next /\ b.reason = c.reason /\ b.pending = c.pending
  BY SpentRow
<1> HIDE DEF b
<1>2. cost \in Nat
  OBVIOUS
<1>3. [b EXCEPT !.cost = @ - cost] \in GateCheckpoint
  BY <1>1, <1>2 DEF GateCheckpoint
<1> QED
  BY <1>1, <1>3 DEF Charged, b, GateCheckpoint

\* The checkpoint of a claimed Run.
LEMMA FreshRow ==
  ASSUME GateInv, Runnable
  PROVE  /\ Fresh \in GateCheckpoint /\ gateCkpt.version <= Fresh.version
         /\ Fresh.model = gateCkpt.model /\ Fresh.tool = gateCkpt.tool
         /\ Fresh.results = gateCkpt.results /\ Loads(Fresh)
<1>0. gateCkpt \in GateCheckpoint /\ deployed \in Strategy
  BY DEF GateInv, GateTypeOK
<1>1. CASE gateCkpt.version = 0
  <2> DEFINE b == GateStart(deployed)
             d == [b EXCEPT !.version = 1]
  <2>1. /\ b \in GateCheckpoint /\ b.model = ModelLimit
        /\ b.tool = ToolLimit /\ b.results = {} /\ b.next = "model"
        /\ b.reason = NoReason /\ b.pending = NoCall /\ b.proposal = FALSE
    BY <1>0 DEF GateStart, GateCheckpoint
  <2>2. Fresh = d
    BY <1>1, Zenon DEF Fresh
  <2> HIDE DEF b
  <2>3. /\ d \in GateCheckpoint /\ d.version = 1 /\ d.model = ModelLimit
        /\ d.tool = ToolLimit /\ d.results = {} /\ d.next = "model"
        /\ d.reason = NoReason /\ d.pending = NoCall /\ d.proposal = FALSE
    BY <2>1 DEF GateCheckpoint
  <2> HIDE DEF d
  <2>4. Loads(d)
    BY <2>3 DEF Loads
  <2> QED
    BY <1>1, <2>2, <2>3, <2>4 DEF GateInv, Unstarted
<1>2. CASE gateCkpt.version # 0
  <2>1. Fresh = gateCkpt /\ Loads(gateCkpt)
    BY <1>2 DEF Fresh, Runnable
  <2>2. gateCkpt.version <= gateCkpt.version
    BY <1>0 DEF GateCheckpoint
  <2> QED
    BY <1>0, <2>1, <2>2
<1> QED
  BY <1>1, <1>2

\* What its slice starts from.
LEMMA ResumedRow ==
  ASSUME GateInv, Runnable
  PROVE  /\ Resumed \in GateCheckpoint /\ gateCkpt.version <= Resumed.version
         /\ Resumed.model = gateCkpt.model /\ Resumed.tool = gateCkpt.tool
         /\ Resumed.results = gateCkpt.results /\ Resumed.reason = NoReason
         /\ Resumed.next = "tool" =>
              Resumed.pending \in CallIds /\ Resumed.pending \notin Resumed.results
<1>1. /\ Fresh \in GateCheckpoint /\ gateCkpt.version <= Fresh.version
      /\ Fresh.model = gateCkpt.model /\ Fresh.tool = gateCkpt.tool
      /\ Fresh.results = gateCkpt.results /\ Loads(Fresh)
  BY FreshRow
<1> DEFINE b == Fresh
<1> HIDE DEF b
<1>2. CASE b.next \in {"review", "retry"}
  <2> DEFINE d == [b EXCEPT !.next = "model", !.reason = NoReason, !.wait = 0]
  <2>1. Resumed = d
    BY <1>2 DEF Resumed, b
  <2>2. /\ d \in GateCheckpoint /\ d.version = b.version /\ d.model = b.model
        /\ d.tool = b.tool /\ d.results = b.results /\ d.next = "model"
        /\ d.reason = NoReason
    BY <1>1, Zenon DEF GateCheckpoint, b
  <2> HIDE DEF d
  <2> QED
    BY <1>1, <2>1, <2>2 DEF b
<1>3. CASE b.next \notin {"review", "retry"}
  <2>1. Resumed = b
    BY <1>3 DEF Resumed, b
  <2>2. b.pending \in CallIds \cup {NoCall}
    BY <1>1 DEF GateCheckpoint, b
  <2>3. /\ b.reason = NoReason
        /\ b.next = "tool" => b.pending \in CallIds /\ b.pending \notin b.results
    BY <1>1, <1>3, <2>2 DEF Loads, b
  <2> QED
    BY <1>1, <2>1, <2>3 DEF b
<1> QED
  BY <1>2, <1>3

\* A slice that conserves what it spends keeps the invariant.
LEMMA SaveKeeps ==
  ASSUME GateInv, Runnable, NEW c \in GateCheckpoint, Save(c),
         gateCkpt.version < c.version, turns' \in Nat, transients' \in 0..MaxTransients,
         c.model + turns' = gateCkpt.model + turns,
         c.tool + Cardinality(c.results) = gateCkpt.tool + Cardinality(gateCkpt.results),
         c.reason \notin Blocking \/ c.next = "review"
  PROVE  GateInv'
<1>1. /\ gateCkpt' = c /\ gateRun' = RunStateFor(c) /\ gateRun \in {"READY", "RETRY_AT"}
      /\ UNCHANGED <<reviews, overrides, migrations, gateEvents, deployed, granted, crashes>>
  BY DEF Save, Runnable
<1>2. /\ gateRun' \in {"READY", "RETRY_AT", "REVIEW", "COMPLETED", "CANCELLED"}
      /\ c.next = "review" => gateRun' = "REVIEW"
  BY <1>1 DEF RunStateFor
<1>3. GateTypeOK'
  BY <1>1, <1>2 DEF GateInv, GateTypeOK
<1>4. BudgetConserved'
  <2>1. /\ c.model + turns' = ModelLimit + granted.model + crashes
        /\ c.tool + Cardinality(c.results) = ToolLimit + granted.tool
    BY DEF GateInv, BudgetConserved
  <2>2. \A o \in overrides : o.version < c.version
    <3>1. /\ \A o \in overrides : o.version \in Nat /\ o.version < gateCkpt.version
          /\ c.version \in Nat /\ gateCkpt.version \in Nat
      BY DEF GateInv, BudgetConserved, GateTypeOK, GateCheckpoint
    <3> QED
      BY <3>1
  <2> QED
    BY <1>1, <2>1, <2>2 DEF GateInv, BudgetConserved
<1>5. ReleasedIsResumable'
  BY <1>1, <1>2 DEF GateInv, ReleasedIsResumable, Blocking
<1>6. Unstarted'
  <2>1. c.version # 0
    BY DEF GateInv, GateTypeOK, GateCheckpoint
  <2> QED
    BY <1>1, <2>1 DEF Unstarted
<1> QED
  BY <1>3, <1>4, <1>5, <1>6 DEF GateInv

\* A slice that parks the Run, having spent what the turns say.
LEMMA ParkKeeps ==
  ASSUME GateInv, Runnable, NEW c \in GateCheckpoint, gateCkpt.version <= c.version,
         turns' \in Nat, transients' \in 0..MaxTransients,
         c.model + turns' = gateCkpt.model + turns, c.tool = gateCkpt.tool,
         c.results = gateCkpt.results,
         NEW next \in {"retry", "review"}, NEW reason \in RouteReason, NEW wait \in Nat,
         reason \notin Blocking \/ next = "review",
         Save(Routed(c, next, reason, wait))
  PROVE  GateInv'
<1> DEFINE d == Routed(c, next, reason, wait)
<1>1. /\ d \in GateCheckpoint /\ d.version = c.version + 1
      /\ d.model = c.model /\ d.tool = c.tool /\ d.results = c.results
      /\ d.next = next /\ d.reason = reason
  BY ONLY RoutedRow, c \in GateCheckpoint, next \in {"retry", "review"},
          reason \in RouteReason, wait \in Nat
<1>2. Save(d)
  OBVIOUS
<1> HIDE DEF d
<1>3. gateCkpt.version < d.version
  BY <1>1 DEF GateInv, GateTypeOK, GateCheckpoint
<1> QED
  BY <1>1, <1>2, <1>3, SaveKeeps

\* A slice that parks the Run without a model call.
LEMMA QuietParkKeeps ==
  ASSUME GateInv, Runnable, NEW c \in {Fresh, Resumed},
         turns' = turns, transients' \in 0..MaxTransients,
         NEW next \in {"retry", "review"}, NEW reason \in RouteReason, NEW wait \in Nat,
         reason \notin Blocking \/ next = "review",
         Save(Routed(c, next, reason, wait))
  PROVE  GateInv'
<1>1. /\ c \in GateCheckpoint /\ gateCkpt.version <= c.version /\ c.model = gateCkpt.model
      /\ c.tool = gateCkpt.tool /\ c.results = gateCkpt.results
  BY FreshRow, ResumedRow
<1>2. turns' \in Nat /\ c.model + turns' = gateCkpt.model + turns
  BY <1>1 DEF GateInv, GateTypeOK
<1> QED
  BY <1>1, <1>2, ParkKeeps

\* Parking after a paid turn; c is what is left of the budget.
LEMMA PaidParkKeeps ==
  ASSUME GateInv, Runnable, NEW c \in GateCheckpoint,
         c.version = Resumed.version, c.model = Resumed.model - 1, c.tool = Resumed.tool,
         c.results = Resumed.results,
         turns' = turns + 1, transients' = transients,
         NEW next \in {"retry", "review"}, NEW reason \in RouteReason, NEW wait \in Nat,
         reason \notin Blocking \/ next = "review",
         Save(Routed(c, next, reason, wait))
  PROVE  GateInv'
<1>1. /\ Resumed \in GateCheckpoint /\ gateCkpt.version <= c.version
      /\ Resumed.model = gateCkpt.model
      /\ c.tool = gateCkpt.tool /\ c.results = gateCkpt.results
  BY ResumedRow
<1>2. gateCkpt.model \in Nat /\ turns \in Nat /\ transients' \in 0..MaxTransients
  BY DEF GateInv, GateTypeOK, GateCheckpoint
<1>3. turns' \in Nat /\ c.model + turns' = gateCkpt.model + turns
  BY <1>1, <1>2
<1> QED
  BY <1>1, <1>2, <1>3, ParkKeeps

\* The reasons a slice parks with.
LEMMA Reasons ==
  /\ Exhausted \subseteq RouteReason /\ Rejected \subseteq RouteReason
  /\ "model_strategy_changed" \in RouteReason /\ "provider_retryable_error" \in RouteReason
  /\ "executor_rejected" \in RouteReason \ Blocking
  /\ "input_rejected" \in RouteReason \ Blocking
  /\ "provider_retryable_error" \notin Blocking
BY DEF RouteReason, Rejected, Blocking, Exhausted

\* The slices that end before a model call is answered.
LEMMA QuietSlicesKeep ==
  ASSUME GateInv,
         \/ StrategyChanged \/ BeforeRunRefused \/ BeforeRunRetry
         \/ ModelRefused \/ InputRejected \/ InputRetry
         \/ \E reason \in Rejected : ToolRefused(reason)
  PROVE  GateInv'
<1>1. transients \in 0..MaxTransients /\ MaxTransients \in Nat
  BY DEF GateInv, GateTypeOK
<1>2. CASE StrategyChanged
  <2>1. /\ Runnable /\ Save(Routed(Fresh, "review", "model_strategy_changed", 0))
        /\ turns' = turns /\ transients' = transients
    BY <1>2 DEF StrategyChanged, Quietly
  <2> QED
    BY <1>1, <2>1, Reasons, QuietParkKeeps
<1>3. CASE BeforeRunRefused
  <2>1. /\ Runnable /\ Save(Routed(Resumed, "review", "executor_rejected", 0))
        /\ turns' = turns /\ transients' = transients
    BY <1>3 DEF BeforeRunRefused, Quietly
  <2> QED
    BY <1>1, <2>1, Reasons, QuietParkKeeps
<1>4. CASE BeforeRunRetry
  <2>1. /\ Runnable /\ Save(Routed(Resumed, "retry", "executor_rejected", Backoff))
        /\ turns' = turns /\ transients' \in 0..MaxTransients
    BY <1>1, <1>4 DEF BeforeRunRetry
  <2> QED
    BY <2>1, Reasons, QuietParkKeeps
<1>5. CASE ModelRefused
  <2>1. /\ Runnable /\ Save(Routed(Resumed, "review", OutOfBudget, 0))
        /\ turns' = turns /\ transients' = transients /\ OutOfBudget # NoReason
    BY <1>5 DEF ModelRefused, Quietly, Starts
  <2>2. OutOfBudget \in RouteReason
    BY <2>1 DEF OutOfBudget, RouteReason, Exhausted
  <2> QED
    BY <1>1, <2>1, <2>2, QuietParkKeeps
<1>6. CASE InputRejected
  <2>1. /\ Runnable /\ Save(Routed(Resumed, "review", "input_rejected", 0))
        /\ turns' = turns /\ transients' = transients
    BY <1>6 DEF InputRejected, Quietly, MayCall, Starts
  <2> QED
    BY <1>1, <2>1, Reasons, QuietParkKeeps
<1>7. CASE InputRetry
  <2>1. /\ Runnable /\ Save(Routed(Resumed, "retry", "input_rejected", Backoff))
        /\ turns' = turns /\ transients' = transients
    BY <1>7 DEF InputRetry, Quietly, MayCall, Starts
  <2> QED
    BY <1>1, <2>1, Reasons, QuietParkKeeps
<1>8. ASSUME NEW reason \in Rejected, ToolRefused(reason) PROVE GateInv'
  <2>1. /\ Runnable /\ Save(Routed(Resumed, "review", reason, 0))
        /\ turns' = turns /\ transients' = transients
    BY <1>8 DEF ToolRefused, Quietly, Starts
  <2> QED
    BY <1>1, <2>1, Reasons, QuietParkKeeps
<1> QED
  BY <1>2, <1>3, <1>4, <1>5, <1>6, <1>7, <1>8, Zenon

\* What a slice knows when it calls the provider.
LEMMA CallFacts ==
  ASSUME GateInv, MayCall
  PROVE  Runnable /\ Resumed \in GateCheckpoint /\ Resumed.model >= 1
<1>1. Runnable /\ OutOfBudget = NoReason
  BY DEF MayCall, Starts
<1>2. Resumed \in GateCheckpoint
  BY <1>1, ResumedRow
<1> QED
  BY <1>1, <1>2 DEF OutOfBudget, GateCheckpoint, RouteReason, Exhausted

\* A slice whose turn did not succeed: one call is spent, and nothing else.
LEMMA FailedTurnsKeep ==
  ASSUME GateInv,
         \/ \E retryable \in BOOLEAN : ProviderFailed(retryable)
         \/ UsageUnknown
         \/ \E cost \in Costs : CostExceeded(cost)
  PROVE  GateInv'
<1> DEFINE s == SpentOneCall(Resumed)
<1>1. MayCall /\ turns' = turns + 1 /\ transients' = transients
  BY DEF ProviderFailed, UsageUnknown, CostExceeded, Called
<1>2. Runnable /\ Resumed \in GateCheckpoint /\ Resumed.model >= 1
  BY <1>1, CallFacts
<1>3. /\ s \in GateCheckpoint /\ s.version = Resumed.version
      /\ s.model = Resumed.model - 1 /\ s.tool = Resumed.tool /\ s.results = Resumed.results
  BY <1>2, SpentRow, Zenon
<1>4. \A next \in {"retry", "review"}, why \in RouteReason, wait \in Nat :
        (why \notin Blocking \/ next = "review") /\ Save(Routed(s, next, why, wait))
        => GateInv'
  <2> HIDE DEF s
  <2> QED
    BY <1>1, <1>2, <1>3, PaidParkKeeps, Zenon
<1>5. CASE \E retryable \in BOOLEAN : ProviderFailed(retryable)
  <2>1. \/ Save(Routed(s, "retry", "provider_retryable_error", Backoff))
        \/ Save(Routed(s, "review", "provider_error", 0))
    BY <1>5 DEF ProviderFailed, Called
  <2>2. "provider_error" \in RouteReason /\ 0 \in Nat /\ Backoff \in Nat
    BY DEF RouteReason, Rejected
  <2> QED
    BY <1>4, <2>1, <2>2, Reasons, Zenon
<1>6. CASE UsageUnknown
  <2>1. Save(Routed(s, "review", "empty_turn", 0))
    BY <1>6 DEF UsageUnknown, Called
  <2>2. "empty_turn" \in RouteReason /\ 0 \in Nat
    BY DEF RouteReason, Rejected
  <2> QED
    BY <1>4, <2>1, <2>2, Zenon
<1>7. CASE \E cost \in Costs : CostExceeded(cost)
  <2>1. Save(Routed(s, "review", "cost_budget_exhausted", 0))
    BY <1>7 DEF CostExceeded, Called
  <2>2. "cost_budget_exhausted" \in RouteReason /\ 0 \in Nat
    BY DEF RouteReason, Exhausted
  <2> QED
    BY <1>4, <2>1, <2>2, Zenon
<1> QED
  BY <1>5, <1>6, <1>7, Zenon

\* A slice whose turn was paid for and refused.
LEMMA RefusedTurnsKeep ==
  ASSUME GateInv, NEW cost \in Costs,
         \/ \E reason \in Rejected : TurnRejected(cost, reason)
         \/ \E id \in CallIds : ToolAsked(cost, id) /\ Resumed.tool < 1
  PROVE  GateInv'
<1> DEFINE g == Charged(Resumed, cost)
<1>1. MayCall /\ cost <= Resumed.cost /\ turns' = turns + 1 /\ transients' = transients
  BY Zenon DEF TurnRejected, ToolAsked, Called
<1>2. Runnable /\ Resumed \in GateCheckpoint /\ Resumed.model >= 1
  BY <1>1, CallFacts
<1>3. /\ g \in GateCheckpoint /\ g.version = Resumed.version
      /\ g.model = Resumed.model - 1 /\ g.tool = Resumed.tool /\ g.results = Resumed.results
  BY <1>1, <1>2, ChargedRow, Zenon
<1>4. \E why \in RouteReason : Save(Routed(g, "review", why, 0))
  <2>1. "tool_budget_exhausted" \in RouteReason
    BY DEF RouteReason, Exhausted
  <2> QED
    BY <2>1, Reasons, Zenon DEF TurnRejected, ToolAsked, Called
<1> HIDE DEF g
<1>5. 0 \in Nat
  OBVIOUS
<1> QED
  BY <1>1, <1>2, <1>3, <1>4, <1>5, PaidParkKeeps, Zenon

\* A slice that calls the provider and leaves the Run ready.
LEMMA TurnSlicesKeep ==
  ASSUME GateInv, NEW cost \in Costs, NEW id \in CallIds \cup {NoCall},
         \/ ToolAsked(cost, id) /\ ~ Resumed.tool < 1
         \/ Proposed(cost)
  PROVE  GateInv'
<1> DEFINE g == Charged(Resumed, cost)
           b == Advanced(g)
           t == [b EXCEPT !.next = "tool", !.pending = id]
           e == [b EXCEPT !.next = "evaluate", !.proposal = TRUE]
<1>1. MayCall /\ Runnable /\ OutOfBudget = NoReason
  BY DEF ToolAsked, Proposed, Called, MayCall, Starts
<1>2. /\ Resumed \in GateCheckpoint /\ gateCkpt.version <= Resumed.version
      /\ Resumed.model = gateCkpt.model /\ Resumed.tool = gateCkpt.tool
      /\ Resumed.results = gateCkpt.results /\ Resumed.reason = NoReason
  BY <1>1, ResumedRow
<1>3. Resumed.model >= 1 /\ cost <= Resumed.cost
  BY <1>1, <1>2 DEF OutOfBudget, GateCheckpoint, RouteReason, Exhausted, ToolAsked, Proposed
<1>4. /\ g \in GateCheckpoint /\ g.version = Resumed.version
      /\ g.model = Resumed.model - 1 /\ g.tool = Resumed.tool /\ g.results = Resumed.results
      /\ g.reason = Resumed.reason
  BY <1>2, <1>3, ChargedRow, Zenon
<1>5. /\ turns' = turns + 1 /\ transients' = transients /\ (Save(t) \/ Save(e))
  BY DEF ToolAsked, Proposed, Called
<1> HIDE DEF g
<1>6. /\ b \in GateCheckpoint /\ b.version = g.version + 1
      /\ b.model = g.model /\ b.tool = g.tool /\ b.results = g.results /\ b.reason = g.reason
  BY <1>4, AdvancedRow, Zenon
<1> HIDE DEF b
<1>7. \A c \in {t, e} : 
        /\ c \in GateCheckpoint /\ c.version = b.version /\ c.model = b.model
        /\ c.tool = b.tool /\ c.results = b.results /\ c.reason = b.reason
  <2>1. /\ t \in GateCheckpoint /\ t.version = b.version /\ t.model = b.model
        /\ t.tool = b.tool /\ t.results = b.results /\ t.reason = b.reason
    BY <1>6, Zenon DEF GateCheckpoint
  <2>2. /\ e \in GateCheckpoint /\ e.version = b.version /\ e.model = b.model
        /\ e.tool = b.tool /\ e.results = b.results /\ e.reason = b.reason
    BY <1>6, Zenon DEF GateCheckpoint
  <2> HIDE DEF t, e
  <2> QED
    BY <2>1, <2>2, Zenon
<1>8. \E c \in {t, e} : Save(c)
  BY <1>5
<1> HIDE DEF t, e
<1>9. PICK c \in {t, e} : Save(c)
  BY <1>8
<1>10. /\ c \in GateCheckpoint /\ c.version = Resumed.version + 1
       /\ c.model = gateCkpt.model - 1 /\ c.tool = gateCkpt.tool
       /\ c.results = gateCkpt.results /\ c.reason = NoReason
  BY <1>2, <1>4, <1>6, <1>7
<1>11. /\ gateCkpt.version < c.version /\ turns' \in Nat /\ transients' \in 0..MaxTransients
       /\ c.model + turns' = gateCkpt.model + turns /\ c.reason \notin Blocking
  BY <1>2, <1>5, <1>10 DEF GateInv, GateTypeOK, GateCheckpoint, Blocking, RouteReason
<1> QED
  BY <1>1, <1>9, <1>10, <1>11, SaveKeeps

\* What is used of counting the tool results; the library of finite sets, which
\* proves it, comes in at the end (ResultsAreCounted).
ResultsCounted ==
  /\ Cardinality({}) = 0
  /\ \A S \in SUBSET CallIds :
       /\ Cardinality(S) \in Nat
       /\ \A id \in CallIds \ S : Cardinality(S \cup {id}) = Cardinality(S) + 1

\* A tool result is new: its call had none.
LEMMA ToolAnsweredKeeps ==
  ASSUME ResultsCounted, GateInv, ToolAnswered
  PROVE  GateInv'
<1> DEFINE b == Advanced(Resumed)
           c == [b EXCEPT !.tool = @ - 1, !.results = @ \cup {Resumed.pending},
                          !.next = "model", !.pending = NoCall]
<1>1. /\ Runnable /\ Resumed.next = "tool" /\ Resumed.tool >= 1 /\ Save(c)
      /\ turns' = turns /\ transients' = transients
  BY DEF ToolAnswered, Starts, Quietly
<1>2. /\ Resumed \in GateCheckpoint /\ gateCkpt.version <= Resumed.version
      /\ Resumed.model = gateCkpt.model /\ Resumed.tool = gateCkpt.tool
      /\ Resumed.results = gateCkpt.results /\ Resumed.reason = NoReason
      /\ Resumed.pending \in CallIds /\ Resumed.pending \notin Resumed.results
  BY <1>1, ResumedRow
<1>3. /\ b \in GateCheckpoint /\ b.version = Resumed.version + 1
      /\ b.model = Resumed.model /\ b.tool = Resumed.tool /\ b.results = Resumed.results
      /\ b.reason = Resumed.reason
  BY <1>2, AdvancedRow, Zenon
<1> HIDE DEF b
<1>4. b.tool - 1 \in Nat /\ b.results \cup {Resumed.pending} \in SUBSET CallIds
  BY <1>1, <1>2, <1>3 DEF GateCheckpoint
<1>5. c \in GateCheckpoint
  BY <1>3, <1>4, Zenon DEF GateCheckpoint
<1>6. /\ c.version = b.version /\ c.model = b.model /\ c.tool = b.tool - 1
      /\ c.results = b.results \cup {Resumed.pending} /\ c.reason = b.reason
  BY <1>3 DEF GateCheckpoint
<1> HIDE DEF c
<1>7. c.tool + Cardinality(c.results) = gateCkpt.tool + Cardinality(gateCkpt.results)
  <2>1. gateCkpt.results \in SUBSET CallIds
    BY <1>2 DEF GateCheckpoint
  <2>2. /\ Cardinality(gateCkpt.results) \in Nat
        /\ Cardinality(gateCkpt.results \cup {Resumed.pending})
             = Cardinality(gateCkpt.results) + 1
    BY <1>2, <2>1 DEF ResultsCounted
  <2> QED
    BY <1>2, <1>3, <1>6, <2>2 DEF GateCheckpoint
<1>8. /\ gateCkpt.version < c.version /\ turns' \in Nat /\ transients' \in 0..MaxTransients
      /\ c.model + turns' = gateCkpt.model + turns /\ c.reason \notin Blocking
  <2>1. Resumed.version \in Nat
    BY <1>2, CheckpointNumbers
  <2>2. NoReason \notin Blocking
    BY DEF Blocking, RouteReason
  <2> QED
    BY ONLY <1>1, <1>2, <1>3, <1>6, <2>1, <2>2, GateNumbers, GateInv
<1> QED
  BY <1>1, <1>5, <1>7, <1>8, SaveKeeps, Zenon

\* The evaluation of the plan ends the Run or not.
LEMMA EvaluatedKeeps ==
  ASSUME GateInv, NEW accepted \in BOOLEAN, Evaluated(accepted)
  PROVE  GateInv'
<1> DEFINE b == Advanced(Resumed)
           next == IF accepted THEN "complete" ELSE "review"
           reason == IF accepted THEN NoReason ELSE "assessment_rejected"
           c == [b EXCEPT !.next = next, !.reason = reason, !.proposal = FALSE]
<1>1. Runnable /\ Save(c) /\ turns' = turns /\ transients' = transients
  BY DEF Evaluated, Starts, Quietly
<1>2. /\ Resumed \in GateCheckpoint /\ gateCkpt.version <= Resumed.version
      /\ Resumed.model = gateCkpt.model /\ Resumed.tool = gateCkpt.tool
      /\ Resumed.results = gateCkpt.results
  BY <1>1, ResumedRow
<1>3. /\ b \in GateCheckpoint /\ b.version = Resumed.version + 1
      /\ b.model = Resumed.model /\ b.tool = Resumed.tool /\ b.results = Resumed.results
  BY <1>2, AdvancedRow, Zenon
<1>4. /\ next \in {"complete", "review"} /\ reason \in RouteReason \cup {NoReason}
      /\ reason \notin Blocking
  BY DEF RouteReason, Rejected, Blocking, Exhausted
<1> HIDE DEF b, next, reason
<1>5. c \in GateCheckpoint
  BY <1>3, <1>4, Zenon DEF GateCheckpoint
<1>6. /\ c.version = b.version /\ c.model = b.model /\ c.tool = b.tool
      /\ c.results = b.results /\ c.reason = reason
  BY <1>3 DEF GateCheckpoint
<1> HIDE DEF c
<1>7. /\ gateCkpt.version < c.version /\ turns' \in Nat /\ transients' \in 0..MaxTransients
      /\ c.model + turns' = gateCkpt.model + turns /\ c.reason \notin Blocking
      /\ c.tool = gateCkpt.tool /\ c.results = gateCkpt.results
  <2>1. Resumed.version \in Nat
    BY <1>2, CheckpointNumbers
  <2> QED
    BY ONLY <1>1, <1>2, <1>3, <1>4, <1>6, <2>1, GateNumbers, GateInv
<1> QED
  BY <1>1, <1>5, <1>7, SaveKeeps

\* Every slice.
LEMMA SliceKeeps ==
  ASSUME ResultsCounted, GateInv, Slice
  PROVE  GateInv'
<1>1. ASSUME NEW cost \in Costs, Proposed(cost) PROVE GateInv'
  BY <1>1, TurnSlicesKeep, NoCall \in CallIds \cup {NoCall}
<1>2. ASSUME NEW cost \in Costs, NEW id \in CallIds, ToolAsked(cost, id) PROVE GateInv'
  BY <1>2, TurnSlicesKeep, RefusedTurnsKeep
<1> QED
  BY QuietSlicesKeep, FailedTurnsKeep, RefusedTurnsKeep, ToolAnsweredKeeps, EvaluatedKeeps,
     <1>1, <1>2 DEF Slice

\* A worker that dies after the turn: the turn is paid and not charged.
LEMMA CrashKeeps ==
  ASSUME GateInv, CrashAfterTurn
  PROVE  GateInv'
<1>1. /\ crashes < MaxCrashes /\ crashes' = crashes + 1 /\ turns' = turns + 1
      /\ UNCHANGED <<gateRun, gateCkpt, reviews, overrides, deployed, granted, transients>>
  BY DEF CrashAfterTurn
<1>2. GateTypeOK' /\ Unstarted'
  <2>1. turns' \in Nat /\ crashes' \in 0..MaxCrashes
    BY ONLY <1>1, GateNumbers, GateInv, GateAssumption
  <2> QED
    BY <1>1, <2>1 DEF GateInv, GateTypeOK, Unstarted
<1>3. BudgetConserved'
  <2>1. gateCkpt.model + turns = ModelLimit + granted.model + crashes
    BY DEF GateInv, BudgetConserved
  <2>2. gateCkpt.model + turns' = ModelLimit + granted.model + crashes'
    BY ONLY <1>1, <2>1, GateNumbers, GateInv, GateAssumption
  <2> QED
    BY <1>1, <2>2 DEF GateInv, BudgetConserved
<1>4. ReleasedIsResumable'
  BY <1>1 DEF GateInv, ReleasedIsResumable
<1> QED
  BY <1>2, <1>3, <1>4 DEF GateInv

\* A review is asked for.
LEMMA RequestKeeps ==
  ASSUME GateInv, NEW r \in ReviewIds, NEW person \in People, RequestReview(r, person)
  PROVE  GateInv'
<1> DEFINE row == [state |-> "pending", by |-> person, reviewer |-> NoPerson, key |-> NoKey]
<1>1. row \in ReviewRow /\ row.state = "pending"
  BY DEF ReviewRow
<1>2. /\ gateRun = "REVIEW" /\ reviews[r].state = "absent" /\ NoneOpen
      /\ reviews' = [reviews EXCEPT ![r] = row]
      /\ UNCHANGED <<gateRun, gateCkpt, overrides, migrations, granted, deployed, turns,
                     transients, crashes>>
  BY DEF RequestReview, GateQuiet
<1> HIDE DEF row
<1>3. /\ reviews' \in [ReviewIds -> ReviewRow] /\ reviews'[r] = row
      /\ \A x \in ReviewIds : x # r => reviews'[x] = reviews[x]
  BY <1>1, <1>2 DEF GateInv, GateTypeOK
<1>4. GateTypeOK' /\ Unstarted'
  BY <1>2, <1>3 DEF GateInv, GateTypeOK, Unstarted
<1>5. BudgetConserved'
  <2>1. \A o \in overrides : o.review # r /\ o.review \in ReviewIds
    BY <1>2 DEF GateInv, BudgetConserved, GateTypeOK
  <2> QED
    BY <1>2, <1>3, <2>1, Zenon DEF GateInv, BudgetConserved
<1>6. ReleasedIsResumable'
  BY <1>1, <1>2, <1>3 DEF GateInv, ReleasedIsResumable, NoneOpen
<1> QED
  BY <1>4, <1>5, <1>6 DEF GateInv

\* What a decision does to the reviews.
LEMMA DecidedRows ==
  ASSUME GateInv, NEW r \in ReviewIds, NEW person \in People, NEW key \in DecisionKeys,
         NEW decision \in {"CONTINUE", "CANCEL"},
         Decidable(r, person, key), Decided(r, decision, person, key)
  PROVE  /\ reviews' \in [ReviewIds -> ReviewRow]
         /\ reviews'[r].state = decision /\ reviews'[r].reviewer = person
         /\ reviews'[r].key = key
         /\ \A x \in ReviewIds : x # r => reviews'[x] = reviews[x]
         /\ \A x \in ReviewIds : reviews'[x].state # "pending"
         /\ \A o \in overrides : o.review # r /\ o.review \in ReviewIds
         /\ gateRun' = IF decision = "CONTINUE" THEN "READY" ELSE "CANCELLED"
         /\ UNCHANGED <<deployed, turns, transients, crashes>>
<1> DEFINE row == [state |-> decision, by |-> reviews[r].by, reviewer |-> person,
                   key |-> key]
<1>1. /\ row \in ReviewRow /\ row.state = decision /\ row.reviewer = person /\ row.key = key
  BY DEF ReviewRow, GateInv, GateTypeOK
<1>2. /\ gateRun = "REVIEW" /\ reviews[r].state = "pending"
      /\ reviews' = [reviews EXCEPT ![r] = row]
      /\ gateRun' = IF decision = "CONTINUE" THEN "READY" ELSE "CANCELLED"
      /\ UNCHANGED <<deployed, turns, transients, crashes>>
  BY DEF Decidable, Decided, GateQuiet
<1> HIDE DEF row
<1>3. /\ reviews' \in [ReviewIds -> ReviewRow] /\ reviews'[r] = row
      /\ \A x \in ReviewIds : x # r => reviews'[x] = reviews[x]
  BY <1>1, <1>2 DEF GateInv, GateTypeOK
<1>4. \A x \in ReviewIds : reviews'[x].state # "pending"
  BY <1>1, <1>2, <1>3 DEF GateInv, ReleasedIsResumable
<1>5. \A o \in overrides : o.review # r /\ o.review \in ReviewIds
  BY <1>2 DEF GateInv, BudgetConserved, GateTypeOK
<1> QED
  BY <1>1, <1>2, <1>3, <1>4, <1>5

\* A decision that adds nothing.
LEMMA PlainDecisionKeeps ==
  ASSUME GateInv, NEW r \in ReviewIds, NEW person \in People, NEW key \in DecisionKeys,
         CancelRun(r, person, key) \/ ContinueRun(r, person, key)
  PROVE  GateInv'
<1>1. PICK decision \in {"CONTINUE", "CANCEL"} :
        /\ Decidable(r, person, key) /\ Decided(r, decision, person, key)
        /\ decision = "CONTINUE" => Continuable
        /\ UNCHANGED <<gateCkpt, overrides, granted>>
  BY DEF CancelRun, ContinueRun
<1>2. /\ reviews' \in [ReviewIds -> ReviewRow]
      /\ \A x \in ReviewIds : x # r => reviews'[x] = reviews[x]
      /\ \A x \in ReviewIds : reviews'[x].state # "pending"
      /\ \A o \in overrides : o.review # r /\ o.review \in ReviewIds
      /\ gateRun' = IF decision = "CONTINUE" THEN "READY" ELSE "CANCELLED"
      /\ UNCHANGED <<deployed, turns, transients, crashes>>
  BY <1>1, DecidedRows, Zenon
<1>3. GateTypeOK' /\ Unstarted'
  BY <1>1, <1>2, Zenon DEF GateInv, GateTypeOK, Unstarted
<1>4. BudgetConserved'
  BY <1>1, <1>2, Zenon DEF GateInv, BudgetConserved
<1>5. ReleasedIsResumable'
  BY <1>1, <1>2, Zenon DEF ReleasedIsResumable, Continuable
<1> QED
  BY <1>3, <1>4, <1>5 DEF GateInv

\* A larger budget: a new checkpoint, and an override made from the last one.
LEMMA OverrideKeeps ==
  ASSUME ResultsCounted, GateInv, NEW r \in ReviewIds, NEW person \in People,
         NEW key \in DecisionKeys, NEW add \in Additions, NEW version \in Nat,
         OverrideRun(r, person, key, add, version)
  PROVE  GateInv'
<1> DEFINE b == Advanced(gateCkpt)
           c == Extended(gateCkpt, add)
           o == [review |-> r, key |-> key, by |-> person, version |-> version, add |-> add]
<1>0. /\ gateCkpt \in GateCheckpoint /\ granted \in [model : Nat, tool : Nat]
      /\ add \in [model : Nat, tool : Nat, cost : Nat, time : Nat]
  BY DEF GateInv, GateTypeOK
<1>1. /\ Decidable(r, person, key) /\ Decided(r, "CONTINUE", person, key)
      /\ version = gateCkpt.version /\ gateCkpt' = c /\ overrides' = overrides \cup {o}
      /\ granted' = [model |-> granted.model + add.model, tool |-> granted.tool + add.tool]
  BY DEF OverrideRun, Overridable
<1>2. /\ b \in GateCheckpoint /\ b.version = gateCkpt.version + 1
      /\ b.model = gateCkpt.model /\ b.tool = gateCkpt.tool /\ b.results = gateCkpt.results
  BY <1>0, AdvancedRow, Zenon
<1>3. c = [b EXCEPT !.model = b.model + add.model, !.tool = b.tool + add.tool,
                    !.cost = b.cost + add.cost, !.left = b.left + add.time,
                    !.next = "model", !.reason = NoReason, !.wait = 0,
                    !.pending = NoCall, !.proposal = FALSE]
  BY DEF Extended
<1> HIDE DEF b, c
<1>4. /\ b.model + add.model \in Nat /\ b.tool + add.tool \in Nat
      /\ b.cost + add.cost \in Nat /\ b.left + add.time \in Int
  BY <1>0, <1>2 DEF GateCheckpoint
<1>5. c \in GateCheckpoint
  BY <1>2, <1>3, <1>4, ZenonT(40) DEF GateCheckpoint
<1>6. /\ c.version = b.version /\ c.model = b.model + add.model
      /\ c.tool = b.tool + add.tool /\ c.results = b.results /\ c.reason = NoReason
  BY <1>2, <1>3 DEF GateCheckpoint
<1>7. /\ o.review = r /\ o.key = key /\ o.by = person /\ o.version = version
      /\ o \in [review : ReviewIds, key : DecisionKeys, by : People, version : Nat,
                add : Additions]
  OBVIOUS
<1> HIDE DEF o
<1>8. /\ granted' \in [model : Nat, tool : Nat] /\ granted'.model = granted.model + add.model
      /\ granted'.tool = granted.tool + add.tool
  BY <1>0, <1>1
<1>9. /\ reviews' \in [ReviewIds -> ReviewRow]
      /\ reviews'[r].state = "CONTINUE" /\ reviews'[r].reviewer = person
      /\ reviews'[r].key = key
      /\ \A x \in ReviewIds : x # r => reviews'[x] = reviews[x]
      /\ \A x \in ReviewIds : reviews'[x].state # "pending"
      /\ \A other \in overrides : other.review # r /\ other.review \in ReviewIds
      /\ gateRun' = "READY"
      /\ UNCHANGED <<deployed, turns, transients, crashes>>
  BY <1>1, DecidedRows, Zenon
<1>10. GateTypeOK' /\ Unstarted'
  <2>1. c.version # 0
    BY ONLY <1>2, <1>6, GateNumbers, GateInv
  <2>2. overrides' \subseteq [review : ReviewIds, key : DecisionKeys, by : People,
                              version : Nat, add : Additions]
    BY <1>1, <1>7 DEF GateInv, GateTypeOK
  <2> QED
    BY <1>1, <1>5, <1>8, <1>9, <2>1, <2>2, Zenon DEF GateInv, GateTypeOK, Unstarted
<1>11. BudgetConserved'
  <2>1. c.model + turns = ModelLimit + granted'.model + crashes
    <3>1. gateCkpt.model + turns = ModelLimit + granted.model + crashes
      BY Zenon DEF GateInv, BudgetConserved
    <3>2. /\ c.model = gateCkpt.model + add.model /\ granted'.model = granted.model + add.model
          /\ add.model \in Nat
      BY <1>0, <1>2, <1>6, <1>8, Zenon
    <3> QED
      BY ONLY <3>1, <3>2, GateNumbers, GateInv, GateAssumption
  <2>2. c.tool + Cardinality(c.results) = ToolLimit + granted'.tool
    <3>1. Cardinality(gateCkpt.results) \in Nat
      BY <1>0 DEF GateCheckpoint, ResultsCounted
    <3>2. gateCkpt.tool + Cardinality(gateCkpt.results) = ToolLimit + granted.tool
      BY DEF GateInv, BudgetConserved
    <3>3. /\ gateCkpt.tool \in Nat /\ granted.tool \in Nat /\ add.tool \in Nat
          /\ c.tool = gateCkpt.tool + add.tool /\ c.results = gateCkpt.results
          /\ granted'.tool = granted.tool + add.tool
      BY <1>0, <1>2, <1>6, <1>8, Zenon DEF GateCheckpoint
    <3> QED
      BY ONLY <3>1, <3>2, <3>3, GateAssumption
  <2>3. \A x \in overrides : x.version < version /\ x.version \in Nat
    BY <1>1 DEF GateInv, GateTypeOK, BudgetConserved
  <2>4. \A x \in overrides' :
          /\ reviews'[x.review].state = "CONTINUE"
          /\ reviews'[x.review].reviewer = x.by /\ reviews'[x.review].key = x.key
    <3>1. \A x \in overrides :
            /\ reviews[x.review].state = "CONTINUE"
            /\ reviews[x.review].reviewer = x.by /\ reviews[x.review].key = x.key
      BY Zenon DEF GateInv, BudgetConserved
    <3>2. overrides' = overrides \cup {o}
      BY <1>1
    <3> QED
      BY ONLY <1>7, <1>9, <3>1, <3>2
  <2>5. \A x \in overrides' : x.version < c.version
    <3>1. /\ gateCkpt.version \in Nat /\ c.version = gateCkpt.version + 1
          /\ overrides' = overrides \cup {o} /\ version = gateCkpt.version
      BY <1>0, <1>1, <1>2, <1>6, Zenon DEF GateCheckpoint
    <3> QED
      BY ONLY <1>7, <2>3, <3>1
  <2>6. \A x, y \in overrides' : y.version = x.version \/ y.review = x.review => y = x
    <3>1. \A x \in overrides : x.version # o.version /\ x.review # o.review
      BY ONLY <1>7, <1>9, <2>3
    <3> QED
      BY <1>1, <3>1, Zenon DEF GateInv, BudgetConserved
  <2> QED
    BY <1>1, <1>9, <2>1, <2>2, <2>4, <2>5, <2>6, Zenon DEF BudgetConserved
<1>12. ReleasedIsResumable'
  BY <1>1, <1>6, <1>9, Zenon DEF ReleasedIsResumable, RouteReason
<1> QED
  BY <1>10, <1>11, <1>12 DEF GateInv

\* A migration of the strategy.
LEMMA MigrateKeeps ==
  ASSUME GateInv, NEW key \in MigrationKeys, NEW version \in Nat,
         NEW old \in Strategy, NEW new \in Strategy,
         MigrateStrategy(key, version, old, new)
  PROVE  GateInv'
<1> DEFINE b == Advanced(gateCkpt)
           c == [b EXCEPT !.strategy = new, !.reason = "strategy_migration_ready",
                          !.next = "review", !.wait = 0]
<1>1. /\ gateRun = "REVIEW" /\ gateCkpt' = c
      /\ UNCHANGED <<gateRun, reviews, overrides, granted, deployed, turns, transients,
                     crashes>>
  BY DEF MigrateStrategy, Migratable, GateQuiet
<1>2. /\ b \in GateCheckpoint /\ b.version = gateCkpt.version + 1
      /\ b.model = gateCkpt.model /\ b.tool = gateCkpt.tool /\ b.results = gateCkpt.results
  BY AdvancedRow DEF GateInv, GateTypeOK
<1> HIDE DEF b
<1>3. c \in GateCheckpoint
  BY <1>2, ZenonT(40) DEF GateCheckpoint, RouteReason
<1>4. /\ c.version = b.version /\ c.model = b.model /\ c.tool = b.tool
      /\ c.results = b.results
  BY <1>2 DEF GateCheckpoint
<1> HIDE DEF c
<1>5. GateTypeOK' /\ Unstarted'
  <2>1. c.version # 0
    BY ONLY <1>2, <1>4, GateNumbers, GateInv
  <2> QED
    BY <1>1, <1>3, <2>1, Zenon DEF GateInv, GateTypeOK, Unstarted
<1>6. BudgetConserved'
  <2>1. \A o \in overrides : o.version < c.version
    <3>1. gateCkpt.version \in Nat /\ \A o \in overrides : o.version \in Nat
      BY DEF GateInv, GateTypeOK, GateCheckpoint
    <3>2. \A o \in overrides : o.version < gateCkpt.version
      BY DEF GateInv, BudgetConserved
    <3> QED
      BY ONLY <1>2, <1>4, <3>1, <3>2
  <2> QED
    BY <1>1, <1>2, <1>4, <2>1, Zenon DEF GateInv, BudgetConserved
<1>7. ReleasedIsResumable'
  BY <1>1, Zenon DEF GateInv, ReleasedIsResumable
<1> QED
  BY <1>5, <1>6, <1>7 DEF GateInv

\* Time passes.
LEMMA TickKeeps ==
  ASSUME GateInv, GateTick
  PROVE  GateInv'
<1> DEFINE left == IF gateCkpt.left > -MaxOverdue THEN gateCkpt.left - 1 ELSE gateCkpt.left
           wait == IF gateCkpt.wait > 0 THEN gateCkpt.wait - 1 ELSE 0
           c == [gateCkpt EXCEPT !.left = left, !.wait = wait]
<1>0. gateCkpt \in GateCheckpoint
  BY DEF GateInv, GateTypeOK
<1>1. /\ gateCkpt' = c
      /\ UNCHANGED <<gateRun, reviews, overrides, migrations, gateEvents, deployed, turns,
                     granted, transients, crashes>>
  BY DEF GateTick
<1>2. left \in Int /\ wait \in Nat
  BY <1>0 DEF GateCheckpoint
<1> HIDE DEF left, wait
<1>3. /\ c \in GateCheckpoint /\ c.version = gateCkpt.version /\ c.model = gateCkpt.model
      /\ c.tool = gateCkpt.tool /\ c.results = gateCkpt.results
      /\ c.reason = gateCkpt.reason
  BY <1>0, <1>2, Zenon DEF GateCheckpoint
<1> HIDE DEF c
<1> QED
  BY <1>1, <1>3, Zenon DEF GateInv, GateTypeOK, BudgetConserved, ReleasedIsResumable, Unstarted

\* The initial states.
LEMMA GateStarts ==
  ASSUME ResultsCounted, GateInit
  PROVE  GateInv
<1> DEFINE b == GateStart(deployed)
<1>1. /\ gateRun = "READY" /\ deployed \in Strategy /\ gateCkpt = b
      /\ reviews = [r \in ReviewIds |-> NoReview]
      /\ overrides = {} /\ turns = 0 /\ granted = [model |-> 0, tool |-> 0]
      /\ transients = 0 /\ crashes = 0
  BY DEF GateInit
<1>2. /\ b \in GateCheckpoint /\ b.model = ModelLimit
      /\ b.tool = ToolLimit /\ b.results = {} /\ b.reason = NoReason
  <2>1. 0 \in Nat /\ Ttl \in Int
    OBVIOUS
  <2>2. b \in GateCheckpoint
    BY <1>1, <2>1, ZenonT(40) DEF GateStart, GateCheckpoint
  <2> QED
    BY <2>2, Zenon DEF GateStart
<1> HIDE DEF b
<1>3. NoReview \in ReviewRow /\ NoReview.state = "absent"
  BY DEF NoReview, ReviewRow
<1>4. GateTypeOK /\ Unstarted
  <2>1. /\ turns \in Nat /\ granted \in [model : Nat, tool : Nat]
        /\ transients \in 0..MaxTransients /\ crashes \in 0..MaxCrashes
    BY ONLY <1>1, GateAssumption
  <2>2. reviews \in [ReviewIds -> ReviewRow]
    BY <1>1, <1>3, Zenon
  <2> QED
    BY <1>1, <1>2, <2>1, <2>2, Zenon DEF GateTypeOK, Unstarted
<1>5. BudgetConserved
  <2>1. Cardinality(gateCkpt.results) = 0
    BY <1>1, <1>2, Zenon DEF ResultsCounted
  <2>2. /\ gateCkpt.model + turns = ModelLimit + granted.model + crashes
        /\ gateCkpt.tool + Cardinality(gateCkpt.results) = ToolLimit + granted.tool
    BY ONLY <1>1, <1>2, <2>1, GateAssumption
  <2> QED
    BY <1>1, <2>2, Zenon DEF BudgetConserved
<1>6. ReleasedIsResumable
  BY <1>1, <1>2, <1>3, Zenon DEF ReleasedIsResumable, RouteReason
<1> QED
  BY <1>4, <1>5, <1>6 DEF GateInv

\* Every step.
LEMMA GateStepKeeps ==
  ASSUME ResultsCounted, GateInv, [GateNext]_gateVars
  PROVE  GateInv'
<1>1. CASE Decide
  <2>1. gateCkpt.version \in Nat
    BY DEF GateInv, GateTypeOK, GateCheckpoint
  <2>2. \A version \in 1..gateCkpt.version : version \in Nat
    BY <2>1
  <2> QED
    BY <1>1, <2>2, PlainDecisionKeeps, OverrideKeeps DEF Decide
<1>2. CASE \E key \in MigrationKeys, version \in 1..gateCkpt.version,
           old, new \in Strategy : MigrateStrategy(key, version, old, new)
  <2>1. gateCkpt.version \in Nat
    BY DEF GateInv, GateTypeOK, GateCheckpoint
  <2>2. \A version \in 1..gateCkpt.version : version \in Nat
    BY <2>1
  <2> QED
    BY <1>2, <2>2, MigrateKeeps
<1>3. CASE \E s \in Strategy : Deploy(s)
  BY <1>3, Zenon DEF Deploy, GateInv, GateTypeOK, BudgetConserved, ReleasedIsResumable, Unstarted
<1>4. CASE UNCHANGED gateVars
  BY <1>4, Zenon
     DEF gateVars, GateInv, GateTypeOK, BudgetConserved, ReleasedIsResumable, Unstarted
<1> QED
  BY <1>1, <1>2, <1>3, <1>4, SliceKeeps, CrashKeeps, RequestKeeps, TickKeeps, Zenon DEF GateNext

\* A slice is never that of a Run in REVIEW, and decides nothing.
LEMMA SliceDecidesNothing ==
  ASSUME Slice
  PROVE  gateRun # "REVIEW" /\ UNCHANGED <<reviews, overrides>>
<1>1. Runnable /\ UNCHANGED <<reviews, overrides>>
  BY ZenonT(40) DEF Slice, StrategyChanged, BeforeRunRefused, BeforeRunRetry, ModelRefused,
         InputRejected, InputRetry, ProviderFailed, UsageUnknown, CostExceeded, Proposed,
         TurnRejected, ToolAsked, ToolRefused, ToolAnswered, Evaluated, Called, MayCall,
         Starts, Save
<1> QED
  BY <1>1 DEF Runnable

\* What a step leaves of the decisions.
LEMMA DecisionStep ==
  ASSUME GateInv, GateNext
  PROVE  /\ gateRun = "REVIEW" /\ gateRun' # "REVIEW" =>
              \E r \in ReviewIds : /\ reviews[r].state = "pending"
                                   /\ reviews'[r].state \in {"CONTINUE", "CANCEL"}
         /\ \A r \in ReviewIds : reviews[r].state \in {"CONTINUE", "CANCEL"} =>
              reviews'[r] = reviews[r]
         /\ overrides \subseteq overrides'
<1>1. CASE Slice
  BY <1>1, SliceDecidesNothing
<1>2. CASE Decide
  <2>1. PICK r \in ReviewIds, person \in People, key \in DecisionKeys,
            decision \in {"CONTINUE", "CANCEL"} :
          /\ Decidable(r, person, key) /\ Decided(r, decision, person, key)
          /\ overrides \subseteq overrides'
    <3>1. PICK r \in ReviewIds, person \in People, key \in DecisionKeys :
            \/ CancelRun(r, person, key)
            \/ ContinueRun(r, person, key)
            \/ \E add \in Additions, version \in 1..gateCkpt.version :
                 OverrideRun(r, person, key, add, version)
      BY <1>2 DEF Decide
    <3>2. CASE CancelRun(r, person, key)
      BY <3>2 DEF CancelRun
    <3>3. CASE ContinueRun(r, person, key)
      BY <3>3 DEF ContinueRun
    <3>4. CASE \E add \in Additions, version \in 1..gateCkpt.version :
                 OverrideRun(r, person, key, add, version)
      BY <3>4, Zenon DEF OverrideRun
    <3> QED
      BY <3>1, <3>2, <3>3, <3>4
  <2>2. /\ reviews'[r].state = decision
        /\ \A x \in ReviewIds : x # r => reviews'[x] = reviews[x]
    BY <2>1 DEF Decided, GateInv, GateTypeOK
  <2>3. reviews[r].state = "pending"
    BY <2>1, Zenon DEF Decidable
  <2> QED
    BY <2>1, <2>2, <2>3, Zenon
<1>3. CASE \E r \in ReviewIds, person \in People : RequestReview(r, person)
  <2>1. PICK r \in ReviewIds, person \in People : RequestReview(r, person)
    BY <1>3
  <2>2. /\ gateRun' = gateRun /\ overrides' = overrides /\ reviews[r].state = "absent"
    BY <2>1 DEF RequestReview
  <2>3. \A x \in ReviewIds : x # r => reviews'[x] = reviews[x]
    BY <2>1 DEF RequestReview, GateInv, GateTypeOK
  <2> QED
    BY <2>2, <2>3
<1>4. CASE \/ CrashAfterTurn \/ GateTick \/ \E s \in Strategy : Deploy(s)
           \/ \E key \in MigrationKeys, version \in 1..gateCkpt.version,
                 old, new \in Strategy : MigrateStrategy(key, version, old, new)
  BY <1>4, Zenon DEF CrashAfterTurn, GateTick, Deploy, MigrateStrategy
<1> QED
  BY <1>1, <1>2, <1>3, <1>4, Zenon DEF GateNext

-----------------------------------------------------------------------------
(* Counting.                                                               *)

INSTANCE FiniteSetTheorems

\* A report has at most Limit entries, and one with fewer has them all.
LEMMA NewestSize ==
  ASSUME IsFiniteSet(Actions), NEW t, NEW s \in SUBSET Actions,
         NEW e \in Newest(t, s)
  PROVE  Cardinality(e) <= Limit /\ (Cardinality(e) < Limit => e = s)
<1>1. IsFiniteSet(s) /\ e \subseteq s
  BY FS_Subset DEF Newest
<1>2. IsFiniteSet(e) /\ Cardinality(e) \in Nat /\ Cardinality(s) \in Nat
  BY <1>1, FS_Subset, FS_CardinalityType
<1>3. Cardinality(e) = IF Cardinality(s) < Limit THEN Cardinality(s) ELSE Limit
  BY DEF Newest
<1>4. Cardinality(e) = Cardinality(s) => e = s
  BY <1>1, FS_Subset
<1> QED
  BY <1>2, <1>3, <1>4, RvAssumption

\* The facts about counting hold.
LEMMA ReportsCounted ==
  ASSUME IsFiniteSet(Actions)
  PROVE  NewestCounted
BY NewestSize, FS_EmptySet DEF NewestCounted

\* The tables keep their types, and the report its limit
\* (build_reconciliation).
THEOREM TypesHold ==
  ASSUME IsFiniteSet(Actions)
  PROVE  RvSpec => []RvTypeOK
<1>1. RvInit => RvInv
  BY InitInv, ReportsCounted
<1>2. RvInv /\ [RvNext]_rvVars => RvInv'
  BY NextInv, ReportsCounted
<1>3. RvInv => RvTypeOK
  BY DEF RvInv
<1> QED
  BY <1>1, <1>2, <1>3, PTL DEF RvSpec

\* With a margin above the longest transaction and the snapshot's delay, an
\* uncapped review list made on the surviving database names every Action the
\* dump misdescribes (build_reconciliation).
THEOREM ReviewListIsComplete ==
  ASSUME IsFiniteSet(Actions), Margin > MaxOpen + MaxGap, ~FromCopy
  PROVE  RvSpec => ListIsComplete
<1>1. RvInit => RvInv
  BY InitInv, ReportsCounted
<1>2. RvInv /\ [RvNext]_rvVars => RvInv'
  BY NextInv, ReportsCounted
<1> DEFINE Complete ==
      ~list.made /\ list'.made /\ Cardinality(list'.entries) < Limit =>
        \A a \in Actions : Undescribed(a) => a \in list'.entries
<1>3. RvInv /\ [RvNext]_rvVars => [Complete]_rvVars
  BY ReportIsComplete, ReportsCounted
<1>4. RvSpec => [][Complete]_rvVars
  <2> HIDE DEF Complete
  <2> QED
    BY <1>1, <1>2, <1>3, PTL DEF RvSpec
<1> QED
  BY <1>4 DEF ListIsComplete

\* With the same margin a capped list leaves out only older changes
\* (build_reconciliation, ORDER BY updated_at DESC).
THEOREM CapIsByAge ==
  ASSUME IsFiniteSet(Actions), Margin > MaxOpen + MaxGap, ~FromCopy
  PROVE  RvSpec => CapKeepsTheNewest
<1>1. RvInit => RvInv
  BY InitInv, ReportsCounted
<1>2. RvInv /\ [RvNext]_rvVars => RvInv'
  BY NextInv, ReportsCounted
<1> DEFINE ByAge ==
      ~list.made /\ list'.made =>
        \A a, b \in Actions :
          /\ b \in list'.entries /\ a \notin list'.entries
          /\ live[a] # None /\ live[a].at > live[b].at
          => ~Undescribed(a)
<1>3. RvInv /\ [RvNext]_rvVars => [ByAge]_rvVars
  BY ReportIsByAge, Zenon
<1>4. RvSpec => [][ByAge]_rvVars
  <2> HIDE DEF ByAge
  <2> QED
    BY <1>1, <1>2, <1>3, PTL DEF RvSpec
<1> QED
  BY <1>4 DEF CapKeepsTheNewest

\* The facts about counting hold.
LEMMA ResultsAreCounted == ResultsCounted
<1>1. ASSUME NEW S \in SUBSET CallIds
      PROVE  IsFiniteSet(S) /\ Cardinality(S) \in Nat
  BY FS_Subset, FS_CardinalityType, GateAssumption
<1>2. ASSUME NEW S \in SUBSET CallIds, NEW id \in CallIds \ S
      PROVE  Cardinality(S \cup {id}) = Cardinality(S) + 1
  BY <1>1, FS_AddElement
<1> QED
  BY <1>1, <1>2, FS_EmptySet DEF ResultsCounted

\* The gate keeps its invariant.
THEOREM GateInvariant == GateSpec => []GateInv
<1>1. GateInit => GateInv
  BY GateStarts, ResultsAreCounted
<1>2. GateInv /\ [GateNext]_gateVars => GateInv'
  BY GateStepKeeps, ResultsAreCounted
<1> QED
  BY <1>1, <1>2, PTL DEF GateSpec

\* Every paid turn and tool answer is charged exactly once, and every addition
\* belongs to one decision made from one checkpoint.
THEOREM BudgetIsConserved == GateSpec => []BudgetConserved
<1>1. GateInv => BudgetConserved
  BY DEF GateInv
<1> QED
  BY <1>1, GateInvariant, PTL

\* A Run that may be claimed was parked for nothing that still stands, and the
\* only open review is that of a Run in REVIEW.
THEOREM ReleasedCanResume == GateSpec => []ReleasedIsResumable
<1>1. GateInv => ReleasedIsResumable
  BY DEF GateInv
<1> QED
  BY <1>1, GateInvariant, PTL

\* The Run leaves REVIEW only with the decision of its open review, a decision is
\* final, and an override is never taken back.
THEOREM DecisionsRoute == GateSpec => DecisionsRouteOnce
<1> DEFINE Leaves == gateRun = "REVIEW" /\ gateRun' # "REVIEW" =>
             \E r \in ReviewIds : /\ reviews[r].state = "pending"
                                  /\ reviews'[r].state \in {"CONTINUE", "CANCEL"}
           Final == \A r \in ReviewIds : reviews[r].state \in {"CONTINUE", "CANCEL"} =>
             reviews'[r] = reviews[r]
           Kept == overrides \subseteq overrides'
<1>1. GateInv /\ [GateNext]_gateVars => [Leaves /\ Final /\ Kept]_gateVars
  BY DecisionStep
<1> QED
  BY <1>1, GateInvariant, PTL DEF GateSpec, DecisionsRouteOnce

=============================================================================
