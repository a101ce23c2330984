------------------------------ MODULE Recovery ------------------------------
(***************************************************************************)
(* The review list after a restore (aftercare_agent/ops/reconcile.py and   *)
(* `aftercare-backup reconcile').                                          *)
(*                                                                         *)
(* An Action's row is stamped when its UPDATE runs and becomes visible     *)
(* when its transaction commits; the dump's snapshot is exported first and *)
(* its recovery point is read from the clock afterwards.  So a row the     *)
(* dump misses may carry a stamp older than the recovery point, and the    *)
(* list's cut lies a safety margin before it.  A row is its stamp and      *)
(* whether its state is UNKNOWN: classify tells nothing else apart.        *)
(***************************************************************************)
EXTENDS Integers, FiniteSets

CONSTANTS Actions,
          Margin,     \* --safety-margin-seconds
          Limit,      \* --limit
          MaxOpen,    \* longest time from an UPDATE to its commit
          MaxGap,     \* longest time from the snapshot to its clock reading
          FromCopy,   \* is the list read from the restored copy
          MaxTime     \* bound: clock

ASSUME RvAssumption ==
  /\ Margin \in Nat /\ Limit \in Nat \ {0} /\ MaxOpen \in Nat
  /\ MaxGap \in Nat /\ FromCopy \in BOOLEAN /\ MaxTime \in Nat \ {0}

VARIABLES clock,
          live,     \* aftercare_actions, as committed
          open,     \* the row of an uncommitted transaction
          copy,     \* the rows of the dump
          snapAt,   \* when the snapshot was exported, 0 before
          point,    \* the manifest's taken_at, 0 before
          list      \* the entries of the report, and the table it was read from

rvVars == <<clock, live, open, copy, snapAt, point, list>>

None == [at |-> 0, unknown |-> FALSE]      \* no row, no transaction
Row == [at : 1..MaxTime, unknown : BOOLEAN]
NoList == [made |-> FALSE, entries |-> {}]

RvInit ==
  /\ clock = 1
  /\ live = [a \in Actions |-> None]
  /\ open = [a \in Actions |-> None]
  /\ copy = [a \in Actions |-> None]
  /\ snapAt = 0 /\ point = 0
  /\ list = NoList

\* Transactions and snapshots do not stay open for ever.
RvTick ==
  /\ clock < MaxTime
  /\ \A a \in Actions : open[a] # None => clock < open[a].at + MaxOpen
  /\ snapAt > 0 /\ point = 0 => clock < snapAt + MaxGap
  /\ clock' = clock + 1
  /\ UNCHANGED <<live, open, copy, snapAt, point, list>>

\* The INSERT of an Action or _update_state: the row is stamped with
\* clock_timestamp().  Two stamps of one row differ.
Write(a) ==
  /\ open[a] = None /\ live[a].at < clock
  /\ \E u \in BOOLEAN :
       open' = [open EXCEPT ![a] = [at |-> clock, unknown |-> u]]
  /\ UNCHANGED <<clock, live, copy, snapAt, point, list>>

Commit(a) ==
  /\ open[a] # None
  /\ live' = [live EXCEPT ![a] = open[a]]
  /\ open' = [open EXCEPT ![a] = None]
  /\ UNCHANGED <<clock, copy, snapAt, point, list>>

Rollback(a) ==
  /\ open[a] # None
  /\ open' = [open EXCEPT ![a] = None]
  /\ UNCHANGED <<clock, live, copy, snapAt, point, list>>

\* create_backup exports its snapshot: the dump will hold these rows.
ExportSnapshot ==
  /\ snapAt = 0
  /\ snapAt' = clock
  /\ copy' = live
  /\ UNCHANGED <<clock, live, open, point, list>>

\* read_snapshot reads clock_timestamp() in that snapshot.
ReadSnapshot ==
  /\ snapAt > 0 /\ point = 0
  /\ point' = clock
  /\ UNCHANGED <<clock, live, open, copy, snapAt, list>>

\* Mutant of Cut: the list starts at the recovery point itself.
CutAtPoint == point

\* The cut of build_reconciliation.
Cut == point - Margin

\* The WHERE clause, and classify: an UNKNOWN outcome whenever it was stamped,
\* or a row stamped after the cut.
Selected(t) ==
  {a \in Actions : t[a] # None /\ (t[a].unknown \/ t[a].at > Cut)}

\* ORDER BY updated_at DESC LIMIT: ties are broken by the action id, here in
\* any way.
Newest(t, s) ==
  {e \in SUBSET s :
     /\ Cardinality(e) = (IF Cardinality(s) < Limit THEN Cardinality(s)
                                                     ELSE Limit)
     /\ \A a \in e, b \in s \ e : t[a].at >= t[b].at}

\* build_reconciliation, on the surviving database or on the restored copy.
BuildReconciliation ==
  /\ point > 0 /\ ~list.made
  /\ LET t == IF FromCopy THEN copy ELSE live IN
     \E e \in Newest(t, Selected(t)) :
       list' = [made |-> TRUE, entries |-> e]
  /\ UNCHANGED <<clock, live, open, copy, snapAt, point>>

RvNext ==
  \/ RvTick \/ ExportSnapshot \/ ReadSnapshot \/ BuildReconciliation
  \/ \E a \in Actions : Write(a) \/ Commit(a) \/ Rollback(a)

RvSpec == RvInit /\ [][RvNext]_rvVars

-----------------------------------------------------------------------------
\* The tables, the times of the dump, and the report.
RvTypeOK ==
  /\ clock \in 1..MaxTime
  /\ live \in [Actions -> Row \cup {None}]
  /\ open \in [Actions -> Row \cup {None}]
  /\ copy \in [Actions -> Row \cup {None}]
  /\ snapAt \in 0..clock /\ point \in 0..clock
  /\ list.entries \subseteq Actions /\ Cardinality(list.entries) <= Limit

\* What the dump does not say of an action as it was when the list was made:
\* the row changed, or its outcome was unknown.
Undescribed(a) == live[a] # None /\ (live[a] # copy[a] \/ live[a].unknown)

\* A list that is not capped names every Action whose row the dump misses or
\* whose outcome is unknown, also a commit that raced the snapshot: "a review
\* list that is too narrow costs a duplicate external action"
\* (build_reconciliation).
ListIsComplete ==
  [][~list.made /\ list'.made /\ Cardinality(list'.entries) < Limit =>
       \A a \in Actions : Undescribed(a) => a \in list'.entries]_rvVars

\* A capped list holds the newest changes: an Action it leaves out changed no
\* later than the ones it names, so raising the limit only adds older ones.
CapKeepsTheNewest ==
  [][~list.made /\ list'.made =>
       \A a, b \in Actions :
         /\ b \in list'.entries /\ a \notin list'.entries
         /\ live[a] # None /\ live[a].at > live[b].at
         => ~Undescribed(a)]_rvVars

=============================================================================
