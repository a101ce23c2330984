----------------------------- MODULE WalArchive -----------------------------
(***************************************************************************)
(* The WAL archive and the check the operations tool makes of it           *)
(* (aftercare_agent/ops/wal_archive.py and `aftercare-backup wal`).        *)
(*                                                                         *)
(* The server completes segments one after another and its archiver copies *)
(* them in order, retrying the same one after a failure.  A failover       *)
(* starts a new timeline at the segment the old server was writing.  An    *)
(* operator may delete archived files.  The server and the archiver are    *)
(* not code of the repository: they are modelled from what                 *)
(* read_archiver_state and read_inventory read of them.                    *)
(*                                                                         *)
(* The check reads the directory first and asks the server afterwards, so  *)
(* its report is about two moments.  What it has read is a record, and     *)
(* every verdict is an operator on that record.                            *)
(***************************************************************************)
EXTENDS Integers, FiniteSets

CONSTANTS SegBytes,     \* bytes of a segment (wal_segment_size)
          SegsPerLog,   \* segments of one log: segments_per_log
          MaxSeg,       \* bound: segments the server completes
          MaxTimeline,  \* bound: timelines (1 plus the failovers)
          MaxWalTime,      \* bound: clock
          MaxDeleted,   \* bound: archived files an operator deletes
          LagLimit      \* the deployment's --archive-lag-seconds

ASSUME WaAssumption ==
  /\ SegBytes \in Nat \ {0} /\ SegsPerLog \in Nat \ {0}
  /\ MaxSeg \in Nat /\ MaxTimeline \in Nat \ {0} /\ MaxWalTime \in Nat \ {0}
  /\ MaxDeleted \in Nat /\ LagLimit \in Nat \ {0}

VARIABLES walClock,
          timeline,   \* timeline of the primary
          current,    \* index of the segment being written
          doneAt,     \* completion time of the segments still to be archived
          next,       \* the segment the archiver works on
          okAt,       \* last_archived_time, 0 when never
          failAt,     \* last_failed_time, 0 when never
          archive,    \* segments in the archive directory
          partial,    \* is there a .partial file
          dumpLsn,    \* wal_lsn of the newest manifest, -1 when none
          deleted,    \* history: files deleted by hand
          backlog,    \* history: a failover left completed segments behind
          check       \* the command: idle, or the directory it has read

waVars == <<walClock, timeline, current, doneAt, next, okAt, failAt, archive,
            partial, dumpLsn, deleted, backlog, check>>

-----------------------------------------------------------------------------
(* Segments and positions.  A file name holds timeline, log and number.    *)

Segment == [timeline : 1..MaxTimeline, log : 0..(MaxSeg \div SegsPerLog),
            segno : 0..(SegsPerLog - 1)]

SegmentAt(t, i) ==
  [timeline |-> t, log |-> i \div SegsPerLog, segno |-> i % SegsPerLog]

\* Segment.index: neighbours of one timeline differ by one.
IndexOf(s) == s.log * SegsPerLog + s.segno

\* Mutant of SegmentHolding: the low half of the position is not taken.
SegmentHoldingWhole(lsn) ==
  [log |-> lsn \div (SegBytes * SegsPerLog), segno |-> 0]

\* segment_holding: the log and number of the segment that holds a position.
SegmentHolding(lsn) ==
  [log |-> lsn \div (SegBytes * SegsPerLog),
   segno |-> (lsn % (SegBytes * SegsPerLog)) \div SegBytes]

\* The order of Segment within a timeline: (log, segno).
Before(a, b) == a.log < b.log \/ (a.log = b.log /\ a.segno < b.segno)

\* Mutant of Adjacent: any two segments of one log are neighbours.
AdjacentLogs(a, b) == b.log = a.log \/ (b.log = a.log + 1 /\ b.segno = 0)

\* adjacent: neighbours, judged without the segment size.
Adjacent(a, b) ==
  IF b.log = a.log THEN b.segno = a.segno + 1
                   ELSE b.log = a.log + 1 /\ b.segno = 0

-----------------------------------------------------------------------------
(* The inventory: the segments of a directory, per timeline and sorted.    *)

\* Consecutive archived segments of one timeline: zip(segments, segments[1:]).
Consecutive(inv) ==
  {p \in inv \X inv :
     /\ p[1].timeline = p[2].timeline
     /\ Before(p[1], p[2])
     /\ ~\E s \in inv : /\ s.timeline = p[1].timeline
                        /\ Before(p[1], s) /\ Before(s, p[2])}

\* ArchiveInventory.gaps: the holes inside a timeline; the number of missing
\* segments is known (not -1) only with the segment size.
Gaps(inv, sized) ==
  {[after |-> p[1], before |-> p[2],
    missing |-> IF sized THEN IndexOf(p[2]) - IndexOf(p[1]) - 1 ELSE -1] :
     p \in {q \in Consecutive(inv) : ~Adjacent(q[1], q[2])}}

\* ArchiveInventory.newest: the last segment of the newest timeline, as the
\* set of it, empty for an empty archive.
LastSegment(inv) ==
  {s \in inv : ~\E o \in inv : \/ o.timeline > s.timeline
                               \/ o.timeline = s.timeline /\ Before(s, o)}

-----------------------------------------------------------------------------
(* The verdicts of evaluate_archive, on what the check has read.           *)

\* ArchiverState.stuck_on_failure: the newest failure is newer than the
\* newest success.
StuckOnFailure(r) == r.failAt > 0 /\ (r.okAt = 0 \/ r.failAt > r.okAt)

\* _archiver_verdict.
ArchiverOk(r) == r.okAt > 0 /\ ~StuckOnFailure(r)

\* _segment_size: the server's value wins, a stated one is the fallback.
Sized(r) == r.dsn \/ r.stated

\* _coverage: "none" when the question is not asked.
CoverageOf(r) ==
  IF r.dumpLsn < 0 \/ ~Sized(r) \/ LastSegment(r.inv) = {} THEN "none"
  ELSE IF \E n \in LastSegment(r.inv) : ~Before(n, SegmentHolding(r.dumpLsn))
       THEN "ok" ELSE "short"

\* _lag_verdict: the time since the archiver last completed a segment.
LagOk(r) == r.okAt > 0 /\ r.now - r.okAt <= LagLimit

\* evaluate_archive and ArchiveReport.ok: no problem and no failing verdict.
\* The lag is judged when a server is asked and a budget is set.
ReportOk(r) ==
  /\ r.inv # {}
  /\ ~r.partial
  /\ Gaps(r.inv, Sized(r)) = {}
  /\ r.dsn => ArchiverOk(r)
  /\ CoverageOf(r) # "short"
  /\ r.budget => LagOk(r)

-----------------------------------------------------------------------------
NoReading == [pc |-> "idle"]

WaInit ==
  /\ walClock = 1 /\ timeline = 1 /\ current = 0
  /\ doneAt = [i \in 0..MaxSeg |-> 0]
  /\ next = 0 /\ okAt = 0 /\ failAt = 0
  /\ archive = {} /\ partial = FALSE
  /\ dumpLsn = -1
  /\ deleted = 0 /\ backlog = FALSE
  /\ check = NoReading

WalTick ==
  /\ walClock < MaxWalTime
  /\ walClock' = walClock + 1
  /\ UNCHANGED <<timeline, current, doneAt, next, okAt, failAt, archive,
                 partial, dumpLsn, deleted, backlog, check>>

\* The server completes the segment it is writing (external).
CompleteSegment ==
  /\ current < MaxSeg
  /\ current' = current + 1
  /\ doneAt' = [doneAt EXCEPT ![current] = walClock]
  /\ UNCHANGED <<walClock, timeline, next, okAt, failAt, archive, partial,
                 dumpLsn, deleted, backlog, check>>

\* Two attempts never carry the same time.
Attempt == next < current /\ walClock > okAt /\ walClock > failAt

\* archive_command succeeds (external): the copy is whole.
ArchiveSegment ==
  /\ Attempt
  /\ archive' = archive \cup {SegmentAt(timeline, next)}
  /\ partial' = FALSE
  /\ next' = next + 1
  /\ okAt' = walClock
  /\ doneAt' = [doneAt EXCEPT ![next] = 0]
  /\ UNCHANGED <<walClock, timeline, current, failAt, dumpLsn, deleted, backlog,
                 check>>

\* archive_command fails (external), perhaps leaving an interrupted copy; the
\* archiver will retry the same segment.
FailArchive ==
  /\ Attempt
  /\ failAt' = walClock
  /\ partial' \in {partial, TRUE}
  /\ UNCHANGED <<walClock, timeline, current, doneAt, next, okAt, archive,
                 dumpLsn, deleted, backlog, check>>

\* A standby is promoted (external): a new timeline starts inside the segment
\* being written, and the new server archives from there.  What the old server
\* had completed and not archived stays behind.
Failover ==
  /\ timeline < MaxTimeline
  /\ timeline' = timeline + 1
  /\ next' = current
  /\ okAt' = 0 /\ failAt' = 0
  /\ doneAt' = [i \in 0..MaxSeg |-> 0]
  /\ backlog' = (backlog \/ next < current)
  /\ UNCHANGED <<walClock, current, archive, partial, dumpLsn, deleted,
                 check>>

\* create_backup: the manifest records the position the server is at.  Only
\* the newest manifest is read, so one dump, at any moment, is enough.
TakeDump ==
  /\ dumpLsn = -1
  /\ dumpLsn' \in (current * SegBytes)..(current * SegBytes + SegBytes - 1)
  /\ UNCHANGED <<walClock, timeline, current, doneAt, next, okAt, failAt,
                 archive, partial, deleted, backlog, check>>

\* An operator deletes an archived file.
DeleteSegment ==
  /\ deleted < MaxDeleted
  /\ \E s \in archive : archive' = archive \ {s}
  /\ deleted' = deleted + 1
  /\ UNCHANGED <<walClock, timeline, current, doneAt, next, okAt, failAt,
                 partial, dumpLsn, backlog, check>>

\* _wal_command, first read: read_inventory lists the directory.
ReadInventory ==
  /\ check.pc = "idle"
  /\ check' = [pc |-> "listed", inv |-> archive, partial |-> partial]
  /\ UNCHANGED <<walClock, timeline, current, doneAt, next, okAt, failAt,
                 archive, partial, dumpLsn, deleted, backlog>>

\* _wal_command, the rest: what evaluate_archive is given, the newest manifest
\* and, with --dsn, the server's own view.
Report(dsn, stated, budget) ==
  [inv |-> check.inv, partial |-> check.partial, dsn |-> dsn,
   stated |-> stated, budget |-> budget,
   okAt |-> IF dsn THEN okAt ELSE 0, failAt |-> IF dsn THEN failAt ELSE 0,
   dumpLsn |-> dumpLsn, now |-> walClock]

\* The reports the command could print now: a budget without a server is
\* refused.
Reports ==
  IF check.pc # "listed" THEN {}
  ELSE {r \in {Report(d, s, b) : d, s, b \in BOOLEAN} : r.budget => r.dsn}

\* The command prints its report and exits, or is refused; either way it
\* changes nothing.
Exit ==
  /\ check.pc = "listed"
  /\ check' = NoReading
  /\ UNCHANGED <<walClock, timeline, current, doneAt, next, okAt, failAt,
                 archive, partial, dumpLsn, deleted, backlog>>

WaNext ==
  \/ WalTick \/ CompleteSegment \/ ArchiveSegment \/ FailArchive \/ Failover
  \/ TakeDump \/ DeleteSegment \/ ReadInventory \/ Exit

WaSpec == WaInit /\ [][WaNext]_waVars

-----------------------------------------------------------------------------
\* The state space, and the shape of what a check holds.
WaTypeOK ==
  /\ walClock \in 1..MaxWalTime /\ timeline \in 1..MaxTimeline
  /\ current \in 0..MaxSeg /\ next \in 0..current
  /\ doneAt \in [0..MaxSeg -> 0..MaxWalTime]
  /\ okAt \in 0..walClock /\ failAt \in 0..walClock
  /\ archive \subseteq Segment /\ partial \in BOOLEAN
  /\ dumpLsn \in -1..((current + 1) * SegBytes - 1)
  /\ deleted \in 0..MaxDeleted /\ backlog \in BOOLEAN
  /\ check.pc \in {"idle", "listed"}
  /\ check.pc # "idle" => check.inv \subseteq Segment

\* The indexes between the ends of a gap, on its timeline, that no archived
\* file has.
AbsentIn(inv, g) ==
  {i \in (IndexOf(g.after) + 1)..(IndexOf(g.before) - 1) :
     SegmentAt(g.after.timeline, i) \notin inv}

\* What a report says of holes is right, against the segments that are really
\* absent (ArchiveInventory.gaps).  A hole is reported only when a file was
\* deleted: failed copies, log boundaries and new timelines never look like
\* one.  Of a known segment size it is counted right.  And a segment missing
\* between two archived ones of its own log lies inside a reported hole.
HolesAreRight ==
  \A r \in Reports :
    /\ Gaps(r.inv, Sized(r)) # {} => deleted > 0
    /\ \A g \in Gaps(r.inv, TRUE) :
         g.missing > 0 /\ g.missing = Cardinality(AbsentIn(r.inv, g))
    /\ \A a, b \in r.inv : a.timeline = b.timeline /\ a.log = b.log =>
         \A i \in IndexOf(a)..IndexOf(b) :
           SegmentAt(a.timeline, i) \notin r.inv =>
             \E g \in Gaps(r.inv, Sized(r)) :
               /\ g.after.timeline = a.timeline
               /\ IndexOf(g.after) < i /\ i < IndexOf(g.before)

\* Every segment from the one holding the newest dump's position to the newest
\* archived one is there, on some timeline, and the archive reaches the dump.
RollsForward(r) ==
  \A n \in LastSegment(r.inv) :
    /\ r.dumpLsn \div SegBytes <= IndexOf(n)
    /\ \A i \in (r.dumpLsn \div SegBytes)..IndexOf(n) :
         \E s \in r.inv : IndexOf(s) = i

\* While nobody deleted a file and no failover left segments behind, an
\* archive said to reach the newest dump can roll it forward, across failed
\* attempts, log boundaries and failovers, although the directory and the
\* manifest are read at different moments (_coverage).
CoveredRollsForward ==
  deleted = 0 /\ ~backlog =>
    \A r \in Reports : CoverageOf(r) = "ok" => RollsForward(r)

-----------------------------------------------------------------------------
(* What the documentation says and the code does not do.                   *)

\* "the archived segments form an unbroken chain", for a known segment size.
ChainVerdictIsTrue ==
  \A r \in Reports :
    Sized(r) /\ Gaps(r.inv, TRUE) = {} =>
      \A a, b \in r.inv :
        a.timeline = b.timeline =>
          \A i \in IndexOf(a)..IndexOf(b) :
            SegmentAt(a.timeline, i) \in r.inv

\* "Does the archive hold the WAL the newest dump needs to roll forward?",
\* whenever the whole report is good.
CoverageIsTrue ==
  \A r \in Reports :
    ReportOk(r) /\ CoverageOf(r) = "ok" => RollsForward(r)

\* "the newest recoverable moment is bounded by how far the archiver has fallen
\* behind": the budget is met only if no segment completed longer ago than that
\* is still waiting for the archiver.
LagBoundsLoss ==
  \A r \in Reports :
    r.budget /\ ReportOk(r) =>
      \A i \in next..(current - 1) : walClock - doneAt[i] <= LagLimit

=============================================================================
