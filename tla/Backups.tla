------------------------------ MODULE Backups -------------------------------
(***************************************************************************)
(* The backup directory and the commands that work in it                   *)
(* (aftercare_agent/ops/backup.py, drill_records.py, freshness.py):        *)
(* `create', `drill', `retention --apply' and `status', each a process of  *)
(* its own that may be killed between any two of its file operations.      *)
(*                                                                         *)
(* A backup is a dump and a manifest of one name, and perhaps the record   *)
(* of its last drill.  The database changes all the time: its content is   *)
(* the clock reading at which it is looked at, so a dump is known by the   *)
(* moment whose rows it holds, and the digest of a dump is its content.    *)
(***************************************************************************)
EXTENDS Integers, FiniteSets, Sequences, SequencesExt, TLC

CONSTANTS Names,       \* backup names
          Reuse,       \* may a create be given a name that was used before
          KeepLast, KeepDaily,   \* RetentionPolicy
          DayLength,   \* clock readings in a day
          Rpo,         \* StatusBudget.rpo_seconds
          DrillEvery,  \* StatusBudget.drill_interval_seconds
          MaxBkTime,     \* bound: clock
          MaxCrashes,  \* bound: killed commands
          MaxDrills    \* bound: drills

ASSUME BkAssumption ==
  /\ Reuse \in BOOLEAN
  /\ KeepLast \in Nat \ {0} /\ KeepDaily \in Nat /\ DayLength \in Nat \ {0}
  /\ Rpo \in Nat \ {0} /\ DrillEvery \in Nat \ {0}
  /\ MaxBkTime \in Nat /\ MaxCrashes \in Nat /\ MaxDrills \in Nat

VARIABLES bkClock,
          dumps,      \* content of <name>.dump
          manifests,  \* <name>.manifest.json
          records,    \* <name>.drill.json
          scratch,    \* does the drill's scratch database exist
          used,       \* history: names a create was given
          restored,   \* history: backups some drill restored and compared
          creator, driller, pruner, status,  \* the commands
          crashes, drills

bkVars == <<bkClock, dumps, manifests, records, scratch, used, restored,
            creator, driller, pruner, status, crashes, drills>>

NoFile == [kind |-> "none"]
Torn   == [kind |-> "torn"]     \* a write that was cut short
IdleCommand   == [pc |-> "idle"]

Partial == 0                    \* a dump pg_dump is still writing

\* Dump, manifest and drill record as they may be on disk.
DumpFile == {NoFile} \cup [kind : {"file"}, content : 0..MaxBkTime]
ManifestFile ==
  {NoFile, Torn}
    \cup [kind : {"file"}, taken : 1..MaxBkTime, digest : 1..MaxBkTime]
RecordFile ==
  {NoFile, Torn} \cup [kind : {"file"}, at : 1..MaxBkTime, ok : BOOLEAN]

Dump(c) == [kind |-> "file", content |-> c]
Present(f) == f.kind # "none"
Readable(f) == f.kind = "file"

\* load_manifests: one unreadable manifest refuses the whole command.
Loadable == \A n \in Names : manifests[n] # Torn
Listed == {n \in Names : Readable(manifests[n])}
NewestListed == {n \in Listed : \A o \in Listed :
                            manifests[o].taken <= manifests[n].taken}

BkInit ==
  /\ bkClock = 0
  /\ dumps = [n \in Names |-> NoFile]
  /\ manifests = [n \in Names |-> NoFile]
  /\ records = [n \in Names |-> NoFile]
  /\ scratch = FALSE
  /\ used = {} /\ restored = {}
  /\ creator = IdleCommand /\ driller = IdleCommand
  /\ pruner = IdleCommand /\ status = IdleCommand
  /\ crashes = 0 /\ drills = 0

\* Time passes and the database changes.
BkTick ==
  /\ bkClock < MaxBkTime
  /\ bkClock' = bkClock + 1
  /\ UNCHANGED <<dumps, manifests, records, scratch, used, restored, creator,
                 driller, pruner, status, crashes, drills>>

-----------------------------------------------------------------------------
(* create                                                                  *)

createUnch == <<records, scratch, restored, driller, pruner, status, crashes,
                drills>>

\* create_backup opens its REPEATABLE READ snapshot: recovery point, row counts
\* and dump will all be of this moment.
BeginCreate(n) ==
  /\ creator.pc = "idle"
  /\ Reuse \/ n \notin used
  /\ bkClock < MaxBkTime
  /\ bkClock' = bkClock + 1
  /\ creator' = [pc |-> "named", name |-> n, taken |-> bkClock + 1]
  /\ used' = used \cup {n}
  /\ UNCHANGED <<dumps, manifests, createUnch>>

\* The handler of create_backup: whatever went wrong, the file at the dump's
\* path is removed.
CreateFails ==
  /\ dumps' = [dumps EXCEPT ![creator.name] = NoFile]
  /\ creator' = IdleCommand

\* A dump of this name exists: refused.  Otherwise pg_dump starts writing.
StartDump ==
  /\ creator.pc = "named"
  /\ \/ Present(dumps[creator.name]) /\ CreateFails
     \/ /\ ~Present(dumps[creator.name])
        /\ dumps' = [dumps EXCEPT ![creator.name] = Dump(Partial)]
        /\ creator' = [creator EXCEPT !.pc = "dumping"]
  /\ UNCHANGED <<bkClock, manifests, used, createUnch>>

\* What pg_dump --snapshot writes: the rows of the exported snapshot.
Dumped == Dump(creator.taken)

\* pg_dump ends well, or fails.
FinishDump ==
  /\ creator.pc = "dumping"
  /\ \/ /\ dumps' = [dumps EXCEPT ![creator.name] = Dumped]
        /\ creator' = [creator EXCEPT !.pc = "dumped"]
     \/ CreateFails
  /\ UNCHANGED <<bkClock, manifests, used, createUnch>>

\* finalize_backup: a manifest of this name, or no dump, fails the create;
\* otherwise the dump is hashed and described.
Finalize ==
  /\ creator.pc = "dumped"
  /\ LET n == creator.name IN
     \/ /\ Present(manifests[n]) \/ ~Present(dumps[n])
        /\ CreateFails
        /\ UNCHANGED manifests
     \/ /\ ~Present(manifests[n]) /\ Present(dumps[n])
        /\ manifests' = [manifests EXCEPT ![n] =
             [kind |-> "file", taken |-> creator.taken,
              digest |-> dumps[n].content]]
        /\ creator' = IdleCommand
        /\ UNCHANGED dumps
  /\ UNCHANGED <<bkClock, used, createUnch>>

-----------------------------------------------------------------------------
(* drill                                                                   *)

drillUnch == <<bkClock, dumps, manifests, used, creator, pruner, status,
               crashes>>

\* load_manifest: a name, or the newest of all.
BeginDrill(n) ==
  /\ driller.pc = "idle" /\ drills < MaxDrills
  /\ Readable(manifests[n])
  /\ driller' = [pc |-> "loaded", name |-> n, taken |-> manifests[n].taken]
  /\ drills' = drills + 1
  /\ UNCHANGED <<records, scratch, restored, drillUnch>>

\* The drill failed with an OpsError: it is recorded, then the error travels.
\* Any other error travels at once.
FailRecorded == driller' = [pc |-> "failing", name |-> driller.name]
FailRaised == driller' = [pc |-> "failed", name |-> driller.name]

\* _create_scratch: a scratch database that exists is refused.
CreateScratch ==
  /\ driller.pc = "loaded"
  /\ IF scratch
     THEN FailRecorded /\ UNCHANGED scratch
     ELSE \/ scratch' = TRUE /\ driller' = [driller EXCEPT !.pc = "empty"]
          \/ FailRaised /\ UNCHANGED scratch
  /\ UNCHANGED <<records, restored, drills, drillUnch>>

\* _compare: migrations, tables and row counts of the restored copy are those
\* of the manifest.
Matches(c, taken) == c = taken

\* pg_restore of the dump, then _compare.  A missing or unfinished dump does
\* not restore: the scratch copy is dropped and the failure recorded.
Restore ==
  /\ driller.pc = "empty"
  /\ LET d == dumps[driller.name] IN
     IF ~Present(d) \/ d = Dump(Partial)
     THEN FailRecorded /\ scratch' = FALSE /\ UNCHANGED restored
     ELSE /\ driller' = [pc |-> "compared", name |-> driller.name,
                          ok |-> Matches(d.content, driller.taken)]
          /\ restored' = IF d.content = driller.taken
                         THEN restored \cup {<<driller.name, driller.taken>>}
                         ELSE restored
          /\ UNCHANGED scratch
  /\ UNCHANGED <<records, drills, drillUnch>>

\* The upgrade of the copy: it keeps the verdict, turns it bad, or raises an
\* error of the database; then the copy is dropped.  A drop the server refuses
\* raises too.
Upgrade ==
  /\ driller.pc = "compared"
  /\ \/ /\ driller' = [driller EXCEPT !.pc = "passed"]
        /\ scratch' = FALSE
     \/ /\ driller' = [driller EXCEPT !.pc = "passed", !.ok = FALSE]
        /\ scratch' = FALSE
     \/ FailRaised /\ scratch' \in {FALSE, TRUE}
  /\ UNCHANGED <<records, restored, drills, drillUnch>>

\* _record_drill and _record_failed_drill: the one record of this name is
\* overwritten.
RecordDrill ==
  /\ driller.pc \in {"passed", "failing"}
  /\ bkClock > 0
  /\ records' = [records EXCEPT ![driller.name] =
       [kind |-> "file", at |-> bkClock,
        ok |-> driller.pc = "passed" /\ driller.ok]]
  /\ driller' = IF records'[driller.name].ok THEN IdleCommand
                ELSE [pc |-> "failed", name |-> driller.name]
  /\ UNCHANGED <<scratch, restored, drills, drillUnch>>

DrillExits ==
  /\ driller.pc = "failed"
  /\ driller' = IdleCommand
  /\ UNCHANGED <<records, scratch, restored, drills, drillUnch>>

-----------------------------------------------------------------------------
(* retention --apply                                                       *)

pruneUnch == <<bkClock, scratch, used, restored, creator, driller, status,
               crashes, drills>>

Day(n) == manifests[n].taken \div DayLength

\* Mutant of Ordered: oldest first.
OrderedOldest ==
  SetToSortSeq(Listed, LAMBDA a, b : manifests[a].taken < manifests[b].taken)

\* The manifests, newest first.
Ordered ==
  SetToSortSeq(Listed, LAMBDA a, b : manifests[a].taken > manifests[b].taken)

\* plan_retention: the newest KeepLast survive, and after them the newest of
\* each further day until KeepDaily days are represented.
Plan ==
  FoldLeft(LAMBDA p, n :
             LET keep == \/ p.seen < KeepLast
                         \/ /\ Cardinality(p.days) < KeepDaily
                            /\ Day(n) \notin p.days
             IN [seen |-> p.seen + 1,
                 days |-> IF keep THEN p.days \cup {Day(n)} ELSE p.days,
                 kept |-> IF keep THEN p.kept \cup {n} ELSE p.kept,
                 rejected |-> IF keep THEN p.rejected
                              ELSE Append(p.rejected, n)],
           [seen |-> 0, days |-> {}, kept |-> {}, rejected |-> <<>>],
           Ordered)

\* The plan is made from every manifest; one that keeps nothing is refused.
BeginRetention ==
  /\ pruner.pc = "idle"
  /\ Loadable
  /\ Plan.kept # {} /\ Plan.rejected # <<>>
  /\ pruner' = [pc |-> "dump", todo |-> Plan.rejected]
  /\ UNCHANGED <<dumps, manifests, records, pruneUnch>>

\* apply_retention: the files of each rejected backup in turn, the dump, the
\* manifest and the drill record, one unlink at a time.
Unlink ==
  /\ pruner.pc # "idle"
  /\ LET n == Head(pruner.todo) IN
     \/ /\ pruner.pc = "dump"
        /\ dumps' = [dumps EXCEPT ![n] = NoFile]
        /\ pruner' = [pruner EXCEPT !.pc = "manifest"]
        /\ UNCHANGED <<manifests, records>>
     \/ /\ pruner.pc = "manifest"
        /\ manifests' = [manifests EXCEPT ![n] = NoFile]
        /\ pruner' = [pruner EXCEPT !.pc = "record"]
        /\ UNCHANGED <<dumps, records>>
     \/ /\ pruner.pc = "record"
        /\ records' = [records EXCEPT ![n] = NoFile]
        /\ pruner' = IF Len(pruner.todo) = 1 THEN IdleCommand
                     ELSE [pc |-> "dump", todo |-> Tail(pruner.todo)]
        /\ UNCHANGED <<dumps, manifests>>
  /\ UNCHANGED pruneUnch

-----------------------------------------------------------------------------
(* status, with every budget set and --require-newest-drill                *)

statusUnch == <<bkClock, dumps, manifests, records, scratch, used, restored,
                creator, driller, pruner, crashes, drills>>

\* load_manifests.
ReadManifests ==
  /\ status.pc = "idle"
  /\ Loadable
  /\ status' = [pc |-> "listed", listed |-> Listed,
                newest |-> [n \in NewestListed |-> manifests[n].taken]]
  /\ UNCHANGED statusUnch

OkRecords == {n \in Names : Readable(records[n]) /\ records[n].ok}

\* _rpo_verdict, _drill_verdict and _newest_drill_verdict.
RpoOk == \A n \in DOMAIN status.newest : bkClock - status.newest[n] <= Rpo
DrillOk == \E n \in OkRecords : bkClock - records[n].at <= DrillEvery

\* Mutant of NewestDrilled: any restored backup will do.
AnyDrilled == OkRecords # {}

NewestDrilled == DOMAIN status.newest \subseteq OkRecords

\* The problems of evaluate_status: no manifest, or one without its dump.
NoProblem ==
  /\ status.listed # {}
  /\ \A n \in status.listed : Present(dumps[n])

\* load_drill_records and evaluate_status; one unreadable record refuses the
\* command.
EvaluateStatus ==
  /\ status.pc = "listed"
  /\ status' = IF \E n \in Names : records[n] = Torn THEN IdleCommand
               ELSE [pc |-> "done", newest |-> status.newest,
                     ok |-> NoProblem /\ RpoOk /\ DrillOk /\ NewestDrilled]
  /\ UNCHANGED statusUnch

StatusExits ==
  /\ status.pc = "done"
  /\ status' = IdleCommand
  /\ UNCHANGED statusUnch

-----------------------------------------------------------------------------
\* A command is killed.  A manifest or a record it was writing may be cut
\* short; a scratch database stays.
Crash ==
  /\ crashes < MaxCrashes
  /\ crashes' = crashes + 1
  /\ \/ /\ creator.pc # "idle" /\ creator' = IdleCommand
        /\ \/ UNCHANGED manifests
           \/ /\ creator.pc = "dumped"
              /\ ~Present(manifests[creator.name])
              /\ manifests' = [manifests EXCEPT ![creator.name] = Torn]
        /\ UNCHANGED <<records, driller, pruner>>
     \/ /\ driller.pc # "idle" /\ driller' = IdleCommand
        /\ \/ UNCHANGED records
           \/ /\ driller.pc \in {"passed", "failing"}
              /\ records' = [records EXCEPT ![driller.name] = Torn]
        /\ UNCHANGED <<manifests, creator, pruner>>
     \/ /\ pruner.pc # "idle" /\ pruner' = IdleCommand
        /\ UNCHANGED <<manifests, records, creator, driller>>
  /\ UNCHANGED <<bkClock, dumps, scratch, used, restored, status, drills>>

BkNext ==
  \/ BkTick \/ Crash
  \/ \E n \in Names : BeginCreate(n) \/ BeginDrill(n)
  \/ StartDump \/ FinishDump \/ Finalize
  \/ CreateScratch \/ Restore \/ Upgrade \/ RecordDrill \/ DrillExits
  \/ BeginRetention \/ Unlink
  \/ ReadManifests \/ EvaluateStatus \/ StatusExits

BkSpec == BkInit /\ [][BkNext]_bkVars

-----------------------------------------------------------------------------
\* The files, and the states of the four commands.
BkTypeOK ==
  /\ bkClock \in 0..MaxBkTime
  /\ dumps \in [Names -> DumpFile]
  /\ manifests \in [Names -> ManifestFile]
  /\ records \in [Names -> RecordFile]
  /\ scratch \in BOOLEAN /\ used \subseteq Names
  /\ creator.pc \in {"idle", "named", "dumping", "dumped"}
  /\ driller.pc \in {"idle", "loaded", "empty", "compared", "passed",
                     "failing", "failed"}
  /\ driller.pc \in {"empty", "compared"} => scratch
  /\ pruner.pc # "idle" => pruner.todo # <<>>
  /\ status.pc \in {"idle", "listed", "done"}

\* verify_backup: the dump is there and has the digest of its manifest.
Verifies(n) ==
  Present(dumps[n]) /\ dumps[n].content = manifests[n].digest

\* A whole backup: it verifies, and its dump holds the rows of its recovery
\* point, which is what a drill compares.
Whole(n) ==
  Readable(manifests[n]) /\ Verifies(n) /\ dumps[n].content = manifests[n].taken

\* A whole backup disappears only while KeepLast newer ones are listed, so once
\* there is one there always is one: neither a plan that creates and drills
\* overtake, nor one half applied, nor a killed command empties the directory
\* (plan_retention, apply_retention).
RetentionSparesTheNewest ==
  [][\A n \in Names :
       Whole(n) /\ ~Whole(n)' =>
         Cardinality({o \in Listed : manifests[o].taken > manifests[n].taken})
           >= KeepLast]_bkVars

\* A status that is ok is right about the newest backup it names: it is inside
\* the RPO budget, its dump is the one its manifest describes, and that very
\* dump was once restored and compared (evaluate_status).
StatusIsRight ==
  [][status.pc = "listed" /\ status'.pc = "done" /\ status'.ok =>
       \A n \in DOMAIN status.newest :
         /\ bkClock - status.newest[n] <= Rpo
         /\ Present(dumps[n]) /\ dumps[n].content = status.newest[n]
         /\ <<n, status.newest[n]>> \in restored]_bkVars

-----------------------------------------------------------------------------
(* What the documentation says and the code does not do.                   *)

\* "already exists; pick another name for this dump": a create that is refused
\* leaves the backup that has the name as it was.
RefusedCreateKeepsBackups ==
  [][\A n \in Names :
       Whole(n) /\ ~Whole(n)' => pruner.pc # "idle"]_bkVars

\* "has *this* backup ever been restored": an ok record beside a manifest is
\* of a drill that restored the dump of that manifest.
RecordsAreOfThisBackup ==
  \A n \in Listed \cap OkRecords : <<n, manifests[n].taken>> \in restored

\* "A failure is recorded as carefully as a success": when a drill has failed,
\* no record says this backup was restored last time.
FailedDrillsAreRecorded ==
  driller.pc = "failed" => driller.name \notin OkRecords

=============================================================================
