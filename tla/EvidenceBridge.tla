---------------------------- MODULE EvidenceBridge ----------------------------
(***************************************************************************)
(* How a connector's answer becomes evidence in two stores: Aftercare's    *)
(* observation ledger and the evidence store EGM, which share no           *)
(* transaction.  Workers record the facts of one Case, import its buyer    *)
(* history page by page and apply corrections; each of them goes through   *)
(* a series of short transactions and EGM calls, and may stop after any of *)
(* them: a crash, a lost answer, a lost lease or a retryable error all     *)
(* leave the process where it began and the stores where they were.        *)
(*                                                                         *)
(* Facts are the buyer messages 1..Facts in their chronological order; a   *)
(* fact's source event identifies it, and the bytes that answered it also  *)
(* depend on the export the process has loaded.                            *)
(***************************************************************************)
EXTENDS Integers

CONSTANTS Workers,
          Facts,         \* the number of buyer messages
          PageSize,
          Exports,       \* imported exports, by digest
          Corrections,   \* facts the source may withdraw
          MaxOther,      \* bound: writes of others to the EGM case
          MaxStops     \* bound: crashes, lost answers, retryable errors

ASSUME BridgeAssumption ==
  /\ Facts \in Nat /\ PageSize \in Nat \ {0}
  /\ Exports # {} /\ Corrections \subseteq 1..Facts
  /\ MaxOther \in Nat /\ MaxStops \in Nat

VARIABLES ledger,        \* aftercare_investigation_observations
          projections,   \* aftercare_investigation_egm_projections
          revocations,   \* aftercare_investigation_egm_revocations
          binding,       \* is the EGM node bound?
          cursor,        \* aftercare_investigation_buyer_cursors
          egm,           \* the EGM case
          export,        \* the export each worker loaded when it started
          procs,         \* where each worker is
          refused,       \* facts whose second delivery was called a conflict
          others, stops

stores == <<ledger, projections, revocations, binding, cursor>>
bridgeVars == <<ledger, projections, revocations, binding, cursor, egm, export,
                procs, refused, others, stops>>

Fact == 1..Facts

\* A row of the ledger; the digest of its original is that of the export.
Row == [present : BOOLEAN, export : Exports, revoked : BOOLEAN]

\* InvestigationEgmProjection and InvestigationEgmRevocation: the command as it
\* is sent, and its receipt, 0 until it is known.
Command == [present : BOOLEAN, expected : Nat, completed : Nat]
NoCommand == [present |-> FALSE, expected |-> 0, completed |-> 0]

\* EGM executes an operation id once: at the revision it expects, giving at.
Receipt == [expected : Nat, at : Nat]
NoReceipt == [expected |-> 0, at |-> 0]
EgmCase == [revision : Nat, node : Receipt, evidence : [Fact -> Receipt],
            withdrawn : [Fact -> Receipt]]

Proc == [pc : {"idle", "persist", "bind", "putnode", "load", "read", "reserve",
               "send", "reread", "rebase", "complete", "advance"},
         job : {"lookup", "import", "revoke"},
         fact : 0..Facts, from : 0..Facts,
         revision : Nat, fresh : Nat, again : BOOLEAN]

IdleProc == [pc |-> "idle", job |-> "lookup", fact |-> 0, from |-> 0,
             revision |-> 0, fresh |-> 0, again |-> FALSE]

-----------------------------------------------------------------------------
(* The EGM application: an operation id is replayed when the request is    *)
(* the same one, and refused when the case is at another revision.         *)

Replays(receipt, expected) == receipt.at # 0 /\ receipt.expected = expected
Applies(receipt, expected) == receipt.at = 0 /\ egm.revision = expected
EgmAnswers(receipt, expected) ==
  Replays(receipt, expected) \/ Applies(receipt, expected)

\* The receipt that the case holds after an answered call.
EgmReceipt(receipt, expected) ==
  IF Replays(receipt, expected) THEN receipt
                                ELSE [expected |-> expected, at |-> egm.revision + 1]

EgmRevision(receipt, expected) ==
  IF Replays(receipt, expected) THEN egm.revision ELSE egm.revision + 1

\* Another writer of the case, perhaps before the investigation has its node.
OtherWrite ==
  /\ others < MaxOther
  /\ egm' = [egm EXCEPT !.revision = @ + 1]
  /\ others' = others + 1
  /\ UNCHANGED <<stores, export, procs, refused, stops>>

-----------------------------------------------------------------------------
(* Steps of a worker.                                                      *)

Goto(p, q) == procs' = [procs EXCEPT ![p] = q]
Fail(p) == Goto(p, IdleProc)

\* The last message of the page that starts after c.
PageEnd(c) == IF c + PageSize < Facts THEN c + PageSize ELSE Facts

\* An import turns to message f of the page that starts after c.
Importing(f, c) ==
  [IdleProc EXCEPT !.pc = "persist", !.job = "import", !.fact = f, !.from = c]

\* A recorded fact: a lookup is done, an import goes on with its page.
FactDone(p) ==
  LET q == procs[p] IN
  IF q.job # "import" THEN Goto(p, IdleProc)
  ELSE IF q.fact < PageEnd(q.from)
    THEN Goto(p, Importing(q.fact + 1, q.from))
    ELSE Goto(p, [q EXCEPT !.pc = "advance"])

\* A tool step or a signed source event brings fact f.
StartLookup(p, f) ==
  /\ procs[p] = IdleProc
  /\ Goto(p, [IdleProc EXCEPT !.pc = "persist", !.fact = f])
  /\ UNCHANGED <<stores, egm, export, refused, others, stops>>

\* import_buyer_history reads the cursor and its first page.
StartImport(p) ==
  /\ procs[p] = IdleProc /\ cursor < Facts
  /\ Goto(p, Importing(cursor + 1, cursor))
  /\ UNCHANGED <<stores, egm, export, refused, others, stops>>

\* The ledger compares whole observations: original bytes and revocation.
SameEvidence(row, p) == row.export = export[p] /\ ~ row.revoked

\* The row evidence_from_answer and ingest_observation give the ledger.
NewRow(p) == [present |-> TRUE, export |-> export[p], revoked |-> FALSE]

\* InvestigationObservationRepository.put under the lock of the Case.
Persist(p) ==
  LET q == procs[p]  row == ledger[q.fact] IN
  /\ q.pc = "persist"
  /\ \/ /\ ~ row.present
        /\ ledger' = [ledger EXCEPT ![q.fact] = NewRow(p)]
        /\ Goto(p, [q EXCEPT !.pc = "bind"])
        /\ UNCHANGED refused
     \/ /\ row.present /\ SameEvidence(row, p)
        /\ Goto(p, [q EXCEPT !.pc = "bind"])
        /\ UNCHANGED <<ledger, refused>>
     \/ /\ row.present /\ ~ SameEvidence(row, p)
        /\ refused' = refused \cup {q.fact}
        /\ Fail(p)
        /\ UNCHANGED ledger
  /\ UNCHANGED <<projections, revocations, binding, cursor, egm, export,
                 others, stops>>

\* _egm_binding: the bound node, or create_node at revision 0.
Bind(p) ==
  LET q == procs[p] IN
  /\ q.pc = "bind"
  /\ \/ binding /\ Goto(p, [q EXCEPT !.pc = "load"]) /\ UNCHANGED egm
     \/ /\ ~ binding /\ EgmAnswers(egm.node, 0)
        /\ egm' = [egm EXCEPT !.revision = EgmRevision(egm.node, 0),
                              !.node = EgmReceipt(egm.node, 0)]
        /\ Goto(p, [q EXCEPT !.pc = "putnode"])
     \/ ~ binding /\ ~ EgmAnswers(egm.node, 0) /\ Fail(p) /\ UNCHANGED egm
  /\ UNCHANGED <<stores, export, refused, others, stops>>

\* InvestigationEgmBindingRepository.put: the first writer's node is kept, and
\* the replayed create_node gave every worker that same node.
PutBinding(p) ==
  /\ procs[p].pc = "putnode"
  /\ binding' = TRUE
  /\ Goto(p, [procs[p] EXCEPT !.pc = "load"])
  /\ UNCHANGED <<ledger, projections, revocations, cursor, egm, export, refused,
                 others, stops>>

\* Mutant of Resume: a reserved command is taken for an executed one.
ResumeReserved(p, command) == FactDone(p)

\* A command read back: sent as it stands unless its receipt is known.
Resume(p, command) ==
  IF command.completed # 0 THEN FactDone(p)
  ELSE Goto(p, [procs[p] EXCEPT !.pc = "send", !.revision = command.expected])

LoadProjection(p) ==
  LET q == procs[p] IN
  /\ q.pc = "load"
  /\ IF projections[q.fact].present THEN Resume(p, projections[q.fact])
                                    ELSE Goto(p, [q EXCEPT !.pc = "read"])
  /\ UNCHANGED <<stores, egm, export, refused, others, stops>>

\* ConnectorEvidenceRecorder.revoke: only evidence with an EGM identity can be
\* withdrawn; an earlier reservation gives the revision.
StartRevoke(p, f) ==
  LET q == [IdleProc EXCEPT !.job = "revoke", !.fact = f] IN
  /\ procs[p] = IdleProc /\ f \in Corrections
  /\ projections[f].completed # 0
  /\ Goto(p, IF revocations[f].present
               THEN [q EXCEPT !.pc = "reserve", !.revision = revocations[f].expected]
               ELSE [q EXCEPT !.pc = "read"])
  /\ UNCHANGED <<stores, egm, export, refused, others, stops>>

\* _egm_case_revision, before a command is reserved or rebased.
ReadRevision(p) ==
  LET q == procs[p] IN
  /\ \/ q.pc = "read" /\ Goto(p, [q EXCEPT !.pc = "reserve", !.revision = egm.revision])
     \/ q.pc = "reread" /\ Goto(p, [q EXCEPT !.pc = "rebase", !.fresh = egm.revision])
  /\ UNCHANGED <<stores, egm, export, refused, others, stops>>

\* INSERT ... ON CONFLICT DO NOTHING: the first command stands.
Reserved(command, revision) ==
  IF command.present THEN command
  ELSE [present |-> TRUE, expected |-> revision, completed |-> 0]

ReserveProjection(p) ==
  LET q == procs[p]  command == Reserved(projections[q.fact], q.revision) IN
  /\ q.pc = "reserve" /\ q.job # "revoke"
  /\ projections' = [projections EXCEPT ![q.fact] = command]
  /\ Resume(p, command)
  /\ UNCHANGED <<ledger, revocations, binding, cursor, egm, export, refused,
                 others, stops>>

Withdrawn(row) == [row EXCEPT !.revoked = TRUE]

\* One transaction withdraws the observation and reserves the EGM command.
ReserveRevocation(p) ==
  LET q == procs[p]  command == Reserved(revocations[q.fact], q.revision) IN
  /\ q.pc = "reserve" /\ q.job = "revoke"
  /\ ledger' = [ledger EXCEPT ![q.fact] = Withdrawn(@)]
  /\ revocations' = [revocations EXCEPT ![q.fact] = command]
  /\ Resume(p, command)
  /\ UNCHANGED <<projections, binding, cursor, egm, export, refused, others, stops>>

\* _egm_projection_result and _egm_revocation_result keep the revision of the
\* receipt until the command is completed.
ProjectionResult(q, receipt) == [q EXCEPT !.pc = "complete", !.fresh = receipt.at]
RevocationResult(q, receipt) == [q EXCEPT !.pc = "complete", !.fresh = receipt.at]

\* One conflict is followed by a rebase; a second one fails the step.
Conflict(p) ==
  IF procs[p].again THEN Fail(p) ELSE Goto(p, [procs[p] EXCEPT !.pc = "reread"])

IngestEvidence(p) ==
  LET q == procs[p]  held == egm.evidence[q.fact]
      receipt == EgmReceipt(held, q.revision) IN
  /\ q.pc = "send" /\ q.job # "revoke"
  /\ \/ /\ EgmAnswers(held, q.revision)
        /\ egm' = [egm EXCEPT !.revision = EgmRevision(held, q.revision),
                              !.evidence = [@ EXCEPT ![q.fact] = receipt]]
        /\ Goto(p, ProjectionResult(q, receipt))
     \/ ~ EgmAnswers(held, q.revision) /\ Conflict(p) /\ UNCHANGED egm
  /\ UNCHANGED <<stores, export, refused, others, stops>>

RevokeEvidence(p) ==
  LET q == procs[p]  held == egm.withdrawn[q.fact]
      receipt == EgmReceipt(held, q.revision) IN
  /\ q.pc = "send" /\ q.job = "revoke"
  /\ \/ /\ EgmAnswers(held, q.revision)
        /\ egm' = [egm EXCEPT !.revision = EgmRevision(held, q.revision),
                              !.withdrawn = [@ EXCEPT ![q.fact] = receipt]]
        /\ Goto(p, RevocationResult(q, receipt))
     \/ ~ EgmAnswers(held, q.revision) /\ Conflict(p) /\ UNCHANGED egm
  /\ UNCHANGED <<stores, export, refused, others, stops>>

\* Mutant of Rebased: the update does not name the revision it replaces.
RebasedBlindly(command, previous, fresh) ==
  IF command.completed = 0 THEN [command EXCEPT !.expected = fresh] ELSE command

\* Mutant of Rebased: the update never finds its row.
RebasedNever(command, previous, fresh) == command

Rebased(command, previous, fresh) ==
  IF command.expected = previous /\ command.completed = 0
    THEN [command EXCEPT !.expected = fresh] ELSE command

\* After the update the command is read back.
AfterRebase(p, command) ==
  LET q == procs[p] IN
  IF command.completed # 0 THEN FactDone(p)
  ELSE IF command.expected # q.fresh THEN Fail(p)
  ELSE Goto(p, [q EXCEPT !.pc = "send", !.revision = q.fresh, !.again = TRUE])

\* A rebase to the revision that was expected is refused.  It is never asked
\* for: EGM refuses a stored command only at another revision.
CaseMoved(q) == q.fresh # q.revision

RebaseProjection(p) ==
  LET q == procs[p]
      command == Rebased(projections[q.fact], q.revision, q.fresh) IN
  /\ q.pc = "rebase" /\ q.job # "revoke" /\ CaseMoved(q)
  /\ projections' = [projections EXCEPT ![q.fact] = command]
  /\ AfterRebase(p, command)
  /\ UNCHANGED <<ledger, revocations, binding, cursor, egm, export, refused,
                 others, stops>>

RebaseRevocation(p) ==
  LET q == procs[p]
      command == Rebased(revocations[q.fact], q.revision, q.fresh) IN
  /\ q.pc = "rebase" /\ q.job = "revoke" /\ CaseMoved(q)
  /\ revocations' = [revocations EXCEPT ![q.fact] = command]
  /\ AfterRebase(p, command)
  /\ UNCHANGED <<ledger, projections, binding, cursor, egm, export, refused,
                 others, stops>>

Completed(command, revision, at) ==
  IF command.expected = revision /\ command.completed = 0
    THEN [command EXCEPT !.completed = at] ELSE command

AfterComplete(p, command) ==
  LET q == procs[p] IN
  IF command.expected = q.revision /\ command.completed = q.fresh
    THEN FactDone(p) ELSE Fail(p)

CompleteProjection(p) ==
  LET q == procs[p]
      command == Completed(projections[q.fact], q.revision, q.fresh) IN
  /\ q.pc = "complete" /\ q.job # "revoke"
  /\ projections' = [projections EXCEPT ![q.fact] = command]
  /\ AfterComplete(p, command)
  /\ UNCHANGED <<ledger, revocations, binding, cursor, egm, export, refused,
                 others, stops>>

CompleteRevocation(p) ==
  LET q == procs[p]
      command == Completed(revocations[q.fact], q.revision, q.fresh) IN
  /\ q.pc = "complete" /\ q.job = "revoke"
  /\ revocations' = [revocations EXCEPT ![q.fact] = command]
  /\ AfterComplete(p, command)
  /\ UNCHANGED <<ledger, projections, binding, cursor, egm, export, refused,
                 others, stops>>

\* BuyerHistoryCursorRepository.advance
CursorAfter(from) == IF cursor = from THEN PageEnd(from) ELSE cursor

Advance(p) ==
  LET q == procs[p]  end == PageEnd(q.from) IN
  /\ q.pc = "advance"
  /\ cursor' = CursorAfter(q.from)
  /\ IF cursor' = end /\ end < Facts
       THEN Goto(p, Importing(end + 1, end)) ELSE Fail(p)
  /\ UNCHANGED <<ledger, projections, revocations, binding, egm, export, refused,
                 others, stops>>

\* The process stops where it is: crash, lost answer, lease lost, retryable
\* error of either store.
Stop(p) ==
  /\ procs[p] # IdleProc /\ stops < MaxStops
  /\ stops' = stops + 1
  /\ Fail(p)
  /\ UNCHANGED <<stores, egm, export, refused, others>>

-----------------------------------------------------------------------------

BridgeInit ==
  /\ ledger = [f \in Fact |-> [present |-> FALSE, revoked |-> FALSE,
                               export |-> CHOOSE e \in Exports : TRUE]]
  /\ projections = [f \in Fact |-> NoCommand]
  /\ revocations = [f \in Fact |-> NoCommand]
  /\ binding = FALSE /\ cursor = 0
  /\ egm = [revision |-> 0, node |-> NoReceipt,
            evidence |-> [f \in Fact |-> NoReceipt],
            withdrawn |-> [f \in Fact |-> NoReceipt]]
  /\ export \in [Workers -> Exports]
  /\ procs = [p \in Workers |-> IdleProc]
  /\ refused = {} /\ others = 0 /\ stops = 0

WorkerStep(p) ==
  \/ Persist(p) \/ Bind(p) \/ PutBinding(p) \/ LoadProjection(p)
  \/ ReadRevision(p) \/ ReserveProjection(p) \/ ReserveRevocation(p)
  \/ IngestEvidence(p) \/ RevokeEvidence(p)
  \/ RebaseProjection(p) \/ RebaseRevocation(p)
  \/ CompleteProjection(p) \/ CompleteRevocation(p) \/ Advance(p)

BridgeNext ==
  \/ \E p \in Workers :
       \/ WorkerStep(p) \/ StartImport(p) \/ Stop(p)
       \/ \E f \in Fact : StartLookup(p, f) \/ StartRevoke(p, f)
  \/ OtherWrite

BridgeSpec == BridgeInit /\ [][BridgeNext]_bridgeVars

-----------------------------------------------------------------------------
(* Properties.                                                             *)

\* Types; a row withdrawn or sent to EGM is one that was recorded.
BridgeTypeOK ==
  /\ ledger \in [Fact -> Row]
  /\ projections \in [Fact -> Command] /\ revocations \in [Fact -> Command]
  /\ binding \in BOOLEAN /\ cursor \in 0..Facts
  /\ egm \in EgmCase
  /\ export \in [Workers -> Exports] /\ procs \in [Workers -> Proc]
  /\ \A f \in Fact : ledger[f].revoked \/ projections[f].present => ledger[f].present

\* What EGM executed is the command the table holds, so sending the stored
\* command again after a lost answer replays it; a known receipt is EGM's own.
\* And the ledger leads: EGM holds no evidence the ledger lacks and withdraws
\* none the ledger still uses, and a withdrawal the ledger shows is a command
\* somebody can still finish.
StoresAgree ==
  \A f \in Fact :
    /\ egm.evidence[f].at # 0 =>
         projections[f].present /\ projections[f].expected = egm.evidence[f].expected
    /\ egm.withdrawn[f].at # 0 =>
         revocations[f].present /\ revocations[f].expected = egm.withdrawn[f].expected
    /\ projections[f].completed # 0 => projections[f].completed = egm.evidence[f].at
    /\ revocations[f].completed # 0 => revocations[f].completed = egm.withdrawn[f].at
    /\ egm.evidence[f].at # 0 => ledger[f].present
    /\ egm.withdrawn[f].at # 0 => ledger[f].revoked /\ egm.evidence[f].at # 0
    /\ ledger[f].revoked <=> revocations[f].present

\* The cursor passes no message before it is in both stores.
CursorCovers ==
  \A f \in 1..cursor : ledger[f].present /\ projections[f].completed # 0

\* Every buyer message gets past the cursor, and so into both stores, however
\* often workers stop on the way.
ImportCompletes == <>(cursor = Facts)

-----------------------------------------------------------------------------
(* What the documentation says and the code does not do.                   *)

\* A fact that arrives twice is recorded once instead of being reported as a
\* conflict.
RedeliveryAccepted == refused = {}
=============================================================================
