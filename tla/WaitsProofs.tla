---------------------------- MODULE WaitsProofs -----------------------------
(***************************************************************************)
(* Proofs about Access, for any callers, subjects and grants: who acts on  *)
(* a Case does so under a grant; about Waits, for any number of hosts,     *)
(* generations and signals and any clock skew; and about RetryBudget, for  *)
(* any producers, keys and budget.                                         *)
(***************************************************************************)
EXTENDS Access, Waits, WellFoundedInduction, RetryBudget, TLAPS

-----------------------------------------------------------------------------
(* The grants of a Case.                                                    *)

\* A transaction in flight knows its revision.
RequestsNamed ==
  \A c \in Callers : requests[c].revision = 0 => requests[c] = NoRequest

\* A stream that may send has been authorised since its last event.
StreamsChecked ==
  \A c \in Callers : /\ streams[c].late <= 1
                     /\ streams[c].pc = "checked" => streams[c].late = 0

\* Before the Case is opened there is no row, and nobody has read one.
UnopenedIsEmpty ==
  ~ opened => \A s \in Subjects : /\ grants[s].revision = 0
                                  /\ \A c \in Callers : seen[c][s] = 0

\* The inductive invariant of AccessSpec.
AccessInv ==
  /\ AccessTypeOK /\ ActsUnderGrant
  /\ RequestsNamed /\ StreamsChecked /\ UnopenedIsEmpty

\* The initial states.
LEMMA AccessInitially ==
  ASSUME AccessInit
  PROVE  AccessInv
<1>1. NoGrant \in GrantRow /\ NoGrant.revision = 0
  BY AccessAssumption DEF GrantRow, NoGrant
<1>2. NoRequest \in Request
  BY AccessAssumption DEF Request, NoRequest
<1>3. [pc |-> "closed", late |-> 0] \in Stream
  BY DEF Stream
<1>4. AccessTypeOK
  BY <1>1, <1>2, <1>3, Zenon DEF AccessInit, AccessTypeOK
<1>5. ActsUnderGrant
  <2> SUFFICES ASSUME NEW c \in Callers
               PROVE  requests[c] = NoRequest /\ streams[c].late <= 1
    BY Zenon DEF ActsUnderGrant
  <2> QED
    BY DEF AccessInit
<1> QED
  BY <1>1, <1>4, <1>5
     DEF AccessInit, AccessInv, RequestsNamed, StreamsChecked, UnopenedIsEmpty

\* Resolving a grant and ending the transaction (_authorized_case).
LEMMA AuthorizeKeeps ==
  ASSUME AccessInv, NEW c \in Callers, NEW perm \in Grantable, Authorize(c, perm)
  PROVE  AccessInv'
<1> DEFINE r == [perm |-> perm, revision |-> grants[SubjectOf[c]].revision]
<1>0. SubjectOf[c] \in Subjects
  BY AccessAssumption
<1>1. /\ requests' = [requests EXCEPT ![c] = r]
      /\ UNCHANGED <<grants, opened, streams, seen, grantEvents>>
      /\ Allowed(c, perm)
  BY DEF Authorize
<1>2. r \in Request /\ r.revision # 0 /\ r.revision = grants[SubjectOf[c]].revision
      /\ r.perm = perm
  BY <1>0, <1>1 DEF AccessInv, AccessTypeOK, GrantRow, Request, Allowed, Active
<1>3. requests'[c] = r /\ \A d \in Callers \ {c} : requests'[d] = requests[d]
  BY <1>1 DEF AccessInv, AccessTypeOK
<1> HIDE DEF r
<1>4. AccessTypeOK'
  BY <1>1, <1>2 DEF AccessInv, AccessTypeOK
<1>5. ActsUnderGrant'
  <2>1. perm \in grants[SubjectOf[c]].perms \cap Scopes[c]
        /\ ~ grants[SubjectOf[c]].revoked
    BY <1>1 DEF Allowed, Active, Bound
  <2> QED
    BY <1>1, <1>2, <1>3, <2>1 DEF AccessInv, ActsUnderGrant
<1> QED
  BY <1>1, <1>2, <1>3, <1>4, <1>5
     DEF AccessInv, RequestsNamed, StreamsChecked, UnopenedIsEmpty

\* A request ends.
LEMMA EndRequestKeeps ==
  ASSUME AccessInv, NEW c \in Callers, EndRequest(c)
  PROVE  AccessInv'
<1>1. /\ requests' = [requests EXCEPT ![c] = NoRequest]
      /\ UNCHANGED <<grants, opened, streams, seen, grantEvents>>
  BY DEF EndRequest
<1>2. NoRequest \in Request
  BY AccessAssumption DEF Request, NoRequest
<1>3. requests'[c] = NoRequest /\ \A d \in Callers \ {c} : requests'[d] = requests[d]
  BY <1>1 DEF AccessInv, AccessTypeOK
<1>4. AccessTypeOK'
  BY <1>1, <1>2 DEF AccessInv, AccessTypeOK
<1>5. ActsUnderGrant'
  BY <1>1, <1>3 DEF AccessInv, ActsUnderGrant
<1> QED
  BY <1>1, <1>3, <1>4, <1>5
     DEF AccessInv, RequestsNamed, StreamsChecked, UnopenedIsEmpty

\* The stream: whatever it does, at most one event follows its last check.
LEMMA StreamKeeps ==
  ASSUME AccessInv, NEW c \in Callers,
         OpenStream(c) \/ CheckEvent(c) \/ YieldEvent(c) \/ Disconnect(c)
  PROVE  AccessInv'
<1>0. streams[c] \in Stream /\ UNCHANGED <<grants, opened, requests, seen, grantEvents>>
  BY DEF AccessInv, AccessTypeOK, OpenStream, CheckEvent, YieldEvent, Disconnect
<1>1. PICK n \in Stream : /\ streams' = [streams EXCEPT ![c] = n] /\ n.late <= 1
                          /\ n.pc = "checked" => n.late = 0
  <2>1. CASE YieldEvent(c)
    <3> DEFINE n == [pc |-> "open", late |-> IF Allowed(c, "case:read")
                                               THEN 0 ELSE streams[c].late + 1]
    <3>1. streams[c].late = 0
      BY <2>1 DEF YieldEvent, AccessInv, StreamsChecked
    <3>2. streams' = [streams EXCEPT ![c] = n]
      BY <2>1 DEF YieldEvent
    <3>3. n \in Stream /\ n.late <= 1 /\ n.pc # "checked"
      BY <3>1 DEF Stream
    <3> HIDE DEF n
    <3> QED
      BY <3>2, <3>3, Zenon
  <2>2. CASE OpenStream(c) \/ CheckEvent(c) \/ Disconnect(c)
    <3>1. PICK pc \in {"closed", "open", "checked"} :
            streams' = [streams EXCEPT ![c] = [pc |-> pc, late |-> 0]]
      BY <2>2, Zenon DEF OpenStream, CheckEvent, Disconnect
    <3> DEFINE n == [pc |-> pc, late |-> 0]
    <3>2. n \in Stream /\ n.late <= 1 /\ n.late = 0
      BY DEF Stream
    <3>3. streams' = [streams EXCEPT ![c] = n]
      BY <3>1
    <3> HIDE DEF n
    <3> QED
      BY <3>2, <3>3, Zenon
  <2> QED
    BY <2>1, <2>2
<1>2. streams'[c] = n /\ \A d \in Callers \ {c} : streams'[d] = streams[d]
  BY <1>1 DEF AccessInv, AccessTypeOK
<1>3. AccessTypeOK'
  BY <1>0, <1>1 DEF AccessInv, AccessTypeOK
<1>4. ActsUnderGrant'
  BY <1>0, <1>1, <1>2 DEF AccessInv, ActsUnderGrant
<1>5. StreamsChecked'
  BY <1>1, <1>2 DEF AccessInv, StreamsChecked
<1> QED
  BY <1>0, <1>3, <1>4, <1>5 DEF AccessInv, RequestsNamed, UnopenedIsEmpty

\* A row that no transaction holds may be written.
LEMMA WriteKeeps ==
  ASSUME AccessInv, NEW c \in Callers, NEW s \in Subjects, NEW row \in GrantRow,
         NEW kind, NEW answered \in BOOLEAN, Write(c, s, row, kind, answered),
         row.perms # {}, ~ Locked(s), opened'
  PROVE  AccessInv'
<1>1. /\ grants' = [grants EXCEPT ![s] = row] /\ UNCHANGED <<requests, streams>>
      /\ \A d \in Callers : SubjectOf[d] = s => requests[d].revision = 0
      /\ opened' = TRUE
  BY DEF Write, Locked
<1>2. grants'[s] = row /\ \A t \in Subjects \ {s} : grants'[t] = grants[t]
  BY <1>1 DEF AccessInv, AccessTypeOK
<1>3. seen' \in [Callers -> [Subjects -> Nat]]
  <2>1. row.revision \in Nat
    BY DEF GrantRow
  <2> QED
    BY <2>1 DEF Write, AccessInv, AccessTypeOK
<1>4. AccessTypeOK'
  BY <1>1, <1>2, <1>3 DEF AccessInv, AccessTypeOK
<1>5. ActsUnderGrant'
  <2> SUFFICES ASSUME NEW d \in Callers, requests[d] # NoRequest
               PROVE  grants'[SubjectOf[d]] = grants[SubjectOf[d]]
    BY <1>1 DEF AccessInv, ActsUnderGrant
  <2>1. SubjectOf[d] # s
    BY <1>1 DEF AccessInv, RequestsNamed
  <2> QED
    BY <1>2, <2>1, AccessAssumption
<1> QED
  BY <1>1, <1>4, <1>5
     DEF AccessInv, RequestsNamed, StreamsChecked, UnopenedIsEmpty

\* Before the Case is opened nobody is in a transaction.
LEMMA UnopenedIsUnlocked ==
  ASSUME AccessInv, ~ opened, NEW s \in Subjects
  PROVE  ~ Locked(s)
<1> SUFFICES ASSUME NEW c \in Callers, requests[c].revision # 0, SubjectOf[c] = s
             PROVE  FALSE
  BY DEF Locked
<1>1. requests[c] # NoRequest
  BY DEF NoRequest
<1>2. grants[s].revision = requests[c].revision
  BY <1>1 DEF AccessInv, ActsUnderGrant
<1> QED
  BY <1>2 DEF AccessInv, UnopenedIsEmpty

\* A Case is opened with the grant of its creator.
LEMMA OpenCaseKeeps ==
  ASSUME AccessInv, NEW c \in Callers, open_case(c)
  PROVE  AccessInv'
<1> DEFINE s == SubjectOf[c]
           row == [revision |-> 1, perms |-> {"case:read"}, by |-> s,
                   revoked |-> FALSE, ttl |-> -1]
<1>1. s \in Subjects /\ MaxTtl \in Nat
  BY AccessAssumption
<1>2. row \in GrantRow /\ row.perms # {}
  BY <1>1, AccessAssumption DEF GrantRow
<1>3. ~ opened /\ opened' /\ Write(c, s, row, "granted", FALSE)
  BY Zenon DEF open_case
<1> HIDE DEF row, s
<1> QED
  BY <1>1, <1>2, <1>3, UnopenedIsUnlocked, WriteKeeps, Zenon

\* A grant is written at the next revision.
LEMMA PutGrantKeeps ==
  ASSUME AccessInv, NEW c \in Callers, NEW s \in Subjects, NEW perms \in SUBSET Grantable,
         NEW ttl \in -1..MaxTtl, NEW answered \in BOOLEAN,
         put_case_grant(c, s, perms, ttl, answered)
  PROVE  AccessInv'
<1> DEFINE row == [revision |-> grants[s].revision + 1, perms |-> perms,
                   by |-> SubjectOf[c], revoked |-> FALSE, ttl |-> ttl]
<1>1. SubjectOf[c] \in Subjects /\ grants[s].revision \in Nat
  BY AccessAssumption DEF AccessInv, AccessTypeOK, GrantRow
<1>2. row \in GrantRow
  BY <1>1 DEF GrantRow
<1>3. row.perms # {}
  BY DEF put_case_grant, Delegable
<1>4. opened' /\ Write(c, s, row, "granted", answered) /\ ~ Locked(s)
  BY DEF put_case_grant, Administers
<1> HIDE DEF row
<1> QED
  BY <1>2, <1>3, <1>4, WriteKeeps

\* A grant is revoked at the next revision.
LEMMA RevokeGrantKeeps ==
  ASSUME AccessInv, NEW c \in Callers, NEW s \in Subjects, NEW answered \in BOOLEAN,
         revoke_case_grant(c, s, answered)
  PROVE  AccessInv'
<1> DEFINE row == [revision |-> grants[s].revision + 1, perms |-> grants[s].perms,
                   by |-> grants[s].by, revoked |-> TRUE, ttl |-> grants[s].ttl]
<1>1. grants[s] \in GrantRow
  BY DEF AccessInv, AccessTypeOK
<1>2. row \in GrantRow
  BY <1>1 DEF GrantRow
<1>3. row.perms # {}
  BY DEF revoke_case_grant, AccessInv, AccessTypeOK
<1>4. opened' /\ Write(c, s, row, "revoked", answered) /\ ~ Locked(s)
  BY ZenonT(40) DEF revoke_case_grant, Administers
<1> HIDE DEF row
<1> QED
  BY <1>2, <1>3, <1>4, WriteKeeps

\* The grants are listed.
LEMMA ListGrantsKeeps ==
  ASSUME AccessInv, NEW c \in Callers, list_case_grants(c)
  PROVE  AccessInv'
<1>1. opened /\ UNCHANGED <<grants, opened, requests, streams, grantEvents>>
      /\ seen' = [seen EXCEPT ![c] = [s \in Subjects |-> grants[s].revision]]
  BY DEF list_case_grants
<1>2. [s \in Subjects |-> grants[s].revision] \in [Subjects -> Nat]
  BY DEF AccessInv, AccessTypeOK, GrantRow
<1>3. AccessTypeOK'
  BY <1>1, <1>2 DEF AccessInv, AccessTypeOK
<1> QED
  BY <1>1, <1>3, Zenon
     DEF AccessInv, ActsUnderGrant, RequestsNamed, StreamsChecked, UnopenedIsEmpty

\* Time passes: a row keeps everything but the time it has left.
LEMMA AccessTickKeeps ==
  ASSUME AccessInv, AccessTick
  PROVE  AccessInv'
<1>1. UNCHANGED <<opened, requests, streams, seen, grantEvents>>
  BY DEF AccessTick
<1>2. ASSUME NEW s \in Subjects
      PROVE  /\ grants'[s] \in GrantRow /\ grants'[s].revision = grants[s].revision
             /\ grants'[s].perms = grants[s].perms /\ grants'[s].revoked = grants[s].revoked
  <2>1. grants[s] \in GrantRow
    BY DEF AccessInv, AccessTypeOK
  <2>2. grants'[s] = [grants[s] EXCEPT
                        !.ttl = IF grants[s].ttl > 0 THEN grants[s].ttl - 1 ELSE grants[s].ttl]
    BY DEF AccessTick
  <2> QED
    BY <2>1, <2>2, AccessAssumption DEF GrantRow
<1>3. grants' \in [Subjects -> GrantRow]
  <2>1. grants' = [s \in Subjects |-> grants'[s]]
    BY DEF AccessTick
  <2> QED
    BY <1>2, <2>1
<1>4. AccessTypeOK'
  BY <1>1, <1>2, <1>3 DEF AccessInv, AccessTypeOK
<1>5. ActsUnderGrant'
  BY <1>1, <1>2, AccessAssumption DEF AccessInv, ActsUnderGrant
<1> QED
  BY <1>1, <1>2, <1>4, <1>5
     DEF AccessInv, RequestsNamed, StreamsChecked, UnopenedIsEmpty

\* Every step.
LEMMA AccessStep ==
  ASSUME AccessInv, [AccessNext]_accessVars
  PROVE  AccessInv'
<1>1. CASE UNCHANGED accessVars
  BY <1>1 DEF accessVars, AccessInv, AccessTypeOK, ActsUnderGrant, RequestsNamed,
              StreamsChecked, UnopenedIsEmpty
<1>2. CASE AccessNext
  BY <1>2, AuthorizeKeeps, EndRequestKeeps, StreamKeeps, OpenCaseKeeps, PutGrantKeeps,
     RevokeGrantKeeps, ListGrantsKeeps, AccessTickKeeps DEF AccessNext
<1> QED
  BY <1>1, <1>2

\* Whatever is committed under a grant is committed under the grant as it
\* stands, and a stream outlives its grant by one event at most.
THEOREM GrantsBindRequests == AccessSpec => []ActsUnderGrant
<1>1. AccessInit => AccessInv
  BY AccessInitially
<1>2. AccessInv /\ [AccessNext]_accessVars => AccessInv'
  BY AccessStep
<1>3. AccessInv => ActsUnderGrant
  BY DEF AccessInv
<1> QED
  BY <1>1, <1>2, <1>3, PTL DEF AccessSpec

\* The work queue shows a Case exactly to the callers who may open it, with the
\* permissions a request of theirs is bound to.
THEOREM ListingIsAccess == AccessSpec => []ListingMatchesAccess
<1>1. ASSUME NEW c \in Callers, NEW perm
      PROVE  /\ Listed(c) = Allowed(c, "case:read")
             /\ Listed(c) => ((perm \in EffectivePermissions(c)) = Allowed(c, perm))
  <2>1. /\ Listed(c) \in BOOLEAN /\ Allowed(c, "case:read") \in BOOLEAN
        /\ Allowed(c, perm) \in BOOLEAN /\ (perm \in EffectivePermissions(c)) \in BOOLEAN
    BY SMT DEF Listed, Allowed, Active
  <2>2. Listed(c) <=> Allowed(c, "case:read")
    BY Zenon DEF Listed, Allowed, Bound
  <2>3. Listed(c) => (perm \in EffectivePermissions(c) <=> Allowed(c, perm))
    BY Zenon DEF Listed, Allowed, Bound, EffectivePermissions
  <2> QED
    BY <2>1, <2>2, <2>3, Zenon
<1>2. ListingMatchesAccess
  BY <1>1, Zenon DEF ListingMatchesAccess
<1> QED
  BY <1>2, PTL

\* Only an administrator who saw the row, or the opener of the Case, changes the
\* revision of a row.
LEMMA RowChanges ==
  ASSUME AccessInv, AccessNext, NEW s \in Subjects,
         grants'[s].revision # grants[s].revision
  PROVE  \E c \in Callers :
           \/ open_case(c) /\ SubjectOf[c] = s
           \/ \E answered \in BOOLEAN :
                \/ revoke_case_grant(c, s, answered)
                \/ \E perms \in SUBSET Grantable, ttl \in -1..MaxTtl :
                     put_case_grant(c, s, perms, ttl, answered)
<1>1. ~ AccessTick
  <2>1. grants[s] \in GrantRow
    BY DEF AccessInv, AccessTypeOK
  <2> QED
    BY <2>1 DEF AccessTick, GrantRow
<1>2. ASSUME NEW c \in Callers, NEW t, NEW row, NEW kind, NEW answered,
             Write(c, t, row, kind, answered)
      PROVE  t = s
  BY <1>2 DEF Write, AccessInv, AccessTypeOK
<1>3. PICK c \in Callers :
        \/ open_case(c)
        \/ \E t \in Subjects, answered \in BOOLEAN :
             \/ revoke_case_grant(c, t, answered)
             \/ \E perms \in SUBSET Grantable, ttl \in -1..MaxTtl :
                  put_case_grant(c, t, perms, ttl, answered)
  <2>1. grants' # grants
    OBVIOUS
  <2> QED
    BY <1>1, <2>1, Zenon DEF AccessNext, list_case_grants, EndRequest, OpenStream, CheckEvent,
                      YieldEvent, Disconnect, Authorize
<1>4. CASE open_case(c)
  BY <1>2, <1>4, Zenon DEF open_case
<1>5. ASSUME NEW t \in Subjects, NEW answered \in BOOLEAN, revoke_case_grant(c, t, answered)
      PROVE  t = s
  BY <1>2, <1>5 DEF revoke_case_grant
<1>6. ASSUME NEW t \in Subjects, NEW answered \in BOOLEAN, NEW perms \in SUBSET Grantable,
             NEW ttl \in -1..MaxTtl, put_case_grant(c, t, perms, ttl, answered)
      PROVE  t = s
  BY <1>2, <1>6 DEF put_case_grant
<1> QED
  BY <1>3, <1>4, <1>5, <1>6

\* No caller adds authority to a grant or overwrites what it has not read.
THEOREM GrantsNeverEscalate == AccessSpec => NoEscalation
<1> DEFINE By(s, c) == /\ seen[c][s] = grants[s].revision
                       /\ \/ /\ "grant:admin" \in Scopes[c]
                             /\ IF grants'[s].revoked
                                THEN grants'[s].perms = grants[s].perms
                                ELSE /\ grants'[s].by = SubjectOf[c]
                                     /\ grants'[s].perms \subseteq Scopes[c]
                          \/ /\ "case:create" \in Scopes[c]
                             /\ grants'[s].by = SubjectOf[c]
                             /\ grants'[s].perms = {"case:read"}
           A == \A s \in Subjects : grants'[s].revision # grants[s].revision =>
                  /\ grants'[s].revision = grants[s].revision + 1
                  /\ \E c \in Callers : By(s, c)
<1>1. ASSUME AccessInv, AccessNext, NEW s \in Subjects,
             grants'[s].revision # grants[s].revision
      PROVE  grants'[s].revision = grants[s].revision + 1 /\ \E c \in Callers : By(s, c)
  <2>0. grants \in [Subjects -> GrantRow]
    BY <1>1 DEF AccessInv, AccessTypeOK
  <2>1. PICK c \in Callers :
          \/ open_case(c) /\ SubjectOf[c] = s
          \/ \E answered \in BOOLEAN :
               \/ revoke_case_grant(c, s, answered)
               \/ \E perms \in SUBSET Grantable, ttl \in -1..MaxTtl :
                    put_case_grant(c, s, perms, ttl, answered)
    BY <1>1, RowChanges
  <2>2. CASE open_case(c) /\ SubjectOf[c] = s
    <3>1. grants'[s] = [revision |-> 1, perms |-> {"case:read"}, by |-> s,
                        revoked |-> FALSE, ttl |-> -1]
      BY <2>0, <2>2 DEF open_case, Write
    <3>2. grants[s].revision = 0 /\ seen[c][s] = 0 /\ "case:create" \in Scopes[c]
      BY <1>1, <2>2 DEF open_case, AccessInv, UnopenedIsEmpty
    <3> QED
      BY <2>2, <3>1, <3>2
  <2>3. ASSUME NEW answered \in BOOLEAN, revoke_case_grant(c, s, answered)
        PROVE  grants'[s].revision = grants[s].revision + 1 /\ By(s, c)
    <3>1. grants'[s] = [revision |-> grants[s].revision + 1, perms |-> grants[s].perms,
                        by |-> grants[s].by, revoked |-> TRUE, ttl |-> grants[s].ttl]
      BY <2>0, <2>3 DEF revoke_case_grant, Write
    <3>2. seen[c][s] = grants[s].revision /\ "grant:admin" \in Scopes[c]
      BY <2>3, ZenonT(40) DEF revoke_case_grant, Expected, Administers
    <3>3. /\ grants'[s].revision = grants[s].revision + 1 /\ grants'[s].revoked
          /\ grants'[s].perms = grants[s].perms
      BY ONLY <3>1
    <3> QED
      BY <3>2, <3>3, Zenon
  <2>4. ASSUME NEW answered \in BOOLEAN, NEW perms \in SUBSET Grantable,
               NEW ttl \in -1..MaxTtl, put_case_grant(c, s, perms, ttl, answered)
        PROVE  grants'[s].revision = grants[s].revision + 1 /\ By(s, c)
    <3>1. grants'[s] = [revision |-> grants[s].revision + 1, perms |-> perms,
                        by |-> SubjectOf[c], revoked |-> FALSE, ttl |-> ttl]
      BY <2>0, <2>4 DEF put_case_grant, Write
    <3>2. /\ seen[c][s] = grants[s].revision /\ "grant:admin" \in Scopes[c]
          /\ perms \subseteq Scopes[c]
      BY <2>4, ZenonT(40) DEF put_case_grant, Expected, Administers, Delegable
    <3>3. /\ grants'[s].revision = grants[s].revision + 1 /\ ~ grants'[s].revoked
          /\ grants'[s].by = SubjectOf[c] /\ grants'[s].perms = perms
      BY ONLY <3>1
    <3> QED
      BY <3>2, <3>3, Zenon
  <2> HIDE DEF By
  <2> QED
    BY <2>1, <2>2, <2>3, <2>4
<1>2. AccessInv /\ [AccessNext]_accessVars => [A]_accessVars
  <2> HIDE DEF By
  <2> QED
    BY <1>1, Zenon DEF accessVars
<1>3. AccessSpec => []AccessInv
  <2>1. AccessInit => AccessInv
    BY AccessInitially
  <2>2. AccessInv /\ [AccessNext]_accessVars => AccessInv'
    BY AccessStep
  <2> QED
    BY <2>1, <2>2, PTL DEF AccessSpec
<1> QED
  BY <1>2, <1>3, PTL DEF AccessSpec, NoEscalation

-----------------------------------------------------------------------------
(* What RunRepository and WaitRepository leave in the rows they write.      *)

\* A nonempty set of naturals has a least element.
LEMMA LeastNatural ==
  ASSUME NEW S, S \subseteq Nat, S # {}
  PROVE  \E n \in S : \A m \in S : n <= m
<1>1. IsWellFoundedOn(OpToRel(<, Nat), Nat)
  BY NatLessThanWellFounded, Zenon
<1>2. PICK n \in S : \A m \in S : ~ (<<m, n>> \in OpToRel(<, Nat))
  BY <1>1, WFMin, Zenon
<1>3. \A m \in S : <<m, n>> \in OpToRel(<, Nat) <=> m < n
  BY DEF OpToRel
<1>4. \A m \in S : ~ (m < n)
  BY <1>2, <1>3, Zenon
<1>5. n \in Nat /\ \A m \in S : m \in Nat
  OBVIOUS
<1>6. \A m \in S : n <= m
  BY <1>4, <1>5
<1> QED
  BY <1>6

\* First() picks one of the replies it is given: some reply is earliest, and
\* among the earliest some has the least event id.
LEMMA FirstIsReply ==
  ASSUME NEW R, R \subseteq Signal, R # {}
  PROVE  First(R) \in R
<1> DEFINE Times == {s.received : s \in R}
<1>1. Times \subseteq Nat /\ Times # {}
  BY DEF Signal
<1>2. PICK t \in Times : \A u \in Times : t <= u
  <2> HIDE DEF Times
  <2> QED BY <1>1, LeastNatural, Zenon
<1> DEFINE Ids == {s.id : s \in {s \in R : s.received = t}}
<1>3. Ids \subseteq Nat /\ Ids # {}
  BY <1>2, SignalAssumption DEF Signal
<1>4. PICK i \in Ids : \A j \in Ids : i <= j
  <2> HIDE DEF Ids
  <2> QED BY <1>3, LeastNatural, Zenon
<1>5. PICK s \in R : s.received = t /\ s.id = i
  BY <1>4
<1>6. \A u \in R : s.received < u.received \/ (s.received = u.received /\ s.id <= u.id)
  <2> TAKE u \in R
  <2>1. t <= u.received /\ t \in Nat /\ u.received \in Nat
    BY <1>2 DEF Signal
  <2>2. u.received = t => i <= u.id
    BY <1>4
  <2> QED BY <2>1, <2>2, <1>5
<1> QED
  BY <1>5, <1>6 DEF First

\* What _settle_if_ready() leaves in the wait row.
LEMMA SettledRow ==
  ASSUME NEW wait \in WaitRow, NEW g, NEW signals, signals \subseteq Signal,
         NEW t \in Nat
  PROVE  LET replies == Replies(wait, g, signals, t)
             after == Settled(wait, g, signals, t)
         IN  /\ after \in WaitRow
             /\ replies = {} => /\ after.state = "TIMED_OUT"
                               /\ after.winner = wait.winner
             /\ replies # {} => /\ after.state = "SATISFIED"
                               /\ \E s \in signals :
                                    /\ s.id = after.winner
                                    /\ matches_wait(g, s)
                                    /\ after.created <= s.received
<1> DEFINE replies == Replies(wait, g, signals, t)
           after == Settled(wait, g, signals, t)
<1>1. CASE replies = {}
  <2>1. after = [wait EXCEPT !.state = "TIMED_OUT"]
    BY <1>1 DEF Settled
  <2> QED BY <2>1, <1>1 DEF WaitRow, WaitState
<1>2. CASE replies # {}
  <2>1. replies \subseteq signals
    BY DEF Replies
  <2>2. First(replies) \in replies
    <3> HIDE DEF replies
    <3> QED BY <1>2, <2>1, FirstIsReply
  <2>3. PICK s \in replies : s = First(replies)
    BY <2>2
  <2>4. after = [wait EXCEPT !.state = "SATISFIED", !.winner = s.id]
    BY <1>2, <2>3 DEF Settled
  <2>5. s \in Signal /\ s.id \in 0..MaxSignal
    BY <2>1, SignalAssumption DEF Signal
  <2>6. matches_wait(g, s) /\ wait.created <= s.received
    BY DEF Replies
  <2>7. /\ after \in WaitRow
        /\ after.state = "SATISFIED"
        /\ after.winner = s.id
        /\ after.created = wait.created
    BY <2>4, <2>5, Zenon DEF WaitRow, WaitState
  <2> QED BY <2>7, <2>6, <2>1, <1>2
<1> QED BY <1>1, <1>2

\* A wait as it is registered, activated or not.
LEMMA NewWaitRow ==
  ASSUME NEW t \in Nat
  PROVE  /\ NewWait(t) \in WaitRow
         /\ NewWait(t).state = "PENDING"
         /\ NewWait(t).winner = 0
BY WaitLengthAssumption, SignalAssumption DEF NewWait, WaitRow, WaitState

\* Activating a wait changes its state only.
LEMMA ActivatedRow ==
  ASSUME NEW w \in WaitRow
  PROVE  /\ Activated(w) \in WaitRow
         /\ Activated(w).state = "ACTIVE"
         /\ Activated(w).winner = w.winner
         /\ Activated(w).created = w.created
BY DEF Activated, WaitRow, WaitState

\* A Run row that left RUNNING, or was just claimed, is a Run row.
LEMMA RunRows ==
  ASSUME NEW r \in RunRow
  PROVE  /\ \A s \in RunState : /\ Moved(r, s, 0) \in RunRow
                                /\ Moved(r, s, 0).state = s
         /\ \A h \in Owners : /\ Claimed(r, h) \in RunRow
                              /\ Claimed(r, h).state = "RUNNING"
         /\ RunAfter(r, 1) \in RunRow
         /\ RunAfter(r, 1).state = r.state
<1>1. \A s \in RunState : Moved(r, s, 0) \in RunRow /\ Moved(r, s, 0).state = s
  BY LeaseAssumption, DelayAssumption DEF Moved, RunRow, RunState
<1>2. \A h \in Owners : Claimed(r, h) \in RunRow /\ Claimed(r, h).state = "RUNNING"
  BY LeaseAssumption, DelayAssumption DEF Claimed, RunRow, RunState
<1>3. Left(r.lease, 1) \in 0..Lease /\ Left(r.avail, 1) \in 0..MaxDelay
  BY LeaseAssumption, DelayAssumption DEF Left, RunRow
<1>4. RunAfter(r, 1) \in RunRow /\ RunAfter(r, 1).state = r.state
  BY <1>3, Zenon DEF RunAfter, RunRow
<1> QED BY <1>1, <1>2, <1>4

-----------------------------------------------------------------------------
(* The waits.                                                               *)

\* Only a signal stored ahead of the database clock is still in the future.
FutureIsAhead == \A s \in inbox : s.received > now => s.ahead

\* The inductive invariant: the four properties, and FutureIsAhead, which
\* NoLostReply needs when the clock moves.
WaitsInv == /\ WaitsTypeOK
            /\ ParkedIsOpen
            /\ WakeupMatchesWait
            /\ NoLostReply
            /\ FutureIsAhead

-----------------------------------------------------------------------------
\* What a settling transaction preserves, when signals is the inbox it commits.
SettleFrame(g, wait, signals) ==
  /\ g \in Generations
  /\ wait \in WaitRow
  /\ wait.winner = 0
  /\ wakeups[g] = "none"
  /\ inbox' = signals
  /\ inbox \subseteq inbox'
  /\ inbox' \subseteq Signal
  /\ \A s \in inbox' : s.received > now => s.ahead
  /\ host' \in [Owners -> Nat]
  /\ now' = now

\* Waking the Run keeps the invariant, from a Run bound to this wait or to none.
LEMMA WakeKeeps ==
  ASSUME WaitsInv, NEW g, NEW wait, NEW signals,
         SettleFrame(g, wait, signals), bound \in {0, g},
         Wake(g, wait, signals)
  PROVE  WaitsInv'
<1> DEFINE after == Settled(wait, g, signals, now)
           replies == Replies(wait, g, signals, now)
<1>0. now \in Nat /\ g \in 1..MaxGeneration /\ MaxGeneration \in Nat /\ g # 0
  BY InstantAssumption, WaitBoundAssumption
     DEF WaitsInv, WaitsTypeOK, Instant, SettleFrame, Generations
<1>1. /\ waits' = [waits EXCEPT ![g] = after]
      /\ wakeups' = [wakeups EXCEPT ![g] = IF replies # {} THEN "reply" ELSE "timeout"]
      /\ run' = Moved(run, "READY", 0)
      /\ bound' = 0
  BY DEF Wake
<1>2. /\ after \in WaitRow
      /\ replies = {} => after.state = "TIMED_OUT" /\ after.winner = 0
      /\ replies # {} => /\ after.state = "SATISFIED"
                        /\ \E s \in inbox' : /\ s.id = after.winner
                                              /\ matches_wait(g, s)
                                              /\ after.created <= s.received
  BY <1>0, SettledRow, Zenon DEF SettleFrame
<1> HIDE DEF after, replies
<1>3. run' \in RunRow /\ run'.state = "READY"
  BY <1>1, RunRows DEF WaitsInv, WaitsTypeOK, RunState
<1>4. WaitsTypeOK'
  <2>1. bound' \in 0..MaxGeneration
    BY <1>1, <1>0
  <2>2. waits' \in [Generations -> WaitRow]
    BY <1>1, <1>2, Zenon DEF WaitsInv, WaitsTypeOK
  <2>3. wakeups' \in [Generations -> {"none", "reply", "timeout"}]
    BY <1>1, Zenon DEF WaitsInv, WaitsTypeOK
  <2> QED BY <2>1, <2>2, <2>3, <1>3 DEF WaitsInv, WaitsTypeOK, SettleFrame
<1>5. \A k \in Generations : k # g =>
        waits'[k] = waits[k] /\ wakeups'[k] = wakeups[k] /\ bound # k
  BY <1>1, <1>0 DEF WaitsInv, WaitsTypeOK, Generations
<1>6. waits'[g] = after /\ wakeups'[g] = IF replies # {} THEN "reply" ELSE "timeout"
  BY <1>1 DEF WaitsInv, WaitsTypeOK, SettleFrame
<1>7. after.state \in {"SATISFIED", "TIMED_OUT"}
  BY <1>2
<1>8. ParkedIsOpen'
  <2> SUFFICES ASSUME NEW k \in Generations
               PROVE  waits'[k].state \notin Open /\ bound' # k
    BY <1>1, <1>3 DEF ParkedIsOpen
  <2>1. k # 0
    BY WaitBoundAssumption DEF Generations
  <2>2. CASE k = g
    BY <2>2, <2>1, <1>6, <1>7, <1>1 DEF Open
  <2>3. CASE k # g
    BY <2>3, <2>1, <1>5, <1>1 DEF WaitsInv, ParkedIsOpen
  <2> QED BY <2>2, <2>3
<1>9. WakeupMatchesWait'
  <2> SUFFICES ASSUME NEW k \in Generations
               PROVE  /\ wakeups'[k] = "reply" <=> waits'[k].state = "SATISFIED"
                      /\ wakeups'[k] = "timeout" <=> waits'[k].state = "TIMED_OUT"
                      /\ IF waits'[k].state = "SATISFIED"
                           THEN \E s \in inbox' : /\ s.id = waits'[k].winner
                                                  /\ matches_wait(k, s)
                                                  /\ waits'[k].created <= s.received
                           ELSE waits'[k].winner = 0
    BY DEF WakeupMatchesWait, matches_wait
  <2>1. CASE k = g
    BY <2>1, <1>6, <1>2
  <2>2. CASE k # g
    <3>1. inbox \subseteq inbox'
      BY DEF SettleFrame
    <3> QED BY <2>2, <1>5, <3>1 DEF WaitsInv, WakeupMatchesWait
  <2> QED BY <2>1, <2>2
<1>10. NoLostReply'
  <2> SUFFICES ASSUME NEW k \in Generations
               PROVE  waits'[k].state # "ACTIVE"
    BY DEF NoLostReply
  <2> QED BY <1>8, <1>0, <1>1 DEF ParkedIsOpen, Open, Generations
<1>11. FutureIsAhead'
  BY DEF FutureIsAhead, SettleFrame
<1> QED BY <1>4, <1>8, <1>9, <1>10, <1>11 DEF WaitsInv

\* Staying parked on a wait without an eligible reply keeps the invariant.
LEMMA StayKeeps ==
  ASSUME WaitsInv, NEW g, NEW wait, NEW signals,
         SettleFrame(g, wait, signals),
         wait.state \in Open,
         wait.state = "ACTIVE" => Replies(wait, g, signals, now) = {},
         waits' = [waits EXCEPT ![g] = wait], wakeups' = wakeups,
         run' \in RunRow, run'.state = "WAITING_INPUT",
         bound \in {0, g}, bound' = g
  PROVE  WaitsInv'
<1>0. g \in 1..MaxGeneration /\ MaxGeneration \in Nat /\ g # 0
  BY WaitBoundAssumption DEF SettleFrame, Generations
<1>1. WaitsTypeOK'
  BY <1>0 DEF WaitsInv, WaitsTypeOK, SettleFrame
<1>2. \A k \in Generations : k # g =>
        waits'[k] = waits[k] /\ wakeups'[k] = wakeups[k] /\ bound # k
  BY <1>0 DEF WaitsInv, WaitsTypeOK, Generations
<1>3. waits'[g] = wait
  BY DEF WaitsInv, WaitsTypeOK, SettleFrame
<1>4. ParkedIsOpen'
  <2> SUFFICES ASSUME NEW k \in Generations
               PROVE  waits'[k].state \in Open <=> bound' = k
    BY <1>0 DEF ParkedIsOpen
  <2> QED BY <1>2, <1>3 DEF WaitsInv, ParkedIsOpen
<1>5. WakeupMatchesWait'
  <2> SUFFICES ASSUME NEW k \in Generations
               PROVE  /\ wakeups'[k] = "reply" <=> waits'[k].state = "SATISFIED"
                      /\ wakeups'[k] = "timeout" <=> waits'[k].state = "TIMED_OUT"
                      /\ IF waits'[k].state = "SATISFIED"
                           THEN \E s \in inbox' : /\ s.id = waits'[k].winner
                                                  /\ matches_wait(k, s)
                                                  /\ waits'[k].created <= s.received
                           ELSE waits'[k].winner = 0
    BY DEF WakeupMatchesWait, matches_wait
  <2>1. CASE k = g
    BY <2>1, <1>3 DEF SettleFrame, Open
  <2>2. CASE k # g
    <3>1. inbox \subseteq inbox'
      BY DEF SettleFrame
    <3> QED BY <2>2, <1>2, <3>1 DEF WaitsInv, WakeupMatchesWait
  <2> QED BY <2>1, <2>2
<1>6. NoLostReply'
  <2> SUFFICES ASSUME NEW k \in Generations, waits'[k].state = "ACTIVE"
               PROVE  \A s \in Replies(waits'[k], k, inbox', now') : s.ahead
    BY DEF NoLostReply, Replies, matches_wait
  <2>1. k = g
    BY <1>4 DEF ParkedIsOpen, Open
  <2> QED BY <2>1, <1>3 DEF SettleFrame
<1>7. FutureIsAhead'
  BY DEF FutureIsAhead, SettleFrame
<1> QED BY <1>1, <1>4, <1>5, <1>6, <1>7 DEF WaitsInv

\* Settling the wait a Run is parked on keeps the invariant.
LEMMA SettleKeeps ==
  ASSUME WaitsInv, NEW g, NEW wait, NEW signals,
         SettleFrame(g, wait, signals), Parked(g), wait.state \in Open,
         Settle(g, wait, signals)
  PROVE  WaitsInv'
<1>1. CASE Over(wait, g, signals, now)
  BY <1>1, WakeKeeps DEF Settle, Parked
<1>2. CASE ~ Over(wait, g, signals, now)
  <2>1. Stay(g, wait)
    BY <1>2 DEF Settle
  <2>2. wait.state = "ACTIVE" => Replies(wait, g, signals, now) = {}
    BY <1>2 DEF Over
  <2> QED BY <2>1, <2>2, StayKeeps, Zenon DEF Stay, Parked, WaitsInv, WaitsTypeOK
<1> QED BY <1>1, <1>2

\* A Run parked on a wait finds it open, without a wakeup or a winner.
LEMMA ParkedWait ==
  ASSUME WaitsInv, NEW g \in Generations, Parked(g)
  PROVE  /\ waits[g] \in WaitRow
         /\ waits[g].state \in Open
         /\ waits[g].winner = 0
         /\ wakeups[g] = "none"
<1>1. waits[g].state \in Open
  BY DEF WaitsInv, ParkedIsOpen, Parked
<1>2. wakeups[g] \in {"none", "reply", "timeout"} /\ waits[g] \in WaitRow
  BY DEF WaitsInv, WaitsTypeOK
<1> QED BY <1>1, <1>2 DEF WaitsInv, WakeupMatchesWait, Open

\* A generation never registered has no wakeup; its Run row is not parked
\* while a host holds the lease.
LEMMA UnregisteredWait ==
  ASSUME WaitsInv, NEW g \in Generations, waits[g].state = "absent",
         run.state = "RUNNING"
  PROVE  wakeups[g] = "none" /\ bound = 0
<1>1. wakeups[g] \in {"none", "reply", "timeout"}
  BY DEF WaitsInv, WaitsTypeOK
<1> QED BY <1>1 DEF WaitsInv, WakeupMatchesWait, ParkedIsOpen

\* A step that only touches an unparked Run row and the hosts' memory.
LEMMA UnparkedKeeps ==
  ASSUME WaitsInv, run' \in RunRow, host' \in [Owners -> Nat],
         run.state = "WAITING_INPUT" <=> run'.state = "WAITING_INPUT",
         UNCHANGED <<bound, waits, inbox, wakeups, now>>
  PROVE  WaitsInv'
<1>1. WaitsTypeOK'
  BY DEF WaitsInv, WaitsTypeOK
<1>2. ParkedIsOpen'
  BY DEF WaitsInv, ParkedIsOpen
<1>3. WakeupMatchesWait'
  BY Zenon DEF WaitsInv, WakeupMatchesWait, matches_wait
<1>4. NoLostReply'
  BY DEF WaitsInv, NoLostReply, Replies, matches_wait
<1>5. FutureIsAhead'
  BY DEF WaitsInv, FutureIsAhead
<1> QED BY <1>1, <1>2, <1>3, <1>4, <1>5 DEF WaitsInv

\* The hosts' steps keep the invariant.
LEMMA HostKeeps ==
  ASSUME WaitsInv, NEW h \in Owners, HostStep(h)
  PROVE  WaitsInv'
<1> USE DEF HoldsLease
<1>0. run \in RunRow /\ host \in [Owners -> Nat] /\ now \in Nat
  BY InstantAssumption DEF WaitsInv, WaitsTypeOK, Instant
<1>1. CASE Claim(h)
  <2>1. run'.state = "RUNNING" /\ run' \in RunRow
    BY <1>1, <1>0, RunRows DEF Claim
  <2>2. run.state # "WAITING_INPUT"
    BY <1>1 DEF Claim, Claimable, ExpiredLease
  <2>3. run.token + 1 \in Nat
    BY <1>0 DEF RunRow
  <2> QED BY <1>1, <1>0, <2>1, <2>2, <2>3, UnparkedKeeps DEF Claim
<1>2. ASSUME NEW g \in Generations, NEW t \in Registrable, Park(h, g, t)
      PROVE  WaitsInv'
  <2>1. t \in Nat
    BY InstantAssumption DEF Registrable, Clock, Instant
  <2>2. wakeups[g] = "none" /\ bound = 0
    BY <1>2, UnregisteredWait DEF Park
  <2>3. SettleFrame(g, NewWait(t), inbox)
    BY <1>2, <1>0, <2>1, <2>2, NewWaitRow
       DEF Park, SettleFrame, WaitsInv, WaitsTypeOK, FutureIsAhead
  <2>4. run' \in RunRow /\ run'.state = "WAITING_INPUT"
    BY <1>2, <1>0, RunRows DEF Park, RunState
  <2> QED BY <1>2, <2>1, <2>2, <2>3, <2>4, NewWaitRow, StayKeeps, Zenon DEF Park, Open
<1>3. ASSUME NEW g \in Generations, NEW t \in Registrable, ParkActive(h, g, t)
      PROVE  WaitsInv'
  <2> DEFINE wait == Activated(NewWait(t))
  <2>1. t \in Nat
    BY InstantAssumption DEF Registrable, Clock, Instant
  <2>2. wakeups[g] = "none" /\ bound = 0
    BY <1>3, UnregisteredWait DEF ParkActive
  <2>3. wait \in WaitRow /\ wait.state = "ACTIVE" /\ wait.winner = 0
    BY <2>1, NewWaitRow, ActivatedRow
  <2>4. SettleFrame(g, wait, inbox)
    BY <1>3, <1>0, <2>2, <2>3
       DEF ParkActive, SettleFrame, WaitsInv, WaitsTypeOK, FutureIsAhead
  <2>5. CASE Over(wait, g, inbox, now)
    BY <2>5, <1>3, <2>2, <2>4, WakeKeeps DEF ParkActive
  <2>6. CASE ~ Over(wait, g, inbox, now)
    <3>1. /\ waits' = [waits EXCEPT ![g] = wait]
          /\ run' = Moved(run, "WAITING_INPUT", 0)
          /\ bound' = g
          /\ wakeups' = wakeups
      BY <2>6, <1>3 DEF ParkActive
    <3>2. Replies(wait, g, inbox, now) = {}
      BY <2>6, <2>3 DEF Over
    <3>3. run' \in RunRow /\ run'.state = "WAITING_INPUT"
      BY <3>1, <1>0, RunRows DEF RunState
    <3> HIDE DEF wait
    <3> QED BY <3>1, <3>2, <3>3, <2>2, <2>3, <2>4, StayKeeps, Zenon DEF Open
  <2> QED BY <2>5, <2>6
<1>4. CASE Finish(h)
  <2>1. run' \in RunRow /\ run'.state = "COMPLETED"
    BY <1>4, <1>0, RunRows DEF Finish, RunState
  <2> QED BY <1>4, <1>0, <2>1, UnparkedKeeps DEF Finish
<1>5. CASE Abandon(h)
  BY <1>5, <1>0, UnparkedKeeps DEF Abandon
<1> QED BY <1>1, <1>2, <1>3, <1>4, <1>5 DEF HostStep

\* Receiving a signal, new or replayed, keeps the invariant.
LEMMA ReceiveKeeps ==
  ASSUME WaitsInv, NEW s \in Signal, s.generation \in Generations,
         s.received > now => s.ahead, Receive(s)
  PROVE  WaitsInv'
<1> DEFINE g == s.generation
<1>1. /\ inbox' = inbox \cup {s}
      /\ host' = host /\ now' = now
      /\ inbox' \subseteq Signal
      /\ \A u \in inbox' : u.received > now => u.ahead
  BY DEF Receive, receive_inbox, WaitsInv, WaitsTypeOK, FutureIsAhead
<1>2. CASE Parked(g)
  <2>1. SettleFrame(g, waits[g], inbox')
    BY <1>1, <1>2, ParkedWait DEF SettleFrame, WaitsInv, WaitsTypeOK
  <2>2. Settle(g, waits[g], inbox')
    BY <1>2, Zenon DEF Receive, receive_inbox
  <2> QED BY <1>2, <2>1, <2>2, ParkedWait, SettleKeeps, Zenon
<1>3. CASE ~ Parked(g)
  <2>0. UNCHANGED <<run, bound, waits, wakeups>>
    BY <1>3 DEF Receive, receive_inbox
  <2>1. WaitsTypeOK'
    BY <1>1, <2>0 DEF WaitsInv, WaitsTypeOK
  <2>2. ParkedIsOpen'
    BY <2>0 DEF WaitsInv, ParkedIsOpen
  <2>3. WakeupMatchesWait'
    BY <1>1, <2>0 DEF WaitsInv, WakeupMatchesWait, matches_wait
  <2>4. NoLostReply'
    <3> SUFFICES ASSUME NEW k \in Generations, waits[k].state = "ACTIVE",
                        NEW u \in Replies(waits[k], k, inbox', now)
                 PROVE  u.ahead
      BY <1>1, <2>0 DEF NoLostReply, Replies, matches_wait
    <3>1. bound = k /\ k # 0
      BY WaitBoundAssumption DEF WaitsInv, ParkedIsOpen, Open, Generations
    <3>2. k # g
      BY <3>1, <1>3 DEF WaitsInv, ParkedIsOpen, Parked
    <3>3. u \in Replies(waits[k], k, inbox, now)
      BY <3>2, <1>1 DEF Replies, matches_wait
    <3> QED BY <3>3 DEF WaitsInv, NoLostReply
  <2>5. FutureIsAhead'
    BY <1>1 DEF FutureIsAhead
  <2> QED BY <2>1, <2>2, <2>3, <2>4, <2>5 DEF WaitsInv
<1> QED BY <1>2, <1>3

\* The clock keeps the invariant: a reply it makes eligible was ahead.
LEMMA TickKeeps ==
  ASSUME WaitsInv, Tick
  PROVE  WaitsInv'
<1>1. run' \in RunRow /\ run'.state = run.state
  BY RunRows DEF Tick, WaitsInv, WaitsTypeOK
<1>2. now \in Nat /\ now' = now + 1 /\ now' \in Instant
  BY InstantAssumption DEF Tick, WaitsInv, WaitsTypeOK, Instant
<1>3. WaitsTypeOK'
  BY <1>1, <1>2 DEF Tick, WaitsInv, WaitsTypeOK
<1>4. ParkedIsOpen'
  BY <1>1 DEF Tick, WaitsInv, ParkedIsOpen
<1>5. WakeupMatchesWait'
  BY DEF Tick, WaitsInv, WakeupMatchesWait, matches_wait
<1>6. NoLostReply'
  <2> SUFFICES ASSUME NEW k \in Generations, waits[k].state = "ACTIVE",
                      NEW u \in Replies(waits[k], k, inbox, now + 1)
               PROVE  u.ahead
    BY <1>2 DEF Tick, NoLostReply, Replies, matches_wait
  <2>1. u \in Signal /\ u \in inbox
    BY DEF Replies, WaitsInv, WaitsTypeOK
  <2>2. CASE u.received <= now
    BY <2>2 DEF Replies, WaitsInv, NoLostReply
  <2>3. CASE u.received > now
    BY <2>1, <2>3 DEF WaitsInv, FutureIsAhead
  <2> QED BY <2>1, <2>2, <2>3, <1>2 DEF Signal
<1>7. FutureIsAhead'
  <2> SUFFICES ASSUME NEW u \in inbox, u.received > now + 1
               PROVE  u.ahead
    BY <1>2 DEF Tick, FutureIsAhead
  <2>1. u.received \in Nat
    BY DEF WaitsInv, WaitsTypeOK, Signal
  <2> QED BY <2>1, <1>2 DEF WaitsInv, FutureIsAhead
<1> QED BY <1>3, <1>4, <1>5, <1>6, <1>7 DEF WaitsInv

\* A signal of the model is a signal, stamped ahead as its clock says.
LEMMA NewSignalIsSignal ==
  ASSUME now \in Nat, NEW id \in 1..MaxSignal, NEW g \in Generations,
         NEW fits \in BOOLEAN, NEW t \in Clock
  PROVE  LET s == NewSignal(id, g, fits, t)
         IN  /\ s \in Signal
             /\ s.generation = g
             /\ s.received > now => s.ahead
<1>1. t \in Nat /\ g \in Nat
  BY InstantAssumption, WaitBoundAssumption DEF Clock, Instant, Generations
<1>2. (t > now) \in BOOLEAN
  OBVIOUS
<1> QED BY <1>1, <1>2, Zenon DEF NewSignal, Signal

\* Stored signals name a generation of the Run.
SignalsInScope == \A s \in inbox : s.generation \in Generations

\* The invariant is inductive.
THEOREM WaitsInvariant == Spec => [](WaitsInv /\ SignalsInScope)
<1>1. Init => WaitsInv /\ SignalsInScope
  <2> SUFFICES ASSUME Init PROVE WaitsInv /\ SignalsInScope
    OBVIOUS
  <2>1. WaitsTypeOK
    BY LeaseAssumption, DelayAssumption, SignalAssumption, InstantAssumption,
       WaitBoundAssumption
       DEF Init, WaitsTypeOK, NewRun, RunRow, RunState, NoWait, WaitRow,
           WaitState, Instant
  <2>2. ParkedIsOpen
    BY WaitBoundAssumption DEF Init, ParkedIsOpen, NewRun, NoWait, Open, Generations
  <2> QED BY <2>1, <2>2 DEF Init, WaitsInv, WakeupMatchesWait, NoLostReply, NoWait,
                            FutureIsAhead, SignalsInScope
<1>2. (WaitsInv /\ SignalsInScope) /\ [Next]_vars => (WaitsInv /\ SignalsInScope)'
  <2> SUFFICES ASSUME WaitsInv, SignalsInScope, [Next]_vars
               PROVE  WaitsInv' /\ SignalsInScope'
    OBVIOUS
  <2>0. now \in Nat /\ inbox \subseteq Signal
    BY InstantAssumption DEF WaitsInv, WaitsTypeOK, Instant
  <2>1. ASSUME NEW h \in Owners, HostStep(h) PROVE WaitsInv' /\ SignalsInScope'
    <3>1. inbox' = inbox
      BY <2>1, Zenon DEF HostStep, Claim, Park, ParkActive, Finish, Abandon
    <3> QED BY <2>1, <3>1, HostKeeps DEF SignalsInScope
  <2>2. ASSUME NEW g \in Generations, activate(g) PROVE WaitsInv' /\ SignalsInScope'
    <3>1. SettleFrame(g, Activated(waits[g]), inbox)
      BY <2>2, ParkedWait, ActivatedRow
         DEF activate, SettleFrame, WaitsInv, WaitsTypeOK, FutureIsAhead
    <3>2. Activated(waits[g]).state \in Open
      BY <2>2, ParkedWait, ActivatedRow DEF activate, Open
    <3> QED BY <2>2, <3>1, <3>2, SettleKeeps, Zenon DEF activate, SignalsInScope
  <2>3. ASSUME NEW g \in Generations, resolve_timeout(g)
        PROVE  WaitsInv' /\ SignalsInScope'
    <3>1. SettleFrame(g, waits[g], inbox)
      BY <2>3, ParkedWait
         DEF resolve_timeout, SettleFrame, WaitsInv, WaitsTypeOK, FutureIsAhead
    <3> QED BY <2>3, <3>1, ParkedWait, SettleKeeps DEF resolve_timeout, SignalsInScope
  <2>4. ASSUME NEW s \in Signal, s.generation \in Generations,
               s.received > now => s.ahead, Receive(s)
        PROVE  WaitsInv' /\ SignalsInScope'
    <3>1. inbox' = inbox \cup {s}
      BY <2>4 DEF Receive, receive_inbox
    <3> QED BY <2>4, <3>1, ReceiveKeeps DEF SignalsInScope
  <2>5. ASSUME NEW id \in 1..MaxSignal, NEW g \in Generations,
               NEW fits \in BOOLEAN, NEW t \in Clock,
               Receive(NewSignal(id, g, fits, t))
        PROVE  WaitsInv' /\ SignalsInScope'
    BY <2>0, <2>4, <2>5, NewSignalIsSignal
  <2>6. ASSUME NEW s \in inbox, Receive(s) PROVE WaitsInv' /\ SignalsInScope'
    BY <2>0, <2>4, <2>6, Zenon DEF WaitsInv, FutureIsAhead, SignalsInScope
  <2>7. CASE Tick
    BY <2>7, TickKeeps DEF Tick, SignalsInScope
  <2>8. CASE UNCHANGED vars
    BY <2>8 DEF vars, WaitsInv, WaitsTypeOK, ParkedIsOpen, WakeupMatchesWait,
                NoLostReply, FutureIsAhead, SignalsInScope, Replies, matches_wait
  <2> QED BY <2>1, <2>2, <2>3, <2>5, <2>6, <2>7, <2>8 DEF Next
<1> QED BY <1>1, <1>2, PTL DEF Spec

\* Types of the wait tables.
THEOREM WaitsTypeCorrect == Spec => []WaitsTypeOK
BY WaitsInvariant, PTL DEF WaitsInv

\* A parked Run can always be woken.
THEOREM ParkedRunsOpen == Spec => []ParkedIsOpen
BY WaitsInvariant, PTL DEF WaitsInv

\* Wait row, wakeup row and inbox agree.
THEOREM WakeupsMatch == Spec => []WakeupMatchesWait
BY WaitsInvariant, PTL DEF WaitsInv

\* No stored reply is overlooked by an active wait.
THEOREM RepliesNotLost == Spec => []NoLostReply
BY WaitsInvariant, PTL DEF WaitsInv

-----------------------------------------------------------------------------
\* One step of WakesOnce.
WakesOnceStep ==
  /\ \A g \in Generations : wakeups[g] # "none" =>
       wakeups'[g] = wakeups[g] /\ waits'[g] = waits[g]
  /\ (bound # 0 /\ bound' # bound) =>
       /\ wakeups[bound] = "none" /\ wakeups'[bound] # "none"
       /\ run'.state = "READY"

\* Settling a wait that has no wakeup yet touches no other wait, and frees
\* the Run only with a wakeup.
LEMMA SettleOnce ==
  ASSUME WaitsTypeOK, NEW g \in Generations, NEW wait, NEW signals,
         wakeups[g] = "none", bound \in {0, g},
         Wake(g, wait, signals) \/ Stay(g, wait)
  PROVE  WakesOnceStep
<1>1. CASE Wake(g, wait, signals)
  <2>1. run'.state = "READY"
    BY <1>1 DEF Wake, Moved
  <2>2. \A k \in Generations : k # g =>
          wakeups'[k] = wakeups[k] /\ waits'[k] = waits[k]
    BY <1>1 DEF Wake, WaitsTypeOK
  <2>3. wakeups'[g] # "none"
    BY <1>1 DEF Wake, WaitsTypeOK
  <2> QED BY <2>1, <2>2, <2>3, Zenon DEF WakesOnceStep
<1>2. CASE Stay(g, wait)
  BY <1>2 DEF Stay, WaitsTypeOK, WakesOnceStep
<1> QED BY <1>1, <1>2

\* A wait wakes its Run once, and for good.
THEOREM WakesOnlyOnce == Spec => WakesOnce
<1>1. WaitsInv /\ [Next]_vars => [WakesOnceStep]_vars
  <2> SUFFICES ASSUME WaitsInv, Next PROVE WakesOnceStep
    BY DEF vars
  <2>0. WaitsTypeOK
    BY DEF WaitsInv
  <2> DEFINE Keeps == UNCHANGED <<bound, waits, wakeups>>
  <2>1. Keeps => WakesOnceStep
    BY DEF WakesOnceStep
  <2>2. ASSUME NEW h \in Owners, HostStep(h) PROVE WakesOnceStep
    <3>1. CASE Claim(h) \/ Finish(h) \/ Abandon(h)
      BY <3>1, <2>1 DEF Claim, Finish, Abandon
    <3>2. ASSUME NEW g \in Generations, NEW t \in Registrable, Park(h, g, t)
          PROVE  WakesOnceStep
      <4>1. wakeups[g] = "none" /\ bound = 0
        BY <3>2, UnregisteredWait, Zenon DEF Park, HoldsLease
      <4> QED BY <3>2, <4>1, <2>0 DEF Park, WakesOnceStep, WaitsTypeOK
    <3>3. ASSUME NEW g \in Generations, NEW t \in Registrable, ParkActive(h, g, t)
          PROVE  WakesOnceStep
      <4>1. wakeups[g] = "none" /\ bound = 0
        BY <3>3, UnregisteredWait, Zenon DEF ParkActive, HoldsLease
      <4>2. CASE Over(Activated(NewWait(t)), g, inbox, now)
        BY <4>2, <3>3, <4>1, <2>0, SettleOnce DEF ParkActive
      <4>3. CASE ~ Over(Activated(NewWait(t)), g, inbox, now)
        BY <4>3, <3>3, <4>1, <2>0 DEF ParkActive, WakesOnceStep, WaitsTypeOK
      <4> QED BY <4>2, <4>3
    <3> QED BY <2>2, <3>1, <3>2, <3>3 DEF HostStep
  <2>3. ASSUME NEW g \in Generations, NEW wait, NEW signals, Parked(g),
               Settle(g, wait, signals)
        PROVE  WakesOnceStep
    <3>1. wakeups[g] = "none" /\ bound = g
      BY <2>3, ParkedWait, Zenon DEF Parked
    <3>2. Wake(g, wait, signals) \/ Stay(g, wait)
      BY <2>3 DEF Settle
    <3> QED BY <3>1, <3>2, <2>0, SettleOnce
  <2>4. ASSUME NEW g \in Generations, activate(g) PROVE WakesOnceStep
    BY <2>4, <2>3 DEF activate
  <2>5. ASSUME NEW g \in Generations, resolve_timeout(g) PROVE WakesOnceStep
    BY <2>5, <2>3 DEF resolve_timeout
  <2>6. ASSUME NEW s, Receive(s) PROVE WakesOnceStep
    <3>1. CASE Parked(s.generation)
      <4>1. s.generation \in Generations
        BY <3>1, WaitBoundAssumption
           DEF Parked, WaitsInv, WaitsTypeOK, ParkedIsOpen, Generations
      <4> QED BY <3>1, <4>1, <2>6, <2>3, Zenon DEF Receive, receive_inbox
    <3>2. CASE ~ Parked(s.generation)
      BY <3>2, <2>6, <2>1, Zenon DEF Receive, receive_inbox
    <3> QED BY <3>1, <3>2
  <2>7. CASE Tick
    BY <2>7, <2>1 DEF Tick
  <2> QED BY <2>2, <2>4, <2>5, <2>6, <2>7 DEF Next
<1> QED BY <1>1, WaitsInvariant, PTL DEF Spec, WakesOnce, WakesOnceStep

-----------------------------------------------------------------------------
(* The retry budget.                                                        *)

\* What the transaction that holds the budget row has read is still so: no other
\* one holds the row, so its key is still new and its units still fit.
ReadIsCurrent ==
  \A c \in Producers : HoldsRow(c) =>
    /\ call[c].seen = budget /\ budget # NoBudget
    /\ call[c].pc = "new" => /\ call[c].key \notin DOMAIN reserved
                             /\ budget.used + call[c].units <= budget.max

RbInv == RbTypeOK /\ RetriesAccounted /\ ReadIsCurrent /\ IsFiniteSet(ReservedUnits)

LEMMA BudgetNumbers ==
  ASSUME NEW b \in Budget
  PROVE  b.max \in Int /\ b.used \in Int
BY RbAssumption DEF Budget

LEMMA UnitsLeft ==
  ASSUME NEW n \in Int, NEW v \in Units
  PROVE  n - v \in Int
BY DEF Units

\* The end of a transaction that wrote nothing.
LEMMA EndKeeps ==
  ASSUME RbInv, NEW c \in Producers, NEW a \in Answer, End(c, a),
         UNCHANGED <<budget, reserved>>,
         a.code = "reserved" => a.key \in DOMAIN reserved /\ reserved[a.key] = a.units
  PROVE  RbInv'
<1>1. /\ call' \in [Producers -> Reservation \cup {NoReservation}]
      /\ call'[c] = NoReservation /\ \A d \in Producers : d # c => call'[d] = call[d]
      /\ answer' \in [Producers -> Answer]
      /\ answer'[c] = a /\ \A d \in Producers : d # c => answer'[d] = answer[d]
  <2>1. call' = [call EXCEPT ![c] = NoReservation] /\ answer' = [answer EXCEPT ![c] = a]
    BY Zenon DEF End
  <2>2. /\ call \in [Producers -> Reservation \cup {NoReservation}]
        /\ answer \in [Producers -> Answer]
    BY Zenon DEF RbInv, RbTypeOK
  <2> QED
    BY <2>1, <2>2, Zenon
<1>2. \A d \in Producers : HoldsRow(d)' => HoldsRow(d) /\ call'[d] = call[d]
  <2>1. ~HoldsRow(c)'
    BY ONLY <1>1 DEF HoldsRow, NoReservation
  <2> QED
    BY <1>1, <2>1, Zenon DEF HoldsRow
<1>3. RbTypeOK'
  BY <1>1, <1>2 DEF RbInv, RbTypeOK
<1>4. ReservedUnits' = ReservedUnits
  BY DEF ReservedUnits
<1>5. RetriesAccounted'
  BY <1>1, <1>4, Zenon DEF RbInv, RetriesAccounted
<1>6. ReadIsCurrent'
  BY <1>2, Zenon DEF RbInv, ReadIsCurrent
<1> QED
  BY <1>3, <1>4, <1>5, <1>6, Zenon DEF RbInv

\* A transaction goes on, with what it has read.
LEMMA GoesOn ==
  ASSUME RbInv, NEW c \in Producers, NEW q \in Reservation,
         call' = [call EXCEPT ![c] = q], UNCHANGED <<answer, budget, reserved>>,
         \A d \in Producers : HoldsRow(d) => d = c,
         q.seen = budget, budget # NoBudget,
         q.pc = "new" => /\ q.key \notin DOMAIN reserved
                         /\ budget.used + q.units <= budget.max
  PROVE  RbInv'
<1>1. /\ call' \in [Producers -> Reservation \cup {NoReservation}]
      /\ call'[c] = q /\ \A d \in Producers : d # c => call'[d] = call[d]
  BY DEF RbInv, RbTypeOK
<1>2. \A d \in Producers : HoldsRow(d)' => d = c
  BY <1>1 DEF HoldsRow
<1>3. RbTypeOK'
  BY <1>1, <1>2 DEF RbInv, RbTypeOK
<1>4. ReservedUnits' = ReservedUnits
  BY Zenon DEF ReservedUnits
<1>5. RetriesAccounted'
  BY <1>4, Zenon DEF RbInv, RetriesAccounted
<1>6. ReadIsCurrent'
  BY <1>1, <1>2, Zenon DEF ReadIsCurrent
<1> QED
  BY <1>3, <1>4, <1>5, <1>6, Zenon DEF RbInv

\* The operator raises or lowers the budget.
LEMMA ConfigureKeeps ==
  ASSUME RbInv, NEW n \in 0 .. MaxBudget, Configure(n)
  PROVE  RbInv'
<1> USE RbAssumption
<1>0. budget \in Budget
  BY DEF RbInv, RbTypeOK
<1>1. /\ budget' \in Budget /\ budget'.max = n /\ budget'.used = budget.used
      /\ budget.used <= n
      /\ UNCHANGED <<reserved, call, answer>> /\ \A c \in Producers : ~HoldsRow(c)
  BY <1>0 DEF Configure, Budget
<1>2. \A c \in Producers : ~HoldsRow(c)'
  BY <1>1 DEF HoldsRow
<1>3. RbTypeOK'
  BY <1>1, <1>2 DEF RbInv, RbTypeOK
<1>4. ReservedUnits' = ReservedUnits
  BY <1>1 DEF ReservedUnits
<1>5. RetriesAccounted'
  BY <1>1, <1>4 DEF RbInv, RetriesAccounted
<1>6. ReadIsCurrent'
  BY <1>2 DEF ReadIsCurrent
<1> QED
  BY <1>3, <1>4, <1>5, <1>6 DEF RbInv

\* A transaction takes the lock of the budget row.
LEMMA ReadBudgetKeeps ==
  ASSUME RbInv, NEW c \in Producers, NEW k \in Keys, NEW u \in Units, ReadBudget(c, k, u)
  PROVE  RbInv'
<1>1. CASE End(c, [code |-> "RETRYABLE"])
  <2>1. [code |-> "RETRYABLE"] \in Answer
    BY DEF Answer, Refusal
  <2> QED
    BY <1>1, <2>1, EndKeeps, Zenon DEF ReadBudget
<1>2. CASE ~End(c, [code |-> "RETRYABLE"])
  <2> DEFINE q == [pc |-> "read", key |-> k, units |-> u, seen |-> budget]
  <2>1. q \in Reservation /\ q.seen = budget /\ q.pc = "read"
    BY DEF Reservation, RbInv, RbTypeOK
  <2>2. /\ call' = [call EXCEPT ![c] = q] /\ UNCHANGED <<answer, budget, reserved>>
        /\ budget # NoBudget /\ \A d \in Producers : ~HoldsRow(d)
    BY <1>2 DEF ReadBudget
  <2> HIDE DEF q
  <2> QED
    BY <2>1, <2>2, GoesOn, Zenon
<1> QED
  BY <1>1, <1>2

\* The answer of a call that has its reservation.
LEMMA GrantedAnswer ==
  ASSUME NEW c \in Producers, call[c] \in Reservation, NEW left \in Int,
         NEW again \in BOOLEAN
  PROVE  LET a == Granted(c, left, again) IN
         a \in Answer /\ a.key = call[c].key /\ a.units = call[c].units
<1>1. LET a == Granted(c, left, again) IN
      a \in Grant /\ a.key = call[c].key /\ a.units = call[c].units
  BY Zenon DEF Granted, Grant, Reservation
<1> QED
  BY <1>1, Zenon DEF Answer

\* It looks for the reservation of its key.
LEMMA ReadReservationKeeps ==
  ASSUME RbInv, NEW c \in Producers, ReadReservation(c)
  PROVE  RbInv'
<1> USE RbAssumption
<1>0. /\ call[c] \in Reservation /\ HoldsRow(c) /\ budget \in Budget
      /\ call[c].seen = budget /\ budget # NoBudget /\ Remaining(c) = budget.max - budget.used
      /\ UNCHANGED <<budget, reserved>>
  BY DEF ReadReservation, RbInv, RbTypeOK, HoldsRow, NoReservation, ReadIsCurrent, Remaining
<1>1. CASE End(c, [code |-> "CONFLICT"]) \/ End(c, [code |-> "BUDGET_EXHAUSTED"])
  <2>1. [code |-> "CONFLICT"] \in Answer /\ [code |-> "BUDGET_EXHAUSTED"] \in Answer
    BY DEF Answer, Refusal
  <2> QED
    BY <1>0, <1>1, <2>1, EndKeeps, Zenon
<1>2. CASE /\ call[c].key \in DOMAIN reserved /\ reserved[call[c].key] = call[c].units
           /\ End(c, Granted(c, Remaining(c), TRUE))
  <2> DEFINE a == Granted(c, Remaining(c), TRUE)
  <2>1. Remaining(c) \in Int
    BY <1>0 DEF Budget
  <2>2. a \in Answer /\ a.key = call[c].key /\ a.units = call[c].units
    BY <1>0, <2>1, GrantedAnswer, Zenon
  <2> HIDE DEF a
  <2> QED
    BY <1>0, <1>2, <2>2, EndKeeps, Zenon DEF a
<1>3. CASE /\ call[c].key \notin DOMAIN reserved /\ Remaining(c) >= call[c].units
           /\ call' = [call EXCEPT ![c] = [@ EXCEPT !.pc = "new"]] /\ UNCHANGED answer
  <2> DEFINE q == [call[c] EXCEPT !.pc = "new"]
  <2>1. /\ q \in Reservation /\ q.seen = budget /\ q.key = call[c].key
        /\ q.units = call[c].units
    BY <1>0 DEF Reservation
  <2>2. call' = [call EXCEPT ![c] = q]
    BY <1>3
  <2> HIDE DEF q
  <2>3. budget.used + q.units <= budget.max
    BY <1>0, <1>3, <2>1 DEF Budget, Reservation, Units
  <2>4. \A d \in Producers : HoldsRow(d) => d = c
    BY <1>0 DEF RbInv, RbTypeOK
  <2> QED
    BY <1>0, <1>3, <2>1, <2>2, <2>3, <2>4, GoesOn, Zenon
<1> QED
  BY <1>1, <1>2, <1>3, Zenon DEF ReadReservation

-----------------------------------------------------------------------------
(* Counting.                                                               *)

INSTANCE FiniteSetTheorems

\* The units of a new reservation.
LEMMA NewUnits ==
  ASSUME NEW k, NEW u \in Nat
  PROVE  IsFiniteSet({k} \X (1 .. u)) /\ Cardinality({k} \X (1 .. u)) = u
<1>1. /\ IsFiniteSet(1 .. u) /\ Cardinality(1 .. u) = u
  BY FS_Interval
<1>2. IsFiniteSet({k}) /\ Cardinality({k}) = 1
  BY FS_Singleton
<1> QED
  BY <1>1, <1>2, FS_Product

\* It reserves its units, which still fit.
LEMMA ReserveKeeps ==
  ASSUME RbInv, NEW c \in Producers, Reserve(c)
  PROVE  RbInv'
<1> USE RbAssumption
<1> DEFINE k == call[c].key
           u == call[c].units
           a == Granted(c, Remaining(c) - u, FALSE)
<1>a. /\ call[c] \in Reservation /\ HoldsRow(c) /\ budget \in Budget
      /\ call[c].seen = budget /\ budget # NoBudget
      /\ k \notin DOMAIN reserved /\ budget.used + u <= budget.max
      /\ Remaining(c) = budget.max - budget.used
  <2>1. call[c].pc = "new" /\ HoldsRow(c)
    BY Zenon DEF Reserve, HoldsRow
  <2>2. call[c] # NoReservation
    BY <2>1 DEF NoReservation
  <2> QED
    BY <2>1, <2>2 DEF RbInv, RbTypeOK, ReadIsCurrent, Remaining
<1>b. k \in Keys /\ u \in Units /\ Remaining(c) \in Int
  <2>1. k \in Keys /\ u \in Units
    BY <1>a, Zenon DEF Reservation
  <2>2. budget.max \in Int /\ budget.used \in Int
    BY <1>a, BudgetNumbers, Zenon
  <2> QED
    BY ONLY <1>a, <2>1, <2>2
<1>0. /\ call[c] \in Reservation /\ HoldsRow(c) /\ budget \in Budget
      /\ call[c].seen = budget /\ budget # NoBudget
      /\ k \notin DOMAIN reserved /\ budget.used + u <= budget.max
      /\ k \in Keys /\ u \in Units /\ Remaining(c) \in Int
  BY <1>a, <1>b, Zenon
<1>1. /\ reserved' = Inserted(k, u) /\ budget' = [budget EXCEPT !.used = @ + u]
      /\ End(c, a)
  BY <1>0, Zenon DEF Reserve, Reservable
<1>2. a \in Answer /\ a.key = k /\ a.units = u
  <2>1. Remaining(c) - u \in Int
    BY <1>0, UnitsLeft, Zenon
  <2>2. FALSE \in BOOLEAN
    OBVIOUS
  <2> QED
    BY <1>0, <2>1, <2>2, GrantedAnswer, Zenon
<1> HIDE DEF k, u, a
<1>3. /\ budget' \in Budget /\ budget'.used = budget.used + u /\ budget'.max = budget.max
  BY <1>0, <1>1 DEF Budget, Units
<1>4. /\ DOMAIN reserved' = DOMAIN reserved \cup {k} /\ reserved'[k] = u
      /\ \A x \in DOMAIN reserved : reserved'[x] = reserved[x]
      /\ reserved' \in [DOMAIN reserved' -> Units]
  <2>1. reserved' = [x \in DOMAIN reserved \cup {k} |-> IF x = k THEN u ELSE reserved[x]]
    BY <1>1 DEF Inserted
  <2>2. reserved \in [DOMAIN reserved -> Units]
    BY DEF RbInv, RbTypeOK
  <2> QED
    BY <1>0, <2>1, <2>2
<1>5. /\ call' \in [Producers -> Reservation \cup {NoReservation}]
      /\ call'[c] = NoReservation /\ \A d \in Producers : d # c => call'[d] = call[d]
      /\ answer' \in [Producers -> Answer]
      /\ answer'[c] = a /\ \A d \in Producers : d # c => answer'[d] = answer[d]
  BY <1>1, <1>2 DEF End, RbInv, RbTypeOK
<1>6. \A d \in Producers : ~HoldsRow(d)'
  BY <1>0, <1>5 DEF HoldsRow, NoReservation, RbInv, RbTypeOK
<1>7. RbTypeOK'
  BY <1>0, <1>3, <1>4, <1>5, <1>6 DEF RbInv, RbTypeOK
<1>8. ReservedUnits' = ReservedUnits \cup ({k} \X (1 .. u))
  BY <1>0, <1>4 DEF ReservedUnits
<1>9. ReservedUnits \cap ({k} \X (1 .. u)) = {}
  BY <1>0 DEF ReservedUnits
<1>10. /\ IsFiniteSet(ReservedUnits')
       /\ Cardinality(ReservedUnits') = Cardinality(ReservedUnits) + u
  <2>1. IsFiniteSet({k} \X (1 .. u)) /\ Cardinality({k} \X (1 .. u)) = u
    <3>1. u \in Nat
      BY <1>0 DEF Units
    <3> QED
      BY <3>1, NewUnits, Zenon
  <2>2. IsFiniteSet(ReservedUnits) /\ Cardinality(ReservedUnits) \in Nat
    BY FS_CardinalityType DEF RbInv
  <2>3. /\ IsFiniteSet(ReservedUnits \cup ({k} \X (1 .. u)))
        /\ Cardinality(ReservedUnits \cup ({k} \X (1 .. u)))
             = Cardinality(ReservedUnits) + Cardinality({k} \X (1 .. u)) - Cardinality({})
    <3> DEFINE A == ReservedUnits
               B == {k} \X (1 .. u)
    <3>1. IsFiniteSet(A) /\ IsFiniteSet(B) /\ A \cap B = {}
      BY <1>9, <2>1, <2>2
    <3> HIDE DEF A, B
    <3>2. /\ IsFiniteSet(A \cup B)
          /\ Cardinality(A \cup B) = Cardinality(A) + Cardinality(B) - Cardinality({})
      BY <3>1, FS_Union
    <3> QED
      BY <3>2 DEF A, B
  <2>4. Cardinality({}) = 0 /\ u \in Nat
    BY <1>0, FS_EmptySet DEF Units
  <2> QED
    BY <1>8, <2>1, <2>2, <2>3, <2>4
<1>11. RetriesAccounted'
  <2>1. RetriesAccounted
    BY Zenon DEF RbInv
  <2>2. budget'.used = Cardinality(ReservedUnits')
    BY <1>3, <1>10, <2>1, Zenon DEF RetriesAccounted
  <2>3. budget'.used <= budget'.max
    BY <1>0, <1>3, Zenon
  <2>4. \A d \in Producers : answer'[d].code = "reserved" =>
          answer'[d].key \in DOMAIN reserved' /\ reserved'[answer'[d].key] = answer'[d].units
    BY <1>2, <1>4, <1>5, <2>1, Zenon DEF RetriesAccounted
  <2> QED
    BY <2>2, <2>3, <2>4, Zenon DEF RetriesAccounted
<1>12. ReadIsCurrent'
  BY <1>6 DEF ReadIsCurrent
<1> QED
  BY <1>7, <1>10, <1>11, <1>12 DEF RbInv

\* The retry budget keeps its invariant.
THEOREM RetryInvariant == RbSpec => []RbInv
<1>1. RbInit => RbInv
  <2> SUFFICES ASSUME RbInit PROVE RbInv
    OBVIOUS
  <2>1. NoBudget \in Budget /\ NoBudget.used = 0 /\ NoAnswer \in Answer
        /\ NoAnswer.code = "none"
    BY RbAssumption DEF NoBudget, Budget, NoAnswer, Answer
  <2>2. ReservedUnits = {}
    BY Zenon DEF RbInit, ReservedUnits
  <2>3. IsFiniteSet(ReservedUnits) /\ Cardinality(ReservedUnits) = 0
    BY <2>2, FS_EmptySet
  <2>4. \A c \in Producers : ~HoldsRow(c)
    BY DEF RbInit, HoldsRow, NoReservation
  <2>5. RbTypeOK
    BY <2>1, <2>4 DEF RbInit, RbTypeOK
  <2>6. RetriesAccounted
    BY <2>1, <2>3 DEF RbInit, RetriesAccounted
  <2>7. ReadIsCurrent
    BY <2>4 DEF ReadIsCurrent
  <2> QED
    BY <2>3, <2>5, <2>6, <2>7 DEF RbInv
<1>2. RbInv /\ [RbNext]_rbVars => RbInv'
  <2> SUFFICES ASSUME RbInv, [RbNext]_rbVars PROVE RbInv'
    OBVIOUS
  <2>1. NoAnswer \in Answer /\ NoAnswer.code # "reserved"
    BY DEF NoAnswer, Answer
  <2>2. ASSUME NEW c \in Producers, Abort(c) PROVE RbInv'
    BY <2>1, <2>2, EndKeeps DEF Abort
  <2>3. ASSUME NEW c \in Producers, LoseAnswer(c) PROVE RbInv'
    <3>1. /\ answer' \in [Producers -> Answer] /\ answer'[c] = NoAnswer
          /\ \A d \in Producers : d # c => answer'[d] = answer[d]
          /\ UNCHANGED <<budget, reserved, call>>
      BY <2>1, <2>3 DEF LoseAnswer, RbInv, RbTypeOK
    <3>2. ReservedUnits' = ReservedUnits /\ \A d \in Producers : HoldsRow(d)' <=> HoldsRow(d)
      BY <3>1 DEF ReservedUnits, HoldsRow
    <3>3. RbTypeOK'
      BY <3>1, <3>2 DEF RbInv, RbTypeOK
    <3>4. RetriesAccounted'
      BY <2>1, <3>1, <3>2, Zenon DEF RbInv, RetriesAccounted
    <3>5. ReadIsCurrent'
      BY <3>1, <3>2, Zenon DEF RbInv, ReadIsCurrent
    <3> QED
      BY <3>2, <3>3, <3>4, <3>5 DEF RbInv
  <2>4. CASE UNCHANGED rbVars
    <3>1. UNCHANGED budget /\ UNCHANGED reserved /\ UNCHANGED call /\ UNCHANGED answer
      BY <2>4, Zenon DEF rbVars
    <3>2. ReservedUnits' = ReservedUnits /\ \A d \in Producers : HoldsRow(d)' <=> HoldsRow(d)
      BY ONLY <3>1, Zenon DEF ReservedUnits, HoldsRow
    <3>3. RbTypeOK'
      BY ONLY RbInv, <3>1, <3>2, Zenon DEF RbInv, RbTypeOK
    <3>4. RetriesAccounted'
      BY ONLY RbInv, <3>1, <3>2, Zenon DEF RbInv, RetriesAccounted
    <3>5. ReadIsCurrent'
      BY ONLY RbInv, <3>1, <3>2, Zenon DEF RbInv, ReadIsCurrent
    <3> QED
      BY <3>2, <3>3, <3>4, <3>5, Zenon DEF RbInv
  <2> QED
    BY <2>2, <2>3, <2>4, ConfigureKeeps, ReadBudgetKeeps, ReadReservationKeeps, ReserveKeeps,
       Zenon DEF RbNext
<1> QED
  BY <1>1, <1>2, PTL DEF RbSpec

\* The budget counts every reservation exactly once and never more than it allows, and
\* whoever is told of a reservation has it.
THEOREM RetriesAreAccounted == RbSpec => []RetriesAccounted
<1>1. RbInv => RetriesAccounted
  BY DEF RbInv
<1> QED
  BY <1>1, RetryInvariant, PTL

=============================================================================
