-------------------------------- MODULE Access --------------------------------
(***************************************************************************)
(* Who may do what with one Case: the grant table, its administration, the *)
(* requests that act under a grant and the event streams that outlive the  *)
(* request which opened them.                                              *)
(*                                                                         *)
(* A caller is a verified bearer token: a subject, the scopes the issuer   *)
(* gave it, and whether its case_ids, if it has any, name this Case.  A    *)
(* request under a grant takes two steps, because the grant row stays      *)
(* locked from its resolution to the commit; what the operation does to    *)
(* the Case belongs to the modules of that operation.                      *)
(***************************************************************************)
EXTENDS Integers

CONSTANTS Callers, Subjects,
          SubjectOf,       \* caller -> subject
          Scopes,          \* caller -> permissions of the token
          InBound,         \* callers whose case_ids do not exclude the Case
          Grantable,       \* GRANTABLE_CASE_PERMISSIONS
          MaxRevision,     \* bound: revisions of a grant row
          MaxTtl,          \* bound: lifetime of a grant with expires_at
          NoSubject

ASSUME AccessAssumption ==
  /\ SubjectOf \in [Callers -> Subjects]
  /\ InBound \subseteq Callers
  /\ "case:read" \in Grantable
  /\ Grantable \cap {"case:create", "grant:read", "grant:admin"} = {}
  /\ MaxRevision \in Nat /\ MaxTtl \in Nat
  /\ NoSubject \notin Subjects

VARIABLES grants,      \* aftercare_case_grants of the Case
          opened,      \* has the Case been opened?
          requests,    \* the transaction each caller is in
          streams,     \* the event stream each caller has
          seen,        \* grant revisions each caller has read
          grantEvents  \* audit events of the grants

accessVars == <<grants, opened, requests, streams, seen, grantEvents>>

\* ttl is the time left, -1 for a grant without expires_at; revision 0 is no row.
GrantRow == [revision : Nat, perms : SUBSET Grantable,
             by : Subjects \cup {NoSubject}, revoked : BOOLEAN,
             ttl : -1..MaxTtl]

NoGrant == [revision |-> 0, perms |-> {}, by |-> NoSubject, revoked |-> FALSE,
            ttl |-> -1]

\* Idle when revision is 0.
Request == [perm : Grantable, revision : Nat]
NoRequest == [perm |-> "case:read", revision |-> 0]

\* late counts events sent since the grant stopped to allow the stream.
Stream == [pc : {"closed", "open", "checked"}, late : Nat]

-----------------------------------------------------------------------------
(* Resolving a grant.                                                      *)

Active(row) == row.revision > 0 /\ ~ row.revoked /\ row.ttl # 0

\* bind_case_grant: the token narrows the grant and the grant the token.
Bound(c) == Scopes[c] \cap grants[SubjectOf[c]].perms

\* _authorized_case
Allowed(c, perm) ==
  /\ Active(grants[SubjectOf[c]])
  /\ c \in InBound
  /\ perm \in Bound(c)

\* Mutant of Locked: FOR UPDATE is forgotten.
NeverLocked(s) == FALSE

\* A transaction in flight holds the row of its subject.
Locked(s) == \E c \in Callers : SubjectOf[c] = s /\ requests[c].revision # 0

-----------------------------------------------------------------------------
(* Requests under a grant: reads and decisions of reviews and approvals,   *)
(* strategy migrations, reads of Case and Runs.                            *)

Authorize(c, perm) ==
  /\ requests[c] = NoRequest /\ ~ Locked(SubjectOf[c])
  /\ Allowed(c, perm)
  /\ requests' = [requests EXCEPT
       ![c] = [perm |-> perm, revision |-> grants[SubjectOf[c]].revision]]
  /\ UNCHANGED <<grants, opened, streams, seen, grantEvents>>

\* Commit or rollback: either way the row lock goes.
EndRequest(c) ==
  /\ requests[c] # NoRequest
  /\ requests' = [requests EXCEPT ![c] = NoRequest]
  /\ UNCHANGED <<grants, opened, streams, seen, grantEvents>>

-----------------------------------------------------------------------------
(* The event stream: authorised when it is opened and before each event.   *)

OpenStream(c) ==
  /\ streams[c].pc = "closed" /\ ~ Locked(SubjectOf[c])
  /\ Allowed(c, "case:read")
  /\ streams' = [streams EXCEPT ![c] = [pc |-> "open", late |-> 0]]
  /\ UNCHANGED <<grants, opened, requests, seen, grantEvents>>

CheckEvent(c) ==
  /\ streams[c].pc = "open" /\ ~ Locked(SubjectOf[c])
  /\ streams' = [streams EXCEPT
       ![c] = IF Allowed(c, "case:read")
                THEN [pc |-> "checked", late |-> 0]
                ELSE [pc |-> "closed", late |-> 0]]
  /\ UNCHANGED <<grants, opened, requests, seen, grantEvents>>

YieldEvent(c) ==
  /\ streams[c].pc = "checked"
  /\ streams' = [streams EXCEPT
       ![c] = [pc |-> "open",
               late |-> IF Allowed(c, "case:read") THEN 0
                                                   ELSE streams[c].late + 1]]
  /\ UNCHANGED <<grants, opened, requests, seen, grantEvents>>

Disconnect(c) ==
  /\ streams[c].pc # "closed"
  /\ streams' = [streams EXCEPT ![c] = [pc |-> "closed", late |-> 0]]
  /\ UNCHANGED <<grants, opened, requests, seen, grantEvents>>

-----------------------------------------------------------------------------
(* Changing the table.                                                     *)

\* append_case_grant_event: the event id carries the kind and the revision.
GrantEvent(s, kind, revision) == <<s, kind, revision>>

\* Writes the row of s and its event; the answer, if it arrives, tells the
\* caller the new revision.
Write(c, s, row, kind, answered) ==
  /\ grants' = [grants EXCEPT ![s] = row]
  /\ grantEvents' = grantEvents \cup {GrantEvent(s, kind, row.revision)}
  /\ seen' = IF answered THEN [seen EXCEPT ![c] = [@ EXCEPT ![s] = row.revision]]
                         ELSE seen
  /\ UNCHANGED <<requests, streams>>

\* The first request under the idempotency key; a replay writes nothing.
open_case(c) ==
  LET s == SubjectOf[c] IN
  /\ "case:create" \in Scopes[c]
  /\ ~ opened
  /\ opened' = TRUE
  /\ Write(c, s, [revision |-> 1, perms |-> {"case:read"}, by |-> s,
                  revoked |-> FALSE, ttl |-> -1], "granted", FALSE)

list_case_grants(c) ==
  /\ "grant:read" \in Scopes[c] /\ opened
  /\ seen' = [seen EXCEPT ![c] = [s \in Subjects |-> grants[s].revision]]
  /\ UNCHANGED <<grants, opened, requests, streams, grantEvents>>

Administers(c) == "grant:admin" \in Scopes[c] /\ opened

\* Mutant of Delegable: an administrator may hand out any permission.
DelegableAny(c, perms) == perms # {}

\* authorize_case_grant
Delegable(c, perms) == perms # {} /\ perms \subseteq Grantable \cap Scopes[c]

\* expected_revision, None for 0, is what the caller has last read.
Expected(c, s) == seen[c][s] = grants[s].revision

put_case_grant(c, s, perms, ttl, answered) ==
  /\ Administers(c) /\ ~ Locked(s)
  /\ Delegable(c, perms)
  /\ ttl # 0
  /\ Expected(c, s)
  /\ grants[s].revision < MaxRevision
  /\ Write(c, s, [revision |-> grants[s].revision + 1, perms |-> perms,
                  by |-> SubjectOf[c], revoked |-> FALSE, ttl |-> ttl],
           "granted", answered)
  /\ UNCHANGED opened

revoke_case_grant(c, s, answered) ==
  /\ Administers(c) /\ ~ Locked(s)
  /\ grants[s].revision # 0 /\ Expected(c, s)
  /\ grants[s].revision < MaxRevision
  /\ Write(c, s, [revision |-> grants[s].revision + 1, perms |-> grants[s].perms,
                  by |-> grants[s].by, revoked |-> TRUE, ttl |-> grants[s].ttl],
           "revoked", answered)
  /\ UNCHANGED opened

AccessTick ==
  /\ \E s \in Subjects : grants[s].ttl > 0
  /\ grants' = [s \in Subjects |->
                  [grants[s] EXCEPT !.ttl = IF @ > 0 THEN @ - 1 ELSE @]]
  /\ UNCHANGED <<opened, requests, streams, seen, grantEvents>>

-----------------------------------------------------------------------------
(* What list_cases shows.                                                  *)

\* list_accessible: "case:read" is looked up in the row, and in the token by
\* the endpoint.
Listed(c) ==
  /\ "case:read" \in Scopes[c]
  /\ "case:read" \in grants[SubjectOf[c]].perms
  /\ Active(grants[SubjectOf[c]])
  /\ c \in InBound

\* Mutant of EffectivePermissions: the row is shown as it is.
RowPermissions(c) == grants[SubjectOf[c]].perms

\* _effective_case_permissions, shown with a listed Case.
EffectivePermissions(c) == grants[SubjectOf[c]].perms \cap Scopes[c]

-----------------------------------------------------------------------------

AccessInit ==
  /\ grants = [s \in Subjects |-> NoGrant]
  /\ opened = FALSE
  /\ requests = [c \in Callers |-> NoRequest]
  /\ streams = [c \in Callers |-> [pc |-> "closed", late |-> 0]]
  /\ seen = [c \in Callers |-> [s \in Subjects |-> 0]]
  /\ grantEvents = {}

AccessNext ==
  \/ \E c \in Callers :
       \/ open_case(c) \/ list_case_grants(c) \/ EndRequest(c)
       \/ OpenStream(c) \/ CheckEvent(c) \/ YieldEvent(c) \/ Disconnect(c)
       \/ \E perm \in Grantable : Authorize(c, perm)
       \/ \E s \in Subjects, answered \in BOOLEAN :
            \/ revoke_case_grant(c, s, answered)
            \/ \E perms \in SUBSET Grantable, ttl \in -1..MaxTtl :
                 put_case_grant(c, s, perms, ttl, answered)
  \/ AccessTick

AccessSpec == AccessInit /\ [][AccessNext]_accessVars

-----------------------------------------------------------------------------
(* Properties.                                                             *)

\* Types; a row that exists grants something, as the record's model demands.
AccessTypeOK ==
  /\ grants \in [Subjects -> GrantRow]
  /\ opened \in BOOLEAN
  /\ requests \in [Callers -> Request]
  /\ streams \in [Callers -> Stream]
  /\ seen \in [Callers -> [Subjects -> Nat]]
  /\ \A s \in Subjects : grants[s].revision # 0 => grants[s].perms # {}

\* Whatever is committed under a grant is committed under the grant as it
\* stands: between resolution and commit nobody revokes, replaces or narrows
\* the row, and the permission used is in the token and in the row.  A stream,
\* which holds no lock, sends at most one event after its grant was revoked or
\* expired: the one that was already authorised.
ActsUnderGrant ==
  \A c \in Callers :
    /\ requests[c] # NoRequest =>
         LET row == grants[SubjectOf[c]] IN
         /\ row.revision = requests[c].revision /\ ~ row.revoked
         /\ requests[c].perm \in row.perms \cap Scopes[c]
    /\ streams[c].late <= 1

\* Delegation never adds authority and loses no update: every change of a row
\* is made by a caller who saw the revision it had, so of two administrators
\* working from one screen only the first succeeds; and what it grants was in
\* the token of the administrator who granted it, or is the read grant of the
\* Case's opener.  A revocation grants nothing new.
NoEscalation ==
  [][\A s \in Subjects : grants'[s].revision # grants[s].revision =>
       /\ grants'[s].revision = grants[s].revision + 1
       /\ \E c \in Callers :
            /\ seen[c][s] = grants[s].revision
            /\ \/ /\ "grant:admin" \in Scopes[c]
                  /\ IF grants'[s].revoked
                     THEN grants'[s].perms = grants[s].perms
                     ELSE /\ grants'[s].by = SubjectOf[c]
                          /\ grants'[s].perms \subseteq Scopes[c]
               \/ /\ "case:create" \in Scopes[c]
                  /\ grants'[s].by = SubjectOf[c]
                  /\ grants'[s].perms = {"case:read"}]_accessVars

\* The work queue shows a Case exactly to the callers who may open it, with
\* exactly the permissions a request of theirs would be bound to.
ListingMatchesAccess ==
  \A c \in Callers :
    /\ Listed(c) = Allowed(c, "case:read")
    /\ \A perm \in Grantable : Listed(c) =>
         ((perm \in EffectivePermissions(c)) = Allowed(c, perm))
=============================================================================
