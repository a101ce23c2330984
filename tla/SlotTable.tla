------------------------------ MODULE SlotTable -------------------------------
(***************************************************************************)
(* aftercare_admission_limits and aftercare_execution_slots, with the      *)
(* statements of AdmissionRepository on them.  A slot is capacity, not an  *)
(* execution right: it is held by a Run, under the fence of its claim,     *)
(* until it is released or its own lease passes.                           *)
(***************************************************************************)
EXTENDS RunTable, FiniteSets

CONSTANTS Runs, Tenants, TenantOf, GlobalScope

ASSUME TenantAssumption == TenantOf \in [Runs -> Tenants]
ASSUME ScopeAssumption == GlobalScope \notin Tenants
ASSUME RunsFinite == IsFiniteSet(Runs)

Scopes == Tenants \cup {GlobalScope}

SlotRow == [token : Nat, owner : Owners \cup {NoOwner}, lease : 0..Lease]

\* No row: a stored fencing_token is positive.
NoSlot == [token |-> 0, owner |-> NoOwner, lease |-> 0]

SlotAfter(row, d) == [row EXCEPT !.lease = Left(row.lease, d)]

InScope(r, scope) == scope = GlobalScope \/ scope = TenantOf[r]

\* Unexpired reservations counted against a scope.
Active(slots, scope) ==
  {x \in Runs : InScope(x, scope) /\ slots[x].lease > 0}

\* The scopes whose limit row applies to a Run; no row is 0, since a
\* configured max_active_slots is positive.
LimitedScopes(limits, r) == {s \in Scopes : InScope(r, s) /\ limits[s] > 0}

\* Mutant of Saturated: one reservation too many.
SaturatedPastLimit(slots, limits, r) ==
  \E s \in LimitedScopes(limits, r) :
    Cardinality(Active(slots, s)) > limits[s]

\* The NOT EXISTS prefilter of claim_next().
Saturated(slots, limits, r) ==
  \E s \in LimitedScopes(limits, r) :
    Cardinality(Active(slots, s)) >= limits[s]

OwnsSlot(slots, r, owner, token) ==
  slots[r].owner = owner /\ slots[r].token = token

Purged(slots) ==
  [x \in Runs |-> IF slots[x].lease > 0 THEN slots[x] ELSE NoSlot]

(* acquire_slot() raises RATE_LIMITED: the Run's own slot is still live    *)
(* under another fence, or some scope is full.                             *)
SlotRefused(slots, limits, r, owner, token) ==
  /\ LimitedScopes(limits, r) # {}
  /\ IF slots[r].lease > 0
       THEN ~ OwnsSlot(slots, r, owner, token)
       ELSE Saturated(slots, limits, r)

(* The slot table after acquire_slot() did not raise.                      *)
SlotAcquired(slots, limits, r, owner, token) ==
  LET fresh == [token |-> token, owner |-> owner, lease |-> Lease]
  IN  IF LimitedScopes(limits, r) = {} THEN slots
      ELSE IF slots[r].lease > 0 THEN [slots EXCEPT ![r].lease = Lease]
      ELSE [Purged(slots) EXCEPT ![r] = fresh]

\* renew_slot() finds its row.
SlotRenewable(slots, r, owner, token) ==
  OwnsSlot(slots, r, owner, token) /\ slots[r].lease > 0

\* release_slot() deletes by owner and fence, expired or not.
SlotReleased(slots, r, owner, token) ==
  IF OwnsSlot(slots, r, owner, token)
    THEN [slots EXCEPT ![r] = NoSlot]
    ELSE slots
=============================================================================
