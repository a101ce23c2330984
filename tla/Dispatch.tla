------------------------------ MODULE Dispatch ------------------------------
(***************************************************************************)
(* The fair queue shared Workers take Runs from (claim_next of             *)
(* aftercare_agent/persistence/repositories.py, with acquire_slot of       *)
(* admission.py in the same transaction).                                  *)
(*                                                                         *)
(* A Worker's SELECT orders the queue by the dispatch numbers of the       *)
(* tenants as last committed, skips locked Runs and saturated tenants, and *)
(* locks one Run.  Its transaction then draws the tenant's next dispatch   *)
(* number, counts the slots again, and commits or is refused and rolled    *)
(* back.  In between, other Workers select by the same, now stale,         *)
(* numbers, and two transactions may commit in another order than they     *)
(* drew.  Fencing and leases are the subject of RunTable and Worker; here  *)
(* a lease is held or has expired.                                         *)
(***************************************************************************)
EXTENDS Integers, FiniteSets

CONSTANTS Tenants, Runs, Pollers,
          TenantOf,      \* tenant of a Run
          Priority,      \* priority of its queue row
          TenantLimit, GlobalLimit   \* aftercare_admission_limits

ASSUME DpAssumption ==
  /\ TenantOf \in [Runs -> Tenants] /\ Priority \in [Runs -> Nat]
  /\ Tenants \cap Pollers = {} /\ IsFiniteSet(Tenants \cup Pollers)
  /\ TenantLimit \in Nat \ {0} /\ GlobalLimit \in Nat \ {0}

VARIABLES queue,    \* place of a Run by available_at, then queue_seq; 0: not queued
          state,    \* of a Run
          number,   \* dispatch numbers: a tenant's committed, a Worker's drawn; 0: none
          worker,   \* what a Worker does
          over      \* history: over[u][t] dispatches of t while u waited

dpVars == <<queue, state, number, worker, over>>

Idle == [pc |-> "idle"]
Claiming(w) == worker[w].pc \in {"selected", "numbered"}
RunLocked(r) == \E w \in Pollers : Claiming(w) /\ worker[w].run = r

\* COALESCE(f.last_dispatch_seq, 0).
LastDispatch(t) == number[t]

\* Dispatch numbers and queue places are only compared: ranks stand for them.
Ranked(f) ==
  [x \in DOMAIN f |-> Cardinality({y \in DOMAIN f : 0 < f[y] /\ f[y] <= f[x]})]

\* nextval of the sequence: above every number drawn so far.
NextNumber == Cardinality(Tenants \cup Pollers) + 1

\* Unexpired rows of aftercare_execution_slots.
Slots(T) == Cardinality({r \in Runs : state[r] = "RUNNING" /\ TenantOf[r] \in T})

\* The NOT EXISTS prefilter, and the counts of acquire_slot.
Admits(t) == Slots({t}) < TenantLimit /\ Slots(Tenants) < GlobalLimit

\* The WHERE clause and SKIP LOCKED: a READY Run, or a RUNNING one whose lease
\* has expired.
Eligible(r) ==
  /\ state[r] \in {"READY", "EXPIRED"}
  /\ Admits(TenantOf[r])
  /\ ~RunLocked(r)

\* Mutant of Precedes: priority before fairness.
PrecedesByPriority(a, b) ==
  \/ Priority[a] > Priority[b]
  \/ Priority[a] = Priority[b] /\ queue[a] < queue[b]

\* ORDER BY last_dispatch_seq, priority DESC, available_at, queue_seq.
Precedes(a, b) ==
  LET fa == LastDispatch(TenantOf[a])
      fb == LastDispatch(TenantOf[b])
  IN \/ fa < fb
     \/ fa = fb /\ Priority[a] > Priority[b]
     \/ fa = fb /\ Priority[a] = Priority[b] /\ queue[a] < queue[b]

\* The queue rows of Runs that became runnable in some order.
Orders == {q \in [Runs -> 1..Cardinality(Runs)] : \A a, b \in Runs : q[a] = q[b] => a = b}

\* Last in the queue: the queue trigger stamps available_at.
Queued(r) == Ranked([queue EXCEPT ![r] = Cardinality(Runs) + 1])

DpInit ==
  /\ queue \in Orders
  /\ state = [r \in Runs |-> "READY"]
  /\ number = [x \in Tenants \cup Pollers |-> 0]
  /\ worker = [w \in Pollers |-> Idle]
  /\ over = [u \in Tenants |-> [t \in Tenants |-> 0]]

\* claim_next, its SELECT ... FOR UPDATE OF r SKIP LOCKED LIMIT 1.
Select(w) ==
  /\ worker[w] = Idle
  /\ \E r \in Runs :
       /\ Eligible(r)
       /\ \A o \in Runs : Eligible(o) /\ o # r => Precedes(r, o)
       /\ worker' = [worker EXCEPT ![w] = [pc |-> "selected", run |-> r]]
  /\ UNCHANGED <<queue, state, number>>

\* The upsert of aftercare_tenant_fairness.  Its row stays locked until the
\* transaction ends, so a second dispatch of the tenant waits here.
Number(w) ==
  /\ worker[w].pc = "selected"
  /\ \A v \in Pollers :
       worker[v].pc = "numbered"
         => TenantOf[worker[v].run] # TenantOf[worker[w].run]
  /\ number' = Ranked([number EXCEPT ![w] = NextNumber])
  /\ worker' = [worker EXCEPT ![w].pc = "numbered"]
  /\ UNCHANGED <<queue, state>>

\* acquire_slot finds room under the locks of the limit rows, and the
\* transaction commits: the Run is RUNNING, and the number w drew is its
\* tenant's.
Dispatch(w) ==
  /\ worker[w].pc = "numbered"
  /\ LET r == worker[w].run IN
     /\ Admits(TenantOf[r])
     /\ state' = [state EXCEPT ![r] = "RUNNING"]
     /\ number' = Ranked([number EXCEPT ![TenantOf[r]] = number[w], ![w] = 0])
     /\ worker' = [worker EXCEPT ![w].pc = "running"]
  /\ UNCHANGED queue

\* acquire_slot refuses (RATE_LIMITED), or the transaction fails: nothing of
\* it stays.
Rollback(w) ==
  /\ Claiming(w)
  /\ number' = Ranked([number EXCEPT ![w] = 0])
  /\ worker' = [worker EXCEPT ![w] = Idle]
  /\ UNCHANGED <<queue, state>>

\* A slice ends: the Run goes back to READY at the end of the queue or leaves
\* it.  A Worker whose lease was lost writes nothing.
Finish(w) ==
  /\ worker[w].pc = "running"
  /\ LET r == worker[w].run IN
     \/ /\ state' = [state EXCEPT ![r] = "READY"]
        /\ queue' = Queued(r)
     \/ /\ state' = [state EXCEPT ![r] = "DONE"]
        /\ queue' = Ranked([queue EXCEPT ![r] = 0])
  /\ worker' = [worker EXCEPT ![w] = Idle]
  /\ UNCHANGED number

\* A Worker dies, its lease and its slot expire, and a new one takes its place.
\* The queue row stays where it was.
Expire(w) ==
  /\ worker[w].pc = "running"
  /\ state' = [state EXCEPT ![worker[w].run] = "EXPIRED"]
  /\ worker' = [worker EXCEPT ![w] = Idle]
  /\ UNCHANGED <<queue, number>>

\* A customer message or a retry time makes a Run runnable again.
Wake(r) ==
  /\ state[r] = "DONE"
  /\ state' = [state EXCEPT ![r] = "READY"]
  /\ queue' = Queued(r)
  /\ UNCHANGED <<number, worker>>

DpStep ==
  \/ \E w \in Pollers :
       \/ Select(w) \/ Number(w) \/ Dispatch(w)
       \/ Rollback(w) \/ Finish(w) \/ Expire(w)
  \/ \E r \in Runs : Wake(r)

\* A tenant waits while one of its Runs could be selected now.
Waiting(u) == \E r \in Runs : TenantOf[r] = u /\ Eligible(r)

\* History: the dispatches of each tenant during another's uninterrupted wait.
DispatchOf(t) ==
  \E r \in Runs : /\ TenantOf[r] = t
                  /\ state[r] # "RUNNING" /\ state'[r] = "RUNNING"

CountOvertakes ==
  over' = [u \in Tenants |-> [t \in Tenants |->
            IF ~Waiting(u) \/ ~Waiting(u)' \/ DispatchOf(u) THEN 0
            ELSE IF DispatchOf(t) THEN over[u][t] + 1 ELSE over[u][t]]]

DpNext == DpStep /\ CountOvertakes

DpSpec == DpInit /\ [][DpNext]_dpVars

-----------------------------------------------------------------------------
\* The queue holds every runnable and running Run once, and a Worker that runs
\* one holds it alone.
DpTypeOK ==
  /\ queue \in [Runs -> 0..Cardinality(Runs)]
  /\ \A r \in Runs : queue[r] > 0 <=> state[r] # "DONE"
  /\ \A a, b \in Runs : a # b /\ queue[a] > 0 => queue[a] # queue[b]
  /\ state \in [Runs -> {"READY", "RUNNING", "EXPIRED", "DONE"}]
  /\ number \in [Tenants \cup Pollers -> 0..Cardinality(Tenants \cup Pollers)]
  /\ \A w \in Pollers : worker[w].pc \in {"idle", "selected", "numbered", "running"}
  /\ \A v, w \in Pollers :
       v # w /\ worker[v] # Idle /\ worker[w] # Idle
         => worker[v].run # worker[w].run

\* No tenant is starved: while one of its Runs could be taken, another tenant
\* is dispatched at most once per Worker and once more, whatever its
\* priorities, its backlog and its crashes.  The Workers that selected earlier
\* ordered by older numbers, and one number may be drawn before the waiting
\* tenant's own and committed after it (claim_next).
NoTenantStarves ==
  \A u, t \in Tenants : u # t => over[u][t] <= Cardinality(Pollers) + 1

=============================================================================
