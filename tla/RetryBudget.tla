---------------------------- MODULE RetryBudget ----------------------------
(***************************************************************************)
(* The retry budget of one Run (configure_retry_budget and reserve_retry   *)
(* of aftercare_agent/persistence/admission.py).                           *)
(*                                                                         *)
(* reserve_retry locks and reads the budget row, reads the reservation of  *)
(* its key, and inserts a reservation and adds to retries_used.  Producers *)
(* call it at the same time, with the same key when one repeats a call     *)
(* whose answer it did not get; a transaction may end between any two      *)
(* statements.  The unique key of the reservations and the CHECK of the    *)
(* budget table stand behind it.                                           *)
(***************************************************************************)
EXTENDS Integers, FiniteSets

CONSTANTS Producers, Keys,
          MaxBudget,     \* bound of a configured budget
          MaxUnits       \* bound of the units of one reservation

ASSUME RbAssumption == MaxBudget \in Nat /\ MaxUnits \in Nat \ {0}

VARIABLES budget,     \* the row of aftercare_retry_budgets, or none
          reserved,   \* units by key in aftercare_retry_reservations
          call,       \* the transaction of a caller
          answer      \* what its last call returned or raised

rbVars == <<budget, reserved, call, answer>>

NoBudget == [max |-> -1, used |-> 0]
NoReservation == [pc |-> "idle"]
NoAnswer == [code |-> "none"]
Units == 1 .. MaxUnits

Budget == [max : -1 .. MaxBudget, used : 0 .. MaxBudget]
Reservation == [pc : {"read", "new"}, key : Keys, units : Units, seen : Budget]
Refusal == [code : {"RETRYABLE", "CONFLICT", "BUDGET_EXHAUSTED", "database error"}]
Grant == [code : {"reserved"}, key : Keys, units : Units, remaining : Int,
          replayed : BOOLEAN]
Answer == {NoAnswer} \cup Refusal \cup Grant

\* Between the SELECT ... FOR UPDATE and the end of the transaction.
HoldsRow(c) == call[c].pc \in {"read", "new"}

RbInit ==
  /\ budget = NoBudget
  /\ reserved = [k \in {} |-> 0]
  /\ call = [c \in Producers |-> NoReservation]
  /\ answer = [c \in Producers |-> NoAnswer]

\* configure_retry_budget: an upsert, which waits for the row and which the
\* CHECK refuses below the units already used.
Configure(n) ==
  /\ \A c \in Producers : ~HoldsRow(c)
  /\ budget.used <= n
  /\ budget' = [budget EXCEPT !.max = n]
  /\ UNCHANGED <<reserved, call, answer>>

End(c, a) ==
  /\ call' = [call EXCEPT ![c] = NoReservation]
  /\ answer' = [answer EXCEPT ![c] = a]

\* reserve_retry locks and reads the budget; without one it is RETRYABLE.
ReadBudget(c, k, u) ==
  /\ call[c] = NoReservation
  /\ \A d \in Producers : ~HoldsRow(d)
  /\ \/ /\ budget = NoBudget
        /\ End(c, [code |-> "RETRYABLE"])
     \/ /\ budget # NoBudget
        /\ call' = [call EXCEPT ![c] =
                      [pc |-> "read", key |-> k, units |-> u, seen |-> budget]]
        /\ UNCHANGED answer
  /\ UNCHANGED <<budget, reserved>>

Remaining(c) == call[c].seen.max - call[c].seen.used

Granted(c, left, again) ==
  [code |-> "reserved", key |-> call[c].key, units |-> call[c].units,
   remaining |-> left, replayed |-> again]

\* Its key: a repeated call is answered from its reservation, other units are
\* a CONFLICT, and a new key needs the units to be left.
ReadReservation(c) ==
  /\ call[c].pc = "read"
  /\ LET k == call[c].key IN
     \/ /\ k \in DOMAIN reserved /\ reserved[k] # call[c].units
        /\ End(c, [code |-> "CONFLICT"])
     \/ /\ k \in DOMAIN reserved /\ reserved[k] = call[c].units
        /\ End(c, Granted(c, Remaining(c), TRUE))
     \/ /\ k \notin DOMAIN reserved /\ Remaining(c) < call[c].units
        /\ End(c, [code |-> "BUDGET_EXHAUSTED"])
     \/ /\ k \notin DOMAIN reserved /\ Remaining(c) >= call[c].units
        /\ call' = [call EXCEPT ![c] = [@ EXCEPT !.pc = "new"]]
        /\ UNCHANGED answer
  /\ UNCHANGED <<budget, reserved>>

\* The unique key and the CHECK accept the two writes.
Reservable(c) ==
  /\ call[c].key \notin DOMAIN reserved
  /\ budget.used + call[c].units <= budget.max

\* The reservations with one more row.
Inserted(k, u) ==
  [x \in DOMAIN reserved \cup {k} |-> IF x = k THEN u ELSE reserved[x]]

\* Mutant of Reserve: retries_used grows by one, whatever the units.
ReserveOneUnit(c) ==
  /\ call[c].pc = "new"
  /\ Reservable(c)
  /\ reserved' = Inserted(call[c].key, call[c].units)
  /\ budget' = [budget EXCEPT !.used = @ + 1]
  /\ End(c, Granted(c, Remaining(c) - call[c].units, FALSE))

\* The INSERT, the UPDATE and the commit.  A write the tables refuse raises an
\* error of the database.
Reserve(c) ==
  /\ call[c].pc = "new"
  /\ IF Reservable(c)
     THEN /\ reserved' = Inserted(call[c].key, call[c].units)
          /\ budget' = [budget EXCEPT !.used = @ + call[c].units]
          /\ End(c, Granted(c, Remaining(c) - call[c].units, FALSE))
     ELSE End(c, [code |-> "database error"]) /\ UNCHANGED <<budget, reserved>>

\* The caller dies or its connection breaks: the transaction rolls back.
Abort(c) ==
  /\ HoldsRow(c)
  /\ End(c, NoAnswer)
  /\ UNCHANGED <<budget, reserved>>

\* The commit went through and the caller never learns of it.
LoseAnswer(c) ==
  /\ call[c] = NoReservation /\ answer[c] # NoAnswer
  /\ answer' = [answer EXCEPT ![c] = NoAnswer]
  /\ UNCHANGED <<budget, reserved, call>>

RbNext ==
  \/ \E n \in 0 .. MaxBudget : Configure(n)
  \/ \E c \in Producers :
       \/ \E k \in Keys, u \in Units : ReadBudget(c, k, u)
       \/ ReadReservation(c) \/ Reserve(c) \/ Abort(c) \/ LoseAnswer(c)

RbSpec == RbInit /\ [][RbNext]_rbVars

-----------------------------------------------------------------------------
\* The stored rows have their types, and the row lock is exclusive.
RbTypeOK ==
  /\ budget \in Budget
  /\ reserved \in [DOMAIN reserved -> Units] /\ DOMAIN reserved \subseteq Keys
  /\ call \in [Producers -> Reservation \cup {NoReservation}]
  /\ answer \in [Producers -> Answer]
  /\ \A c, d \in Producers : HoldsRow(c) /\ HoldsRow(d) => c = d

\* The units the reservations hold, told apart by their key.
ReservedUnits == UNION {{k} \X (1 .. reserved[k]) : k \in DOMAIN reserved}

\* The budget counts every reservation once, whatever is repeated, lost or
\* reconfigured, and never more than it allows; and a caller that is told a
\* retry is reserved has the reservation, with its units, whoever made it
\* (reserve_retry).
RetriesAccounted ==
  /\ budget.used = Cardinality(ReservedUnits)
  /\ budget # NoBudget => budget.used <= budget.max
  /\ \A c \in Producers : answer[c].code = "reserved" =>
       /\ answer[c].key \in DOMAIN reserved
       /\ reserved[answer[c].key] = answer[c].units

=============================================================================
