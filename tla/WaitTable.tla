------------------------------ MODULE WaitTable -------------------------------
(***************************************************************************)
(* Rows of aftercare_waits and of aftercare_inbox, and how WaitRepository  *)
(* decides that a wait is over.  A wait belongs to one Run and is told     *)
(* apart by its generation; a signal names the generation it answers.      *)
(*                                                                         *)
(* Here instants are kept as such: registration time and deadline come     *)
(* from the caller's clock, received_at from the channel's, and both are   *)
(* compared with each other as well as with the database clock.            *)
(***************************************************************************)
EXTENDS RunTable

CONSTANTS WaitLength,   \* from registration to deadline
          MaxSignal,    \* event ids are 1..MaxSignal
          MaxInstant    \* bound: the last instant of the model

ASSUME WaitLengthAssumption == WaitLength \in Nat \ {0}
ASSUME SignalAssumption == MaxSignal \in Nat
ASSUME InstantAssumption == MaxInstant \in Nat

Instant == 0..MaxInstant

WaitState == {"absent", "PENDING", "ACTIVE", "SATISFIED", "TIMED_OUT"}

WaitRow == [state : WaitState, created : Nat, deadline : Nat,
            winner : 0..MaxSignal]

NoWait == [state |-> "absent", created |-> 0, deadline |-> 0, winner |-> 0]

\* A wait as it is registered.
NewWait(created) == [state |-> "PENDING", created |-> created,
                     deadline |-> created + WaitLength, winner |-> 0]

Activated(wait) == [wait EXCEPT !.state = "ACTIVE"]

\* fits: kind, correlation key and condition version are the wait's own.
\* ahead: received_at was ahead of the database clock when it was stored.
Signal == [id : 1..MaxSignal, generation : Nat, fits : BOOLEAN,
           received : Nat, ahead : BOOLEAN]

matches_wait(generation, signal) ==
  signal.generation = generation /\ signal.fits

\* The SELECT of _settle_if_ready().
Replies(wait, generation, inbox, now) ==
  {s \in inbox : /\ matches_wait(generation, s)
                 /\ wait.created <= s.received
                 /\ s.received <= now}

\* ORDER BY received_at, event_id.
First(replies) ==
  CHOOSE s \in replies : \A t \in replies :
    \/ s.received < t.received
    \/ s.received = t.received /\ s.id <= t.id

\* _settle_if_ready() settles rather than returning the wait as it is.
Over(wait, generation, inbox, now) ==
  /\ wait.state = "ACTIVE"
  /\ Replies(wait, generation, inbox, now) # {} \/ now >= wait.deadline

\* Mutant of Settled: the deadline is looked at before the replies.
SettledTimeoutFirst(wait, generation, inbox, now) ==
  IF now >= wait.deadline
    THEN [wait EXCEPT !.state = "TIMED_OUT"]
    ELSE [wait EXCEPT !.state = "SATISFIED",
                      !.winner = First(Replies(wait, generation, inbox, now)).id]

\* A reply wins over the deadline, however late it is.
Settled(wait, generation, inbox, now) ==
  LET replies == Replies(wait, generation, inbox, now)
  IN  IF replies = {}
        THEN [wait EXCEPT !.state = "TIMED_OUT"]
        ELSE [wait EXCEPT !.state = "SATISFIED", !.winner = First(replies).id]
=============================================================================
