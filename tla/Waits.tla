-------------------------------- MODULE Waits ---------------------------------
(***************************************************************************)
(* A Run that waits for customer input, again and again: a host claims it, *)
(* registers the wait of a new generation and parks the Run; replies and   *)
(* timeout scans race to settle the wait and make the Run READY.           *)
(*                                                                         *)
(* One action is one transaction of WaitRepository or of its caller; the   *)
(* Case row it locks first serialises it with the others.                  *)
(***************************************************************************)
EXTENDS WaitTable

CONSTANTS MaxGeneration,   \* bound: waits the Run registers
          Lag              \* how far a caller's clock is off the database's

ASSUME WaitBoundAssumption == MaxGeneration \in Nat /\ Lag \in Nat

VARIABLES run,       \* the row of aftercare_runs
          bound,     \* its wait_generation, 0 for NULL
          waits,     \* aftercare_waits, by generation
          inbox,     \* aftercare_inbox
          wakeups,   \* aftercare_wait_wakeups: outcome by generation
          host,      \* the fence each host process believes it holds
          now        \* the database clock

vars == <<run, bound, waits, inbox, wakeups, host, now>>

Generations == 1..MaxGeneration

Open == {"PENDING", "ACTIVE"}

Parked(g) == run.state = "WAITING_INPUT" /\ bound = g

\* The instants a clock within Lag of the database's may show.
Clock == {t \in Instant : now - Lag <= t /\ t <= now + Lag}

-----------------------------------------------------------------------------
(* What every settling transaction does once it holds the locks, given the *)
(* wait row and the inbox it sees.                                         *)

\* Mutant of Wake: the Run keeps its wait binding.
WakeStillBound(g, wait, signals) ==
  /\ waits' = [waits EXCEPT ![g] = Settled(wait, g, signals, now)]
  /\ wakeups' = [wakeups EXCEPT
                   ![g] = IF Replies(wait, g, signals, now) # {}
                            THEN "reply" ELSE "timeout"]
  /\ run' = Moved(run, "READY", 0)
  /\ bound' = g

Wake(g, wait, signals) ==
  /\ waits' = [waits EXCEPT ![g] = Settled(wait, g, signals, now)]
  /\ wakeups' = [wakeups EXCEPT
                   ![g] = IF Replies(wait, g, signals, now) # {}
                            THEN "reply" ELSE "timeout"]
  /\ run' = Moved(run, "READY", 0)
  /\ bound' = 0

Stay(g, wait) ==
  /\ waits' = [waits EXCEPT ![g] = wait]
  /\ UNCHANGED <<wakeups, run, bound>>

Settle(g, wait, signals) ==
  IF Over(wait, g, signals, now) THEN Wake(g, wait, signals) ELSE Stay(g, wait)

-----------------------------------------------------------------------------
(* The host processes.                                                     *)

Claim(h) ==
  /\ host[h] = 0
  /\ Claimable(run)
  /\ run' = Claimed(run, h)
  /\ host' = [host EXCEPT ![h] = run.token + 1]
  /\ UNCHANGED <<bound, waits, inbox, wakeups, now>>

\* register() under the fence, then transition(): the wait of a generation
\* that is already there belongs to an earlier parking and is a CONFLICT.
Park(h, g, created) ==
  /\ host[h] # 0
  /\ HoldsLease(run, h, host[h])
  /\ waits[g].state = "absent"
  /\ waits' = [waits EXCEPT ![g] = NewWait(created)]
  /\ run' = Moved(run, "WAITING_INPUT", 0)
  /\ bound' = g
  /\ host' = [host EXCEPT ![h] = 0]
  /\ UNCHANGED <<inbox, wakeups, now>>

\* The same transaction when it activates the wait as well: a reply that
\* came first settles it at once.
ParkActive(h, g, created) ==
  LET wait == Activated(NewWait(created))
  IN  /\ host[h] # 0
      /\ HoldsLease(run, h, host[h])
      /\ waits[g].state = "absent"
      /\ host' = [host EXCEPT ![h] = 0]
      /\ UNCHANGED <<inbox, now>>
      /\ IF Over(wait, g, inbox, now)
           THEN Wake(g, wait, inbox)
           ELSE /\ waits' = [waits EXCEPT ![g] = wait]
                /\ run' = Moved(run, "WAITING_INPUT", 0)
                /\ bound' = g
                /\ UNCHANGED wakeups

Finish(h) ==
  /\ host[h] # 0
  /\ HoldsLease(run, h, host[h])
  /\ run' = Moved(run, "COMPLETED", 0)
  /\ host' = [host EXCEPT ![h] = 0]
  /\ UNCHANGED <<bound, waits, inbox, wakeups, now>>

\* The host dies, or its fenced transaction is refused with LEASE_LOST.
Abandon(h) ==
  /\ host[h] # 0
  /\ host' = [host EXCEPT ![h] = 0]
  /\ UNCHANGED <<run, bound, waits, inbox, wakeups, now>>

-----------------------------------------------------------------------------
(* The settling side.                                                      *)

\* Mutant of activate: the committed inbox is not looked at.
activateOnly(g) ==
  /\ Parked(g)
  /\ waits[g].state \in Open
  /\ Stay(g, Activated(waits[g]))
  /\ UNCHANGED <<inbox, host, now>>

activate(g) ==
  /\ Parked(g)
  /\ waits[g].state \in Open
  /\ Settle(g, Activated(waits[g]), inbox)
  /\ UNCHANGED <<inbox, host, now>>

\* The signal is stored or recognised as an exact replay; a changed replay is
\* refused.
receive_inbox(s) ==
  /\ s \in inbox \/ \A t \in inbox : t.id # s.id
  /\ inbox' = inbox \cup {s}

\* Mutant of Receive: a late reply wakes the Run whatever its wait's state.
ReceiveLate(s) ==
  /\ receive_inbox(s)
  /\ IF waits[s.generation].state # "absent"
       THEN Wake(s.generation, waits[s.generation], inbox')
       ELSE UNCHANGED <<run, bound, waits, wakeups>>
  /\ UNCHANGED <<host, now>>

\* receive_and_resolve(): the signal settles only the wait the Run is parked on.
Receive(s) ==
  /\ receive_inbox(s)
  /\ IF Parked(s.generation)
       THEN Settle(s.generation, waits[s.generation], inbox')
       ELSE UNCHANGED <<run, bound, waits, wakeups>>
  /\ UNCHANGED <<host, now>>

resolve_timeout(g) ==
  /\ Parked(g)
  /\ Settle(g, waits[g], inbox)
  /\ UNCHANGED <<inbox, host, now>>

Tick ==
  /\ now < MaxInstant
  /\ now' = now + 1
  /\ run' = RunAfter(run, 1)
  /\ UNCHANGED <<bound, waits, inbox, wakeups, host>>

-----------------------------------------------------------------------------
Init ==
  /\ run = NewRun
  /\ bound = 0
  /\ waits = [g \in Generations |-> NoWait]
  /\ inbox = {}
  /\ wakeups = [g \in Generations |-> "none"]
  /\ host = [h \in Owners |-> 0]
  /\ now = 0

\* Bound: a wait is registered only if the model's time reaches its deadline.
Registrable == {t \in Clock : t + WaitLength <= MaxInstant}

NewSignal(id, g, fits, t) ==
  [id |-> id, generation |-> g, fits |-> fits, received |-> t,
   ahead |-> t > now]

HostStep(h) ==
  \/ Claim(h)
  \/ \E g \in Generations, t \in Registrable : Park(h, g, t)
  \/ \E g \in Generations, t \in Registrable : ParkActive(h, g, t)
  \/ Finish(h)
  \/ Abandon(h)

Next ==
  \/ \E h \in Owners : HostStep(h)
  \/ \E g \in Generations : activate(g)
  \/ \E id \in 1..MaxSignal, g \in Generations, fits \in BOOLEAN, t \in Clock :
       Receive(NewSignal(id, g, fits, t))
  \/ \E s \in inbox : Receive(s)
  \/ \E g \in Generations : resolve_timeout(g)
  \/ Tick

Spec == Init /\ [][Next]_vars

-----------------------------------------------------------------------------
(* Properties.                                                             *)

\* Every column and every in-memory fence stays within its type.
WaitsTypeOK ==
  /\ run \in RunRow
  /\ bound \in 0..MaxGeneration
  /\ waits \in [Generations -> WaitRow]
  /\ inbox \subseteq Signal
  /\ wakeups \in [Generations -> {"none", "reply", "timeout"}]
  /\ host \in [Owners -> Nat]
  /\ now \in Instant

\* A parked Run can always be woken: it is bound to a wait that is still
\* open, and no open wait is left behind by a Run that went on (register,
\* transition and _settle_if_ready keep Run row and wait row together).
ParkedIsOpen ==
  /\ run.state = "WAITING_INPUT" <=> bound # 0
  /\ \A g \in Generations : waits[g].state \in Open <=> bound = g

\* Wait row, wakeup row and inbox agree on how each wait ended: a SATISFIED
\* wait has a reply wakeup and was won by a stored signal of its own
\* generation received after its registration, a TIMED_OUT one has a timeout
\* wakeup and no winner (_settle_if_ready).
WakeupMatchesWait ==
  \A g \in Generations :
    /\ wakeups[g] = "reply" <=> waits[g].state = "SATISFIED"
    /\ wakeups[g] = "timeout" <=> waits[g].state = "TIMED_OUT"
    /\ IF waits[g].state = "SATISFIED"
         THEN \E s \in inbox : /\ s.id = waits[g].winner
                               /\ matches_wait(g, s)
                               /\ waits[g].created <= s.received
         ELSE waits[g].winner = 0

\* No reply is lost between registration and activation, nor between storing
\* it and settling: while a wait is ACTIVE every eligible reply in the inbox
\* is one whose received_at lay in the future when it was stored (activate
\* and receive_and_resolve both look at the inbox under the locks).
NoLostReply ==
  \A g \in Generations :
    waits[g].state = "ACTIVE" =>
      \A s \in Replies(waits[g], g, inbox, now) : s.ahead

\* A wait wakes its Run once: an ended wait and its wakeup never change, so a
\* late or replayed reply of an old generation revives nothing, and a Run
\* loses its binding only in the step that writes the wakeup of that wait.
WakesOnce ==
  [][/\ \A g \in Generations : wakeups[g] # "none" =>
          wakeups'[g] = wakeups[g] /\ waits'[g] = waits[g]
     /\ (bound # 0 /\ bound' # bound) =>
          /\ wakeups[bound] = "none" /\ wakeups'[bound] # "none"
          /\ run'.state = "READY"]_vars
=============================================================================
