-------------------------------- MODULE Sandbox --------------------------------
(***************************************************************************)
(* One tool step inside a leased sandbox: the executor of a worker         *)
(* allocates by an idempotent key, starts, asks the connector, publishes   *)
(* the answer in the sandbox, stores it by its digest, records it as       *)
(* evidence and releases in two phases.  Workers share the provider; each  *)
(* provider call is one step under its lock, and a worker may crash        *)
(* between any two.  The provider gives an allocation one fencing token,   *)
(* so the owner, which is part of the key, is the fence.  The provider is   *)
(* the shared service its port describes; its calls are the ones of        *)
(* FakeSandboxProvider, the provider the wiring builds.                    *)
(***************************************************************************)
EXTENDS Integers, FiniteSets

CONSTANTS Executors, Steps,
          Contents,     \* answers a connector may give for a step
          NoContent,
          Capacity,
          SandboxLease,
          MaxKeys,      \* MAX_KEY_ATTEMPTS
          MaxSbTime,      \* bound: clock
          MaxExecCrashes    \* bound: crashes

ASSUME SandboxAssumption ==
  /\ Capacity \in Nat \ {0} /\ SandboxLease \in Nat \ {0} /\ MaxKeys \in Nat \ {0}
  /\ MaxSbTime \in Nat /\ MaxExecCrashes \in Nat /\ NoContent \notin Contents
  /\ Steps # {}

VARIABLES alloc,      \* the provider's allocations, by request key
          artifacts,  \* what each sandbox holds
          store,      \* the artifact store: contents, by step
          done,       \* steps recorded in a checkpoint, with their content
          execs,      \* where each worker's executor is
          orphans,    \* keys a crashed worker was using
          sbNow, execCrashes

sbVars == <<alloc, artifacts, store, done, execs, orphans, sbNow, execCrashes>>

Keys == Executors \X Steps \X (1..MaxKeys)
States == {"NONE", "READY", "RUNNING", "DESTROY_REQUESTED", "DESTROYED"}
Allocation == [state : States, until : 0..(MaxSbTime + SandboxLease)]
NoAllocation == [state |-> "NONE", until |-> 0]

Exec == [pc : {"idle", "create", "begin", "answer", "publish", "store", "release",
               "confirm", "record"},
         step : Steps, n : 1..MaxKeys, content : Contents \cup {NoContent},
         failed : BOOLEAN]

KeyOf(w) == <<w, execs[w].step, execs[w].n>>

-----------------------------------------------------------------------------
(* The provider.                                                           *)

\* Mutant of Live: an allocation waiting to be destroyed is not counted.
LiveUnlessRequested == {k \in Keys : alloc[k].state \in {"READY", "RUNNING"}}

Live == {k \in Keys : alloc[k].state \notin {"NONE", "DESTROYED"}}

\* _require_current; the key names the owner.
Current(k) == alloc[k].until > sbNow \/ alloc[k].state = "DESTROYED"

Startable(k) == Current(k) /\ alloc[k].state \in {"READY", "RUNNING"}

\* put_artifact: one content under the name of the call.
Writable(k, c) ==
  /\ Current(k) /\ alloc[k].state \in {"READY", "RUNNING"}
  /\ artifacts[k] \in {NoContent, c}

-----------------------------------------------------------------------------
(* The executor.                                                           *)

IdleExec == [pc |-> "idle", step |-> CHOOSE s \in Steps : TRUE, n |-> 1,
         content |-> NoContent, failed |-> FALSE]

At(w, pc) ==
  execs' = [execs EXCEPT ![w] = IF pc = "idle" THEN IdleExec
                                               ELSE [@ EXCEPT !.pc = pc]]
GiveBack(w) == execs' = [execs EXCEPT ![w] = [@ EXCEPT !.pc = "release", !.failed = TRUE]]

\* execute: a worker runs a step its checkpoint does not hold yet.
Execute(w, s) ==
  /\ execs[w].pc = "idle" /\ \A d \in done : d.step # s
  /\ execs' = [execs EXCEPT ![w] = [pc |-> "create", step |-> s, n |-> 1,
                                    content |-> NoContent, failed |-> FALSE]]
  /\ UNCHANGED <<alloc, artifacts, store, done, orphans, sbNow, execCrashes>>

\* _acquire and the provider's create: an existing allocation is returned, a
\* destroyed one is passed over for the next key.
Create(w) ==
  LET k == KeyOf(w) IN
  /\ execs[w].pc = "create"
  /\ \/ /\ alloc[k].state = "DESTROYED" /\ execs[w].n < MaxKeys
        /\ execs' = [execs EXCEPT ![w].n = @ + 1]
        /\ UNCHANGED alloc
     \/ /\ alloc[k].state = "DESTROYED" /\ execs[w].n = MaxKeys
        /\ At(w, "idle") /\ UNCHANGED alloc
     \/ k \in Live /\ At(w, "begin") /\ UNCHANGED alloc
     \/ /\ alloc[k].state = "NONE" /\ Cardinality(Live) < Capacity
        /\ alloc' = [alloc EXCEPT ![k] = [state |-> "READY", until |-> sbNow + SandboxLease]]
        /\ At(w, "begin")
     \/ /\ alloc[k].state = "NONE" /\ Cardinality(Live) >= Capacity
        /\ At(w, "idle")
        /\ UNCHANGED alloc
  /\ UNCHANGED <<artifacts, store, done, orphans, sbNow, execCrashes>>

Begin(w) ==
  LET k == KeyOf(w) IN
  /\ execs[w].pc = "begin"
  /\ \/ /\ Startable(k)
        /\ alloc' = [alloc EXCEPT ![k].state = "RUNNING"]
        /\ At(w, "answer")
     \/ ~ Startable(k) /\ GiveBack(w) /\ UNCHANGED alloc
  /\ UNCHANGED <<artifacts, store, done, orphans, sbNow, execCrashes>>

\* _answer: what the connector says, or a refusal, an error, too long a result.
Answer(w, c) ==
  /\ execs[w].pc = "answer"
  /\ IF c = NoContent THEN GiveBack(w)
     ELSE execs' = [execs EXCEPT ![w] = [@ EXCEPT !.pc = "publish", !.content = c]]
  /\ UNCHANGED <<alloc, artifacts, store, done, orphans, sbNow, execCrashes>>

Publish(w) ==
  LET k == KeyOf(w)  c == execs[w].content IN
  /\ execs[w].pc = "publish"
  /\ \/ Writable(k, c) /\ artifacts' = [artifacts EXCEPT ![k] = c] /\ At(w, "store")
     \/ ~ Writable(k, c) /\ GiveBack(w) /\ UNCHANGED artifacts
  /\ UNCHANGED <<alloc, store, done, orphans, sbNow, execCrashes>>

\* The answer is stored by its digest and handed to the observer; the store may
\* refuse its size, the observer the evidence.
StoreAndObserve(w, stored, observed) ==
  /\ execs[w].pc = "store"
  /\ store' = IF stored THEN [store EXCEPT ![execs[w].step] = @ \cup {execs[w].content}]
              ELSE store
  /\ IF stored /\ observed THEN At(w, "release") ELSE GiveBack(w)
  /\ UNCHANGED <<alloc, artifacts, done, orphans, sbNow, execCrashes>>

\* request_release: refused once the lease is over.
RequestRelease(w) ==
  LET k == KeyOf(w) IN
  /\ execs[w].pc = "release"
  /\ \/ /\ Current(k)
        /\ alloc' = [alloc EXCEPT ![k].state =
             IF @ = "DESTROYED" THEN @ ELSE "DESTROY_REQUESTED"]
        /\ At(w, "confirm")
     \/ ~ Current(k) /\ At(w, "idle") /\ UNCHANGED alloc
  /\ UNCHANGED <<artifacts, store, done, orphans, sbNow, execCrashes>>

\* Mutant of Confirmed: a failed step asks for the release and leaves.
ConfirmedOnSuccess(w) ==
  IF execs[w].failed THEN alloc[KeyOf(w)].state ELSE "DESTROYED"

\* confirm_destroy of what was requested.
Confirmed(w) == "DESTROYED"

ConfirmRelease(w) ==
  /\ execs[w].pc = "confirm"
  /\ alloc' = [alloc EXCEPT ![KeyOf(w)].state = Confirmed(w)]
  /\ At(w, IF execs[w].failed THEN "idle" ELSE "record")
  /\ UNCHANGED <<artifacts, store, done, orphans, sbNow, execCrashes>>

\* Mutant of Result: the connector is asked again for what is recorded.
ResultAskedAgain(w) ==
  [step |-> execs[w].step, content |-> CHOOSE c \in Contents : c # execs[w].content]

Result(w) == [step |-> execs[w].step, content |-> execs[w].content]

\* The caller saves the reference in its checkpoint.
RecordStep(w) ==
  /\ execs[w].pc = "record"
  /\ done' = IF \E d \in done : d.step = execs[w].step THEN done ELSE done \cup {Result(w)}
  /\ At(w, "idle")
  /\ UNCHANGED <<alloc, artifacts, store, orphans, sbNow, execCrashes>>

SbCrash(w) ==
  /\ execs[w].pc # "idle" /\ execCrashes < MaxExecCrashes
  /\ execCrashes' = execCrashes + 1
  /\ orphans' = orphans \cup {KeyOf(w)}
  /\ At(w, "idle")
  /\ UNCHANGED <<alloc, artifacts, store, done, sbNow>>

Swept(k) ==
  IF alloc[k].state \in {"READY", "RUNNING"} /\ alloc[k].until <= sbNow
    THEN [alloc[k] EXCEPT !.state = "DESTROY_REQUESTED"] ELSE alloc[k]

\* sweep over the provider's reconcile
Sweep ==
  /\ alloc' = [k \in Keys |-> Swept(k)]
  /\ alloc' # alloc
  /\ UNCHANGED <<artifacts, store, done, execs, orphans, sbNow, execCrashes>>

SbTick ==
  /\ sbNow < MaxSbTime
  /\ sbNow' = sbNow + 1
  /\ UNCHANGED <<alloc, artifacts, store, done, execs, orphans, execCrashes>>

-----------------------------------------------------------------------------

SbInit ==
  /\ alloc = [k \in Keys |-> NoAllocation]
  /\ artifacts = [k \in Keys |-> NoContent]
  /\ store = [s \in Steps |-> {}]
  /\ done = {} /\ orphans = {} /\ sbNow = 0 /\ execCrashes = 0
  /\ execs = [w \in Executors |-> IdleExec]

ExecutorStep(w) ==
  \/ Create(w) \/ Begin(w) \/ Publish(w) \/ RequestRelease(w) \/ ConfirmRelease(w)
  \/ RecordStep(w)
  \/ \E c \in Contents \cup {NoContent} : Answer(w, c)
  \/ \E stored, observed \in BOOLEAN : StoreAndObserve(w, stored, observed)

SbNext ==
  \/ \E w \in Executors : ExecutorStep(w) \/ SbCrash(w) \/ \E s \in Steps : Execute(w, s)
  \/ Sweep \/ SbTick

SbSpec == SbInit /\ [][SbNext]_sbVars

-----------------------------------------------------------------------------
(* Properties.                                                             *)

\* Types; an allocation that never was holds nothing.
SbTypeOK ==
  /\ alloc \in [Keys -> Allocation]
  /\ artifacts \in [Keys -> Contents \cup {NoContent}]
  /\ store \in [Steps -> SUBSET Contents] /\ execs \in [Executors -> Exec]
  /\ \A k \in Keys : alloc[k].state = "NONE" => artifacts[k] = NoContent /\ alloc[k].until = 0

\* Capacity is neither exceeded nor lost: the sandboxes that may still exist,
\* those asked to go included, fit it; and while its lease lasts an allocation
\* that is neither destroyed nor in use belonged to a worker that crashed, so
\* every failure path gave its own back.
CapacityHeld ==
  /\ Cardinality({k \in Keys :
       alloc[k].state \in {"READY", "RUNNING", "DESTROY_REQUESTED"}}) <= Capacity
  /\ \A k \in Live : alloc[k].until > sbNow =>
       k \in orphans \/ \E w \in Executors : KeyOf(w) = k /\ execs[w].pc # "idle"

\* What a checkpoint records is stored, and was published by a sandbox of that
\* step that has been confirmed destroyed.
RecordedIsAttributable ==
  \A d \in done :
    /\ d.content \in store[d.step]
    /\ \E k \in Keys : k[2] = d.step /\ artifacts[k] = d.content
                         /\ alloc[k].state = "DESTROYED"

\* A broken connector cannot leak capacity: whichever call of a step fails, its
\* sandbox is destroyed in the end, unless the worker crashes or the lease runs
\* out first.  Then the sandbox stays reserved, swept or not.
GivenBack ==
  \A k \in Keys :
    k \in Live ~> \/ alloc[k].state = "DESTROYED"
                  \/ k \in orphans \/ alloc[k].until <= sbNow

-----------------------------------------------------------------------------
(* What the documentation says and the code does not do.                   *)

\* "an unconfirmed sandbox is reclaimed by the lease sweep anyway"
\* (sandbox_executor.py 232-233): what the sweep has been over no longer counts.
SweepReclaims ==
  [][Sweep => \A k \in Keys : alloc[k].until <= sbNow => (k \notin Live)']_sbVars
=============================================================================
