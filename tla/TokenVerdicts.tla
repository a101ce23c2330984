------------------------------ MODULE TokenVerdicts ------------------------------
(***************************************************************************)
(* The introspection verdicts CachedIntrospector keeps, on the request     *)
(* threads of one API process, and what TokenAccessGuard makes of them.    *)
(* The lookup and the store each take the cache's lock; the issuer is      *)
(* asked between them, without it, so verdicts asked for concurrently are  *)
(* stored in the order in which they arrive.  One clock stands for the     *)
(* wall clock and the monotonic one.                                       *)
(***************************************************************************)
EXTENDS Integers, FiniteSets

CONSTANTS Callers, Bearers,
          Expiry,           \* when each token expires
          Ttl, MaxEntries,  \* cache_seconds, max_cache_entries
          CallTimeout,      \* request_timeout_seconds
          ClockSkew,        \* clock_skew_seconds
          MaxClock          \* bound: clock

ASSUME TokenVerdictsAssumption ==
  /\ {Ttl, MaxEntries, CallTimeout} \subseteq Nat \ {0} /\ {ClockSkew, MaxClock} \subseteq Nat
  /\ Expiry \in [Bearers -> Nat] /\ Bearers # {}

VARIABLES revokedAt,   \* when the issuer revoked a token; NotRevoked if it has not
          verdicts,    \* the cache: what the dictionary holds for each token
          calls,       \* what each thread is doing
          tvNow

tvVars == <<revokedAt, verdicts, calls, tvNow>>

NotRevoked == MaxClock + 1
Clock == 0..MaxClock

\* An entry and its place in the dictionary's order; place 0: there is none.
\* A verdict is dated when it carries expires_at, which an issuer may leave out.
Entry == [place : Nat, active : BOOLEAN, dated : BOOLEAN, deadline : Nat]
NoEntry == [place |-> 0, active |-> FALSE, dated |-> FALSE, deadline |-> 0]
Call == [pc : {"idle", "cache", "call", "called", "accepted"},
         token : Bearers, start : Clock, asked : Clock, active : BOOLEAN, dated : BOOLEAN]
IdleCall == [pc |-> "idle", token |-> CHOOSE t \in Bearers : TRUE, start |-> 0, asked |-> 0,
             active |-> FALSE, dated |-> FALSE]

-----------------------------------------------------------------------------

\* verify() lets the token pass, as to its age.
Unexpired(t) == tvNow < Expiry[t] + ClockSkew

\* authorize, once verify() has let the token pass; the clock was read once.
Authorize(c, t) ==
  /\ calls[c].pc \in {"idle", "accepted"}
  /\ Unexpired(t)
  /\ calls' = [calls EXCEPT ![c] =
                 [IdleCall EXCEPT !.pc = "cache", !.token = t, !.start = tvNow]]
  /\ UNCHANGED <<revokedAt, verdicts, tvNow>>

\* The verdict says so itself: it carries an expiry the request did not begin before.
Over(c, dated) == dated /\ Expiry[calls[c].token] <= calls[c].start

Trusted(c, active, dated) == active /\ ~Over(c, dated)

\* The guard's decision on the verdict it was given; a refused caller is free again.
Decided(c, active, dated) ==
  calls' = [calls EXCEPT ![c] =
    IF Trusted(c, active, dated)
      THEN [@ EXCEPT !.pc = "accepted", !.asked = 0, !.active = FALSE, !.dated = dated]
      ELSE IdleCall]

\* Mutant of Usable: a cached verdict is used whatever its age.
UsableAlways(e) == TRUE

Usable(e) == tvNow < e.deadline

\* The tokens with an entry, and the dictionary left with the entries of S.
Cached(cache) == {t \in Bearers : cache[t].place > 0}
Only(S) ==
  [t \in Bearers |->
     IF t \in S
       THEN [place |-> Cardinality({s \in S : verdicts[s].place <= verdicts[t].place}),
             active |-> verdicts[t].active, dated |-> verdicts[t].dated,
             deadline |-> verdicts[t].deadline]
       ELSE NoEntry]

Hit(t) == t \in Cached(verdicts) /\ Usable(verdicts[t])

\* The lookup: a hit, or the dead entry goes and the issuer is asked.
Introspect(c) ==
  LET t == calls[c].token IN
  /\ calls[c].pc = "cache"
  /\ \/ Hit(t) /\ Decided(c, verdicts[t].active, verdicts[t].dated) /\ UNCHANGED verdicts
     \/ /\ ~Hit(t)
        /\ verdicts' = Only(Cached(verdicts) \ {t})
        /\ calls' = [calls EXCEPT ![c].pc = "call", ![c].asked = tvNow]
  /\ UNCHANGED <<revokedAt, tvNow>>

\* parse_verdict: an active verdict may carry the expiry, an inactive one has none.
Parsed(active, dated) == dated => active

\* The issuer's answer is taken: active, if neither revoked nor expired on its
\* clock, which may lag.
IssuerVerdict(c, lag, dated) ==
  LET t == calls[c].token
      active == revokedAt[t] = NotRevoked /\ tvNow < Expiry[t] + lag
  IN  /\ calls[c].pc = "call" /\ Parsed(active, dated)
      /\ calls' = [calls EXCEPT ![c].pc = "called", ![c].active = active, ![c].dated = dated]
      /\ UNCHANGED <<revokedAt, verdicts, tvNow>>

\* _evict: dead entries go, then the oldest while the cache is full.
Evicted ==
  LET alive == {t \in Cached(verdicts) : verdicts[t].deadline > tvNow}
      upward(t) == {s \in alive : verdicts[s].place >= verdicts[t].place}
  IN  Only({t \in alive : Cardinality(upward(t)) <= MaxEntries - 1})

Room == IF Cardinality(Cached(verdicts)) >= MaxEntries THEN Evicted ELSE verdicts

\* A dictionary: an entry written again keeps its place.
Put(cache, t, a, e, d) ==
  [cache EXCEPT ![t] =
     [place |-> IF t \in Cached(cache) THEN cache[t].place
                                       ELSE Cardinality(Cached(cache)) + 1,
      active |-> a, dated |-> e, deadline |-> d]]

\* The answer arrives, is kept unless it was over at the start, and decides.
VerdictArrives(c) ==
  LET t == calls[c].token IN
  /\ calls[c].pc = "called"
  /\ verdicts' = IF Over(c, calls[c].dated) THEN verdicts
                 ELSE Put(Room, t, calls[c].active, calls[c].dated, tvNow + Ttl)
  /\ Decided(c, calls[c].active, calls[c].dated)
  /\ UNCHANGED <<revokedAt, tvNow>>

\* Transport error, timeout or a malformed answer: refused, and nothing is kept.
VerdictFails(c) ==
  /\ calls[c].pc \in {"call", "called"}
  /\ calls' = [calls EXCEPT ![c] = IdleCall]
  /\ UNCHANGED <<revokedAt, verdicts, tvNow>>

RevokeToken(t) ==
  /\ revokedAt[t] = NotRevoked
  /\ revokedAt' = [revokedAt EXCEPT ![t] = tvNow]
  /\ UNCHANGED <<verdicts, calls, tvNow>>

\* A call that is out for CallTimeout is over before time goes on, and a caller
\* that was accepted has left the guard.
TvTick ==
  /\ tvNow < MaxClock
  /\ \A c \in Callers :
       calls[c].pc \in {"call", "called"} => tvNow < calls[c].asked + CallTimeout
  /\ tvNow' = tvNow + 1
  /\ calls' = [c \in Callers |-> IF calls[c].pc = "accepted" THEN IdleCall ELSE calls[c]]
  /\ UNCHANGED <<revokedAt, verdicts>>

TvInit ==
  /\ revokedAt = [t \in Bearers |-> NotRevoked] /\ verdicts = [t \in Bearers |-> NoEntry]
  /\ calls = [c \in Callers |-> IdleCall] /\ tvNow = 0

TvNext ==
  \/ \E c \in Callers :
       \/ Introspect(c) \/ VerdictArrives(c) \/ VerdictFails(c)
       \/ \E t \in Bearers : Authorize(c, t)
       \/ \E lag \in 0..ClockSkew, dated \in BOOLEAN : IssuerVerdict(c, lag, dated)
  \/ (\E t \in Bearers : RevokeToken(t)) \/ TvTick

TvSpec == TvInit /\ [][TvNext]_tvVars

-----------------------------------------------------------------------------
(* Properties.                                                             *)

\* Types; the cache keeps its bound, and its entries are in an order.
TvTypeOK ==
  /\ revokedAt \in [Bearers -> 0..NotRevoked] /\ calls \in [Callers -> Call]
  /\ verdicts \in [Bearers -> Entry] /\ Cardinality(Cached(verdicts)) <= MaxEntries
  /\ \A s, t \in Cached(verdicts) : verdicts[s].place = verdicts[t].place => s = t

\* A revoked token is accepted no later than one cache life and one call after
\* its revocation, whatever the order in which concurrent verdicts arrive.  An
\* expired one is accepted only on a verdict without expires_at, cached or not,
\* and then within the clock skew of verify(), as of the start of the request.
TrustEnds ==
  \A c \in Callers : calls[c].pc = "accepted" =>
    /\ revokedAt[calls[c].token] > tvNow - (Ttl + CallTimeout)
    /\ calls[c].start < Expiry[calls[c].token] + (IF calls[c].dated THEN 0 ELSE ClockSkew)

-----------------------------------------------------------------------------
(* What the documentation says and the code does not do.                   *)

\* CachedIntrospector: a verdict is never cached beyond the token's own expiry.
CachedWithinExpiry ==
  \A t \in Cached(verdicts) : verdicts[t].dated => verdicts[t].deadline <= Expiry[t]
=============================================================================
