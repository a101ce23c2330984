--------------------------- MODULE DispatchProofs ---------------------------
(***************************************************************************)
(* Proofs about TokenVerdicts, for any bearers, callers, cache life and    *)
(* call timeout: trust in a token ends; and about Dispatch, for any        *)
(* tenants, Runs and pollers: no tenant starves.                           *)
(***************************************************************************)
EXTENDS TokenVerdicts, Dispatch, TLAPS

-----------------------------------------------------------------------------
(* TokenVerdicts: trust in a token ends.                                   *)

\* What an entry may still claim, and what a call may still bring.
EntryTrust(t, e) ==
  /\ e.active \in BOOLEAN /\ e.dated \in BOOLEAN
  /\ e.deadline \in Nat /\ e.deadline <= tvNow + Ttl
  /\ e.active => e.deadline <= revokedAt[t] + (Ttl + CallTimeout)

CallTrust(q) ==
  /\ q \in Call
  /\ q.pc \in {"call", "called"} => q.asked <= tvNow /\ tvNow <= q.asked + CallTimeout
  /\ q.pc = "called" /\ q.active => q.asked <= revokedAt[q.token]
  /\ q.pc # "idle" => q.start < Expiry[q.token] + ClockSkew
  /\ q.pc = "accepted" => /\ revokedAt[q.token] > tvNow - (Ttl + CallTimeout)
                          /\ q.dated => q.start < Expiry[q.token]

TvInv ==
  /\ tvNow \in Clock /\ revokedAt \in [Bearers -> 0..NotRevoked]
  /\ DOMAIN verdicts = Bearers /\ \A t \in Bearers : EntryTrust(t, verdicts[t])
  /\ DOMAIN calls = Callers /\ \A c \in Callers : CallTrust(calls[c])

LEMMA TvConstants ==
  /\ Ttl \in Nat /\ Ttl > 0 /\ CallTimeout \in Nat /\ CallTimeout > 0 /\ MaxClock \in Nat
  /\ NotRevoked \in Nat /\ NotRevoked = MaxClock + 1 /\ Clock = 0..MaxClock
  /\ Expiry \in [Bearers -> Nat] /\ ClockSkew \in Nat
BY TokenVerdictsAssumption DEF NotRevoked, Clock

LEMMA IdleCallTyped ==
  /\ IdleCall \in Call /\ IdleCall.pc = "idle"
  /\ \A t \in Bearers, n \in Clock :
       [IdleCall EXCEPT !.pc = "cache", !.token = t, !.start = n] \in Call
<1>1. (CHOOSE t \in Bearers : TRUE) \in Bearers
  BY TokenVerdictsAssumption
<1>2. 0 \in Clock
  BY TvConstants
<1> QED  BY <1>1, <1>2, Zenon DEF IdleCall, Call

LEMMA IdleCallTrusts == CallTrust(IdleCall)
BY IdleCallTyped, Zenon DEF CallTrust

\* A step of one thread, which leaves the clock and the issuer alone.
LEMMA OneCall ==
  ASSUME TvInv, NEW c \in Callers, NEW q, CallTrust(q),
         calls' = [calls EXCEPT ![c] = q], UNCHANGED <<revokedAt, tvNow>>,
         DOMAIN verdicts' = Bearers, \A t \in Bearers : EntryTrust(t, verdicts'[t])
  PROVE  TvInv'
<1>1. DOMAIN calls' = Callers /\ \A d \in Callers : calls'[d] = IF d = c THEN q ELSE calls[d]
  BY DEF TvInv
<1>2. \A d \in Callers : CallTrust(calls[d])'
  BY <1>1 DEF TvInv, CallTrust
<1>3. \A t \in Bearers : EntryTrust(t, verdicts[t])'
  BY DEF EntryTrust
<1> QED  BY <1>1, <1>2, <1>3 DEF TvInv

\* The decision on a verdict: an acceptance keeps to what the verdict vouches for.
LEMMA DecisionTrusts ==
  ASSUME TvInv, NEW c \in Callers, NEW a \in BOOLEAN, NEW e \in BOOLEAN, Decided(c, a, e),
         calls[c].pc # "idle",
         a => revokedAt[calls[c].token] > tvNow - (Ttl + CallTimeout)
  PROVE  \E q : CallTrust(q) /\ calls' = [calls EXCEPT ![c] = q]
<1>1. /\ calls[c] \in Call /\ tvNow \in Clock /\ 0 \in Clock
      /\ calls[c].start < Expiry[calls[c].token] + ClockSkew
  BY TvConstants DEF TvInv, CallTrust
<1>2. CASE Trusted(c, a, e)
  <2> DEFINE q == [calls[c] EXCEPT !.pc = "accepted", !.asked = 0, !.active = FALSE,
                                   !.dated = e]
  <2>1. calls' = [calls EXCEPT ![c] = q]
    BY <1>2 DEF Decided
  <2>2. /\ q \in Call /\ q.pc = "accepted" /\ q.dated = e
        /\ q.token = calls[c].token /\ q.start = calls[c].start
    BY <1>1, Zenon DEF Call
  <2>3. a /\ (e => calls[c].start < Expiry[calls[c].token])
    BY <1>1, <1>2, TvConstants DEF Trusted, Over, Call
  <2> HIDE DEF q
  <2>4. CallTrust(q)
    BY <2>2, <2>3, <1>1 DEF CallTrust
  <2> QED  BY <2>1, <2>4, Zenon
<1>3. CASE ~Trusted(c, a, e)
  <2>1. calls' = [calls EXCEPT ![c] = IdleCall]
    BY <1>3 DEF Decided
  <2> QED  BY <2>1, IdleCallTrusts, Zenon
<1> QED  BY <1>2, <1>3

LEMMA NoEntryTrusts ==
  ASSUME tvNow \in Clock, NEW t
  PROVE  EntryTrust(t, NoEntry)
<1>1. /\ NoEntry.active \in BOOLEAN /\ ~NoEntry.active /\ NoEntry.deadline = 0
      /\ NoEntry.dated \in BOOLEAN
  BY DEF NoEntry
<1>2. 0 \in Nat /\ 0 <= tvNow + Ttl
  BY TvConstants
<1> QED  BY <1>1, <1>2 DEF EntryTrust

\* What the dictionary keeps, it keeps as it was.
LEMMA OnlyTrusts ==
  ASSUME TvInv, NEW S
  PROVE  DOMAIN Only(S) = Bearers /\ \A t \in Bearers : EntryTrust(t, Only(S)[t])
<1>1. DOMAIN Only(S) = Bearers
  BY DEF Only
<1>2. ASSUME NEW t \in Bearers, t \in S
      PROVE  EntryTrust(t, Only(S)[t])
  <2>1. /\ Only(S)[t].active = verdicts[t].active /\ Only(S)[t].dated = verdicts[t].dated
        /\ Only(S)[t].deadline = verdicts[t].deadline
    BY <1>2 DEF Only
  <2> QED  BY <2>1 DEF TvInv, EntryTrust
<1>3. ASSUME NEW t \in Bearers, t \notin S
      PROVE  EntryTrust(t, Only(S)[t])
  <2>1. Only(S)[t] = NoEntry
    BY <1>3 DEF Only
  <2> QED  BY <2>1, NoEntryTrusts DEF TvInv
<1> QED  BY <1>1, <1>2, <1>3

LEMMA RoomTrusts ==
  ASSUME TvInv
  PROVE  DOMAIN Room = Bearers /\ \A t \in Bearers : EntryTrust(t, Room[t])
<1>1. DOMAIN Evicted = Bearers /\ \A t \in Bearers : EntryTrust(t, Evicted[t])
  BY OnlyTrusts DEF Evicted
<1> QED  BY <1>1 DEF Room, TvInv

LEMMA TvAuthorizeKeeps ==
  ASSUME TvInv, NEW c \in Callers, NEW t \in Bearers, Authorize(c, t)
  PROVE  TvInv'
<1> DEFINE q == [IdleCall EXCEPT !.pc = "cache", !.token = t, !.start = tvNow]
<1>1. calls' = [calls EXCEPT ![c] = q] /\ UNCHANGED <<revokedAt, verdicts, tvNow>>
  BY DEF Authorize
<1>2. q \in Call /\ q.pc = "cache" /\ q.token = t /\ q.start = tvNow
  BY IdleCallTyped, Zenon DEF IdleCall, TvInv
<1>3. tvNow < Expiry[t] + ClockSkew
  BY DEF Authorize, Unexpired
<1> HIDE DEF q
<1>4. CallTrust(q)
  BY <1>2, <1>3 DEF CallTrust
<1> QED  BY <1>1, <1>4, OneCall, Zenon DEF TvInv

LEMMA IntrospectKeeps ==
  ASSUME TvInv, NEW c \in Callers, Introspect(c)
  PROVE  TvInv'
<1> DEFINE t == calls[c].token
<1>1. /\ calls[c] \in Call /\ t \in Bearers /\ tvNow \in Clock
      /\ EntryTrust(t, verdicts[t]) /\ revokedAt[t] \in Nat
      /\ calls[c].pc = "cache" /\ calls[c].start < Expiry[t] + ClockSkew
  BY TvConstants DEF TvInv, CallTrust, Call, Introspect
<1>2. CASE Hit(t) /\ Decided(c, verdicts[t].active, verdicts[t].dated) /\ UNCHANGED verdicts
  <2>1. /\ tvNow < verdicts[t].deadline /\ verdicts[t].deadline \in Nat
        /\ verdicts[t].active \in BOOLEAN /\ verdicts[t].dated \in BOOLEAN
    BY <1>1, <1>2 DEF Hit, Usable, EntryTrust
  <2>2. verdicts[t].active => revokedAt[t] > tvNow - (Ttl + CallTimeout)
    BY <1>1, <2>1, TvConstants DEF EntryTrust
  <2>3. PICK q : CallTrust(q) /\ calls' = [calls EXCEPT ![c] = q]
    BY <1>1, <1>2, <2>1, <2>2, DecisionTrusts
  <2>4. UNCHANGED <<revokedAt, tvNow>>
    BY DEF Introspect
  <2> QED  BY <1>2, <2>3, <2>4, OneCall, Zenon DEF TvInv
<1>3. CASE /\ verdicts' = Only(Cached(verdicts) \ {t})
           /\ calls' = [calls EXCEPT ![c].pc = "call", ![c].asked = tvNow]
  <2> DEFINE q == [calls[c] EXCEPT !.pc = "call", !.asked = tvNow]
  <2>1. calls' = [calls EXCEPT ![c] = q]
    BY <1>3, Zenon DEF TvInv
  <2>2. /\ q \in Call /\ q.pc = "call" /\ q.asked = tvNow
        /\ q.token = t /\ q.start = calls[c].start
    BY <1>1, Zenon DEF Call
  <2> HIDE DEF q
  <2>3. CallTrust(q)
    BY <1>1, <2>2, TvConstants DEF CallTrust
  <2>4. DOMAIN verdicts' = Bearers /\ \A b \in Bearers : EntryTrust(b, verdicts'[b])
    BY <1>3, OnlyTrusts
  <2>5. UNCHANGED <<revokedAt, tvNow>>
    BY DEF Introspect
  <2> QED  BY <2>1, <2>3, <2>4, <2>5, OneCall, Zenon
<1> QED  BY <1>2, <1>3 DEF Introspect

LEMMA IssuerVerdictKeeps ==
  ASSUME TvInv, NEW c \in Callers, NEW lag \in 0..ClockSkew, NEW e \in BOOLEAN,
         IssuerVerdict(c, lag, e)
  PROVE  TvInv'
<1> DEFINE a == revokedAt[calls[c].token] = NotRevoked /\ tvNow < Expiry[calls[c].token] + lag
           q == [calls[c] EXCEPT !.pc = "called", !.active = a, !.dated = e]
<1>0. calls[c].pc = "call" /\ CallTrust(calls[c]) /\ tvNow \in Clock
  BY DEF TvInv, IssuerVerdict
<1>1. /\ calls[c] \in Call /\ tvNow \in Clock /\ calls[c].asked \in Clock
      /\ calls[c].asked <= tvNow /\ tvNow <= calls[c].asked + CallTimeout
      /\ calls[c].start < Expiry[calls[c].token] + ClockSkew
  BY <1>0 DEF CallTrust, Call
<1>2. calls' = [calls EXCEPT ![c] = q] /\ UNCHANGED <<revokedAt, verdicts, tvNow>>
  BY Zenon DEF IssuerVerdict, TvInv
<1>3. /\ q \in Call /\ q.pc = "called" /\ q.asked = calls[c].asked /\ q.token = calls[c].token
      /\ q.start = calls[c].start /\ (q.active <=> a)
  BY <1>1, Zenon DEF Call
<1>4. a => calls[c].asked <= revokedAt[calls[c].token]
  BY <1>1, TvConstants
<1> HIDE DEF q, a
<1>5. CallTrust(q)
  BY <1>1, <1>3, <1>4 DEF CallTrust
<1> QED  BY <1>2, <1>5, OneCall, Zenon DEF TvInv

LEMMA VerdictArrivesKeeps ==
  ASSUME TvInv, NEW c \in Callers, VerdictArrives(c)
  PROVE  TvInv'
<1> DEFINE t == calls[c].token
           a == calls[c].active
           e == calls[c].dated
<1>1. /\ calls[c] \in Call /\ t \in Bearers /\ a \in BOOLEAN /\ e \in BOOLEAN /\ tvNow \in Nat
      /\ calls[c].asked \in Nat /\ revokedAt[t] \in Nat
  BY TvConstants DEF TvInv, CallTrust, Call
<1>2. /\ calls[c].asked <= tvNow /\ tvNow <= calls[c].asked + CallTimeout
      /\ a => calls[c].asked <= revokedAt[t]
  BY DEF TvInv, CallTrust, VerdictArrives
<1>3. /\ a => revokedAt[t] > tvNow - (Ttl + CallTimeout)
      /\ a => tvNow + Ttl <= revokedAt[t] + (Ttl + CallTimeout)
      /\ tvNow + Ttl \in Nat
  BY <1>1, <1>2, TvConstants, SMTT(20)
<1>4. PICK q : CallTrust(q) /\ calls' = [calls EXCEPT ![c] = q]
  BY <1>1, <1>3, DecisionTrusts DEF VerdictArrives
<1>5. DOMAIN verdicts' = Bearers /\ \A b \in Bearers : EntryTrust(b, verdicts'[b])
  <2>1. CASE verdicts' = verdicts
    BY <2>1 DEF TvInv
  <2>2. CASE verdicts' = Put(Room, t, a, e, tvNow + Ttl)
    <3>1. PICK n : verdicts' = [Room EXCEPT ![t] = [place |-> n, active |-> a, dated |-> e,
                                                     deadline |-> tvNow + Ttl]]
      BY <2>2, Zenon DEF Put
    <3>2. /\ verdicts'[t].active = a /\ verdicts'[t].dated = e
          /\ verdicts'[t].deadline = tvNow + Ttl
          /\ DOMAIN verdicts' = Bearers /\ \A b \in Bearers \ {t} : verdicts'[b] = Room[b]
      BY <1>1, <3>1, RoomTrusts
    <3>3. EntryTrust(t, verdicts'[t])
      BY <1>1, <1>3, <3>2 DEF EntryTrust
    <3> QED  BY <3>2, <3>3, RoomTrusts
  <2> QED  BY <2>1, <2>2 DEF VerdictArrives
<1>6. UNCHANGED <<revokedAt, tvNow>>
  BY DEF VerdictArrives
<1> QED  BY <1>4, <1>5, <1>6, OneCall, Zenon

LEMMA VerdictFailsKeeps ==
  ASSUME TvInv, NEW c \in Callers, VerdictFails(c)
  PROVE  TvInv'
<1>1. calls' = [calls EXCEPT ![c] = IdleCall] /\ UNCHANGED <<revokedAt, verdicts, tvNow>>
  BY DEF VerdictFails
<1> QED  BY <1>1, IdleCallTrusts, OneCall, Zenon DEF TvInv

\* The issuer revokes: what was asked or cached until now is recent enough.
LEMMA RevokeTokenKeeps ==
  ASSUME TvInv, NEW t \in Bearers, RevokeToken(t)
  PROVE  TvInv'
<1>1. /\ revokedAt' = [revokedAt EXCEPT ![t] = tvNow] /\ verdicts' = verdicts
      /\ calls' = calls /\ tvNow' = tvNow /\ tvNow \in Nat /\ tvNow <= MaxClock
  BY TvConstants DEF RevokeToken, TvInv
<1>2. /\ revokedAt' \in [Bearers -> 0..NotRevoked] /\ revokedAt'[t] = tvNow
      /\ \A b \in Bearers : b # t => revokedAt'[b] = revokedAt[b]
  BY <1>1, TvConstants DEF TvInv
<1>3. ASSUME NEW b \in Bearers
      PROVE  EntryTrust(b, verdicts[b])'
  <2>1. EntryTrust(b, verdicts[b])
    BY DEF TvInv
  <2> QED  BY <1>1, <1>2, <2>1, TvConstants DEF EntryTrust
<1>4. ASSUME NEW c \in Callers
      PROVE  CallTrust(calls[c])'
  <2>1. CallTrust(calls[c]) /\ calls[c].token \in Bearers
        /\ calls[c].asked \in Nat
    BY TvConstants DEF TvInv, CallTrust, Call
  <2> QED  BY <1>1, <1>2, <2>1, TvConstants DEF CallTrust
<1> QED  BY <1>1, <1>2, <1>3, <1>4 DEF TvInv

LEMMA TvTickKeeps ==
  ASSUME TvInv, TvTick
  PROVE  TvInv'
<1>1. /\ tvNow' = tvNow + 1 /\ tvNow \in Nat /\ tvNow' \in Clock
      /\ revokedAt' = revokedAt /\ verdicts' = verdicts
      /\ calls' = [c \in Callers |-> IF calls[c].pc = "accepted" THEN IdleCall ELSE calls[c]]
  BY TvConstants DEF TvTick, TvInv
<1>2. ASSUME NEW b \in Bearers
      PROVE  EntryTrust(b, verdicts[b])'
  <2>1. EntryTrust(b, verdicts[b])
    BY DEF TvInv
  <2> QED  BY <1>1, <2>1, TvConstants DEF EntryTrust
<1>3. ASSUME NEW c \in Callers
      PROVE  CallTrust(calls[c])'
  <2>1. CallTrust(calls[c]) /\ calls[c].asked \in Nat
    BY TvConstants DEF TvInv, CallTrust, Call
  <2>2. calls[c].pc \in {"call", "called"} => tvNow < calls[c].asked + CallTimeout
    BY DEF TvTick
  <2>3. CASE calls[c].pc = "accepted"
    <3>1. calls'[c] = IdleCall
      BY <1>1, <2>3
    <3> QED  BY <3>1, IdleCallTyped, Zenon DEF CallTrust
  <2>4. CASE calls[c].pc # "accepted"
    <3>1. calls'[c] = calls[c]
      BY <1>1, <2>4
    <3> QED  BY <1>1, <2>1, <2>2, <2>4, <3>1, TvConstants DEF CallTrust
  <2> QED  BY <2>3, <2>4
<1> QED  BY <1>1, <1>2, <1>3 DEF TvInv

\* What a cached verdict or a call under way may still vouch for: a cached active
\* verdict is at most a cache life and a call younger than a revocation, and a
\* request under way began within verify()'s skew (authorize, introspect).
THEOREM VerdictInvariant == TvSpec => []TvInv
<1>1. TvInit => TvInv
  <2>1. SUFFICES ASSUME TvInit PROVE TvInv
    OBVIOUS
  <2>2. /\ tvNow \in Clock /\ tvNow = 0 /\ revokedAt \in [Bearers -> 0..NotRevoked]
        /\ DOMAIN verdicts = Bearers /\ DOMAIN calls = Callers
    BY <2>1, TvConstants DEF TvInit
  <2>3. \A t \in Bearers : EntryTrust(t, verdicts[t])
    BY <2>1, <2>2, NoEntryTrusts DEF TvInit
  <2>4. \A c \in Callers : CallTrust(calls[c])
    BY <2>1, IdleCallTyped, Zenon DEF TvInit, CallTrust
  <2> QED  BY <2>2, <2>3, <2>4 DEF TvInv
<1>2. TvInv /\ [TvNext]_tvVars => TvInv'
  <2>1. ASSUME TvInv, TvNext PROVE TvInv'
    BY <2>1, TvAuthorizeKeeps, IntrospectKeeps, IssuerVerdictKeeps, VerdictArrivesKeeps,
       VerdictFailsKeeps, RevokeTokenKeeps, TvTickKeeps DEF TvNext
  <2>2. ASSUME TvInv, UNCHANGED tvVars PROVE TvInv'
    <3>1. revokedAt' = revokedAt /\ verdicts' = verdicts /\ calls' = calls /\ tvNow' = tvNow
      BY <2>2 DEF tvVars
    <3> QED  BY <2>2, <3>1 DEF TvInv, EntryTrust, CallTrust
  <2> QED  BY <2>1, <2>2
<1> QED  BY <1>1, <1>2, PTL DEF TvSpec

\* A revoked token is accepted no later than one cache life and one call after
\* its revocation, and an expired one only on a verdict without expires_at and
\* within the clock skew, for any number of threads and tokens
\* (CachedIntrospector, TokenAccessGuard, verify()).
THEOREM TrustDoesEnd == TvSpec => []TrustEnds
<1>1. TvInv => TrustEnds
  <2>1. SUFFICES ASSUME TvInv, NEW c \in Callers, calls[c].pc = "accepted"
        PROVE  /\ revokedAt[calls[c].token] > tvNow - (Ttl + CallTimeout)
               /\ calls[c].start < Expiry[calls[c].token]
                                     + (IF calls[c].dated THEN 0 ELSE ClockSkew)
    BY DEF TrustEnds
  <2>2. /\ CallTrust(calls[c]) /\ calls[c].token \in Bearers /\ calls[c].start \in Nat
    BY <2>1, TvConstants DEF TvInv, CallTrust, Call
  <2> QED  BY <2>1, <2>2, TvConstants DEF CallTrust
<1> QED  BY <1>1, VerdictInvariant, PTL

-----------------------------------------------------------------------------
(* Dispatch: no tenant starves.                                            *)

NumberHolders == Tenants \cup Pollers

\* What the counting needs; proved at the end of the module.
HoldersCounted ==
  /\ \A S \in SUBSET NumberHolders : Cardinality(S) \in Nat
  /\ \A T \in SUBSET NumberHolders : \A S \in SUBSET T : Cardinality(S) <= Cardinality(T)
  /\ \A T \in SUBSET NumberHolders : \A x \in T : Cardinality(T \ {x}) < Cardinality(T)

\* Ranks are bounded, and ordered as what they rank.
LEMMA RankedOrder ==
  ASSUME HoldersCounted, NEW f \in [NumberHolders -> Nat]
  PROVE  /\ Ranked(f) \in [NumberHolders -> 0..Cardinality(NumberHolders)]
         /\ \A x, y \in NumberHolders : Ranked(f)[x] < Ranked(f)[y] <=> f[x] < f[y]
<1> DEFINE Below(x) == {z \in NumberHolders : 0 < f[z] /\ f[z] <= f[x]}
<1>1. \A x \in NumberHolders : Ranked(f)[x] = Cardinality(Below(x))
  BY DEF Ranked
<1>2. DOMAIN Ranked(f) = NumberHolders /\ Ranked(f) = [x \in NumberHolders |-> Ranked(f)[x]]
  BY DEF Ranked
<1>3. \A x \in NumberHolders : Below(x) \in SUBSET NumberHolders /\ f[x] \in Nat
  OBVIOUS
<1>4. \A x \in NumberHolders :
        /\ Cardinality(Below(x)) \in Nat
        /\ Cardinality(Below(x)) <= Cardinality(NumberHolders)
        /\ Cardinality(NumberHolders) \in Nat
  <2> HIDE DEF Below
  <2> QED  BY <1>3 DEF HoldersCounted
<1>5. ASSUME NEW x \in NumberHolders, NEW y \in NumberHolders, f[x] <= f[y]
      PROVE  Cardinality(Below(x)) <= Cardinality(Below(y))
  <2>1. Below(x) \subseteq Below(y)
    BY <1>3, <1>5
  <2> HIDE DEF Below
  <2> QED  BY <2>1, <1>3 DEF HoldersCounted
<1>6. ASSUME NEW x \in NumberHolders, NEW y \in NumberHolders, f[x] < f[y]
      PROVE  Cardinality(Below(x)) < Cardinality(Below(y))
  <2>1. y \in Below(y) /\ Below(x) \subseteq Below(y) \ {y}
    BY <1>3, <1>6
  <2>2. Below(y) \ {y} \in SUBSET NumberHolders
    OBVIOUS
  <2> HIDE DEF Below
  <2>3. Cardinality(Below(x)) <= Cardinality(Below(y) \ {y})
    BY <2>1, <2>2 DEF HoldersCounted
  <2>4. Cardinality(Below(y) \ {y}) < Cardinality(Below(y))
    BY <2>1, <1>3 DEF HoldersCounted
  <2>5. Cardinality(Below(y) \ {y}) \in Nat
    BY <2>2 DEF HoldersCounted
  <2> QED  BY <2>3, <2>4, <2>5, <1>4
<1> HIDE DEF Below
<1>7. \A x, y \in NumberHolders :
        Cardinality(Below(x)) < Cardinality(Below(y)) <=> f[x] < f[y]
  BY <1>3, <1>4, <1>5, <1>6
<1>8. \A x \in NumberHolders : Ranked(f)[x] \in 0..Cardinality(NumberHolders)
  BY <1>1, <1>4
<1> QED  BY <1>1, <1>2, <1>7, <1>8

-----------------------------------------------------------------------------
WorkerRow == {Idle} \cup [pc : {"selected", "numbered", "running"}, run : Runs]

NumberedFor(w, t) == worker[w].pc = "numbered" /\ TenantOf[worker[w].run] = t
Claims(t) == {w \in Pollers : Claiming(w) /\ TenantOf[worker[w].run] = t}

DpTypes ==
  /\ number \in [NumberHolders -> 0..Cardinality(NumberHolders)]
  /\ state \in [Runs -> {"READY", "RUNNING", "EXPIRED", "DONE"}]
  /\ worker \in [Pollers -> WorkerRow]
  /\ over \in [Tenants -> [Tenants -> Nat]]

\* A claimed Run is not running, and a Worker holds its Run alone.
HeldAlone ==
  /\ \A w \in Pollers :
       /\ Claiming(w) => state[worker[w].run] \in {"READY", "EXPIRED"}
       /\ worker[w].pc = "running" => state[worker[w].run] = "RUNNING"
  /\ \A v, w \in Pollers :
       worker[v] # Idle /\ worker[w] # Idle /\ worker[v].run = worker[w].run => v = w

\* A drawn number is above its tenant's, and no tenant has two on the way.
NumbersRise ==
  \A w \in Pollers : \A t \in Tenants : NumberedFor(w, t) =>
    /\ number[t] < number[w]
    /\ \A v \in Pollers : NumberedFor(v, t) => v = w

\* While t is ahead of u only the Workers that already claimed for t can
\* dispatch it again.  While it is not, one dispatch has got past u at most,
\* and then with the number it drew before u's.
Overtaken(u, t) ==
  IF number[u] < number[t]
    THEN over[u][t] + Cardinality(Claims(t)) <= Cardinality(Pollers) + 1
    ELSE /\ over[u][t] <= 1
         /\ over[u][t] = 0 \/ \A w \in Pollers : NumberedFor(w, t) => number[u] < number[w]

DpInv ==
  /\ DpTypes /\ HeldAlone /\ NumbersRise
  /\ \A u, t \in Tenants : u # t => Overtaken(u, t)

LEMMA HoldersAre ==
  ASSUME HoldersCounted, DpTypes
  PROVE  /\ Cardinality(NumberHolders) \in Nat /\ Cardinality(Pollers) \in Nat
         /\ \A x \in NumberHolders : number[x] \in Nat
         /\ Tenants \subseteq NumberHolders /\ Pollers \subseteq NumberHolders
         /\ Tenants \cap Pollers = {}
         /\ TenantOf \in [Runs -> Tenants]
         /\ \A t \in Tenants : /\ Claims(t) \in SUBSET Pollers
                               /\ Cardinality(Claims(t)) \in Nat
                               /\ Cardinality(Claims(t)) <= Cardinality(Pollers)
<1>1. /\ Tenants \subseteq NumberHolders /\ Pollers \subseteq NumberHolders
      /\ Pollers \in SUBSET NumberHolders /\ NumberHolders \in SUBSET NumberHolders
  BY DEF NumberHolders
<1>2. Cardinality(NumberHolders) \in Nat /\ Cardinality(Pollers) \in Nat
  BY <1>1 DEF HoldersCounted
<1>3. \A x \in NumberHolders : number[x] \in Nat
  BY <1>2 DEF DpTypes
<1>4. \A t \in Tenants : Claims(t) \in SUBSET Pollers
  BY DEF Claims
<1>5. \A t \in Tenants : Cardinality(Claims(t)) \in Nat
                         /\ Cardinality(Claims(t)) <= Cardinality(Pollers)
  BY <1>1, <1>4 DEF HoldersCounted
<1> QED  BY <1>1, <1>2, <1>3, <1>4, <1>5, DpAssumption

\* A Worker's row, by what it is doing.
LEMMA RowIs ==
  ASSUME DpTypes, NEW w \in Pollers
  PROVE  /\ worker[w].pc \in {"idle", "selected", "numbered", "running"}
         /\ worker[w].pc = "idle" <=> worker[w] = Idle
         /\ worker[w] # Idle =>
              /\ worker[w].run \in Runs
              /\ worker[w] \in [pc : {"selected", "numbered", "running"}, run : Runs]
<1>1. worker[w] \in WorkerRow
  BY DEF DpTypes
<1>2. CASE worker[w] = Idle
  BY <1>2 DEF Idle
<1>3. CASE worker[w] \in [pc : {"selected", "numbered", "running"}, run : Runs]
  BY <1>3 DEF Idle
<1> QED  BY <1>1, <1>2, <1>3 DEF WorkerRow

\* What the history does to a pair of tenants in one step.
LEMMA OverCases ==
  ASSUME DpTypes, CountOvertakes, NEW u \in Tenants, NEW t \in Tenants
  PROVE  /\ over[u][t] \in Nat
         /\ \/ over'[u][t] = 0
            \/ Waiting(u) /\ ~DispatchOf(u) /\ over'[u][t] = over[u][t]
            \/ Waiting(u) /\ ~DispatchOf(u) /\ DispatchOf(t) /\ over'[u][t] = over[u][t] + 1
<1>1. over[u][t] \in Nat
  BY DEF DpTypes
<1>2. over'[u][t] = IF ~Waiting(u) \/ ~Waiting(u)' \/ DispatchOf(u) THEN 0
                    ELSE IF DispatchOf(t) THEN over[u][t] + 1 ELSE over[u][t]
  BY DEF CountOvertakes
<1> QED  BY <1>1, <1>2

LEMMA OverTyped ==
  ASSUME DpTypes, CountOvertakes
  PROVE  over' \in [Tenants -> [Tenants -> Nat]]
<1>1. \A u, t \in Tenants :
        (IF ~Waiting(u) \/ ~Waiting(u)' \/ DispatchOf(u) THEN 0
         ELSE IF DispatchOf(t) THEN over[u][t] + 1 ELSE over[u][t]) \in Nat
  BY DEF DpTypes
<1> QED  BY <1>1 DEF CountOvertakes

\* A wait that begins or ends starts the count again.
LEMMA OvertakenReset ==
  ASSUME HoldersCounted, DpTypes', NEW u \in Tenants, NEW t \in Tenants, over'[u][t] = 0
  PROVE  Overtaken(u, t)'
<1>1. /\ Cardinality(Pollers) \in Nat
      /\ Cardinality(Claims(t)') \in Nat /\ Cardinality(Claims(t)') <= Cardinality(Pollers)
  <2>1. Pollers \in SUBSET NumberHolders /\ Claims(t)' \in SUBSET Pollers
    BY DEF NumberHolders, Claims
  <2> QED  BY <2>1 DEF HoldersCounted
<1> QED  BY <1>1 DEF Overtaken

\* The bound stays when the order does and t has no new claim.
LEMMA OvertakenKept ==
  ASSUME HoldersCounted, DpTypes, DpTypes', NEW u \in Tenants, NEW t \in Tenants,
         Overtaken(u, t),
         number'[u] < number'[t] <=> number[u] < number[t],
         \A w \in Pollers :
           NumberedFor(w, t)' /\ (NumberedFor(w, t) => number[u] < number[w])
             => number'[u] < number'[w],
         number[u] < number[t] => Claims(t)' \subseteq Claims(t),
         over'[u][t] = over[u][t]
  PROVE  Overtaken(u, t)'
<1> USE HoldersAre
<1>1. over[u][t] \in Nat
  BY DEF DpTypes
<1>2. CASE number[u] < number[t]
  <2>1. Claims(t)' \in SUBSET Claims(t) /\ Claims(t) \in SUBSET NumberHolders
        /\ Claims(t)' \in SUBSET NumberHolders
    BY <1>2
  <2>2. Cardinality(Claims(t)') <= Cardinality(Claims(t)) /\ Cardinality(Claims(t)') \in Nat
    BY <2>1 DEF HoldersCounted
  <2>3. over[u][t] + Cardinality(Claims(t)) <= Cardinality(Pollers) + 1
    BY <1>2 DEF Overtaken
  <2>4. over'[u][t] + Cardinality(Claims(t)') <= Cardinality(Pollers) + 1
    BY <1>1, <2>2, <2>3
  <2> QED  BY <2>4, <1>2 DEF Overtaken
<1>3. CASE ~(number[u] < number[t])
  <2>1. /\ over[u][t] <= 1
        /\ over[u][t] = 0 \/ \A w \in Pollers : NumberedFor(w, t) => number[u] < number[w]
    BY <1>3 DEF Overtaken
  <2>2. over'[u][t] = 0 \/ \A w \in Pollers : NumberedFor(w, t)' => number'[u] < number'[w]
    BY <2>1
  <2> QED  BY <2>1, <2>2, <1>3 DEF Overtaken
<1> QED  BY <1>2, <1>3

\* What a step does to the order of the numbers.
LEMMA NumberOrder ==
  ASSUME HoldersCounted, DpTypes, NEW w \in Pollers, Number(w)
  PROVE  /\ number' \in [NumberHolders -> 0..Cardinality(NumberHolders)]
         /\ \A x, y \in NumberHolders \ {w} : number'[x] < number'[y] <=> number[x] < number[y]
         /\ \A x \in NumberHolders \ {w} : number'[x] < number'[w]
<1> DEFINE f == [number EXCEPT ![w] = NextNumber]
<1>1. NextNumber \in Nat /\ \A x \in NumberHolders : number[x] \in Nat /\ number[x] < NextNumber
  <2>1. NextNumber = Cardinality(NumberHolders) + 1
    BY DEF NextNumber, NumberHolders
  <2>2. \A x \in NumberHolders : number[x] \in 0..Cardinality(NumberHolders)
    BY DEF DpTypes
  <2> QED  BY <2>1, <2>2, HoldersAre
<1>2. /\ f \in [NumberHolders -> Nat] /\ f[w] = NextNumber
      /\ \A x \in NumberHolders \ {w} : f[x] = number[x]
  BY <1>1, HoldersAre DEF DpTypes
<1>3. number' = Ranked(f)
  BY DEF Number
<1> HIDE DEF f
<1>4. /\ number' \in [NumberHolders -> 0..Cardinality(NumberHolders)]
      /\ \A x, y \in NumberHolders : number'[x] < number'[y] <=> f[x] < f[y]
  BY <1>2, <1>3, RankedOrder
<1> QED  BY <1>1, <1>2, <1>4, HoldersAre

LEMMA DispatchOrder ==
  ASSUME HoldersCounted, DpTypes, NEW w \in Pollers, Dispatch(w),
         NEW t \in Tenants, TenantOf[worker[w].run] = t
  PROVE  /\ number' \in [NumberHolders -> 0..Cardinality(NumberHolders)]
         /\ \A x, y \in NumberHolders \ {t, w} :
              number'[x] < number'[y] <=> number[x] < number[y]
         /\ \A x \in NumberHolders \ {t, w} :
              /\ number'[x] < number'[t] <=> number[x] < number[w]
              /\ number'[t] < number'[x] <=> number[w] < number[x]
<1> DEFINE f == [number EXCEPT ![t] = number[w], ![w] = 0]
<1>1. t \in NumberHolders /\ w \in NumberHolders /\ t # w /\ number[w] \in Nat
      /\ number \in [NumberHolders -> Nat]
  BY HoldersAre DEF DpTypes
<1>2. /\ f \in [NumberHolders -> Nat] /\ f[t] = number[w]
      /\ \A x \in NumberHolders \ {t, w} : f[x] = number[x]
  BY <1>1
<1>3. number' = Ranked(f)
  BY DEF Dispatch
<1> HIDE DEF f
<1>4. /\ number' \in [NumberHolders -> 0..Cardinality(NumberHolders)]
      /\ \A x, y \in NumberHolders : number'[x] < number'[y] <=> f[x] < f[y]
  BY <1>2, <1>3, RankedOrder
<1> QED  BY <1>1, <1>2, <1>4

LEMMA RollbackOrder ==
  ASSUME HoldersCounted, DpTypes, NEW w \in Pollers, Rollback(w)
  PROVE  /\ number' \in [NumberHolders -> 0..Cardinality(NumberHolders)]
         /\ \A x, y \in NumberHolders \ {w} : number'[x] < number'[y] <=> number[x] < number[y]
<1> DEFINE f == [number EXCEPT ![w] = 0]
<1>1. w \in NumberHolders /\ number \in [NumberHolders -> Nat]
  BY HoldersAre DEF DpTypes
<1>2. f \in [NumberHolders -> Nat] /\ \A x \in NumberHolders \ {w} : f[x] = number[x]
  BY <1>1
<1>3. number' = Ranked(f)
  BY DEF Rollback
<1> HIDE DEF f
<1>4. /\ number' \in [NumberHolders -> 0..Cardinality(NumberHolders)]
      /\ \A x, y \in NumberHolders : number'[x] < number'[y] <=> f[x] < f[y]
  BY <1>2, <1>3, RankedOrder
<1> QED  BY <1>2, <1>4

\* What a step does to the rows of the Workers.
LEMMA StepRows ==
  ASSUME DpTypes, NEW w \in Pollers,
         Select(w) \/ Number(w) \/ Dispatch(w) \/ Rollback(w) \/ Finish(w) \/ Expire(w)
  PROVE  /\ worker' \in [Pollers -> WorkerRow]
         /\ \A v \in Pollers \ {w} : worker'[v] = worker[v]
         /\ Select(w) =>
              \E r \in Runs :
                /\ worker[w] = Idle /\ Eligible(r)
                /\ \A o \in Runs : Eligible(o) /\ o # r => Precedes(r, o)
                /\ worker'[w] = [pc |-> "selected", run |-> r]
         /\ Number(w) => /\ worker[w].pc = "selected" /\ worker[w].run \in Runs
                         /\ worker'[w] = [pc |-> "numbered", run |-> worker[w].run]
         /\ Dispatch(w) => /\ worker[w].pc = "numbered" /\ worker[w].run \in Runs
                           /\ worker'[w] = [pc |-> "running", run |-> worker[w].run]
         /\ Rollback(w) => Claiming(w) /\ worker[w].run \in Runs /\ worker'[w] = Idle
         /\ Finish(w) \/ Expire(w) => /\ worker[w].pc = "running" /\ worker[w].run \in Runs
                                      /\ worker'[w] = Idle
<1> USE RowIs DEF DpTypes
<1>1. CASE Select(w)
  <2>1. PICK r \in Runs :
               /\ worker[w] = Idle /\ Eligible(r)
               /\ \A o \in Runs : Eligible(o) /\ o # r => Precedes(r, o)
               /\ worker' = [worker EXCEPT ![w] = [pc |-> "selected", run |-> r]]
    BY <1>1, Zenon DEF Select
  <2>2. [pc |-> "selected", run |-> r] \in WorkerRow
    BY DEF WorkerRow
  <2>3. ~Number(w) /\ ~Dispatch(w) /\ ~Rollback(w) /\ ~Finish(w) /\ ~Expire(w)
    BY <2>1 DEF Number, Dispatch, Rollback, Finish, Expire, Claiming, Idle
  <2> QED  BY <2>1, <2>2, <2>3
<1>2. CASE Number(w)
  <2>1. worker[w].pc = "selected" /\ worker' = [worker EXCEPT ![w].pc = "numbered"]
    BY <1>2 DEF Number
  <2>2. /\ worker[w].run \in Runs
        /\ [worker[w] EXCEPT !.pc = "numbered"] = [pc |-> "numbered", run |-> worker[w].run]
    BY <2>1
  <2>3. [pc |-> "numbered", run |-> worker[w].run] \in WorkerRow
    BY <2>2 DEF WorkerRow
  <2>4. ~Select(w) /\ ~Dispatch(w) /\ ~Finish(w) /\ ~Expire(w)
    BY <2>1 DEF Select, Dispatch, Finish, Expire, Idle
  <2>5. worker'[w] # Idle
    BY <2>1, <2>2 DEF Idle
  <2>6. ~Rollback(w)
    BY <2>5 DEF Rollback
  <2> QED  BY <2>1, <2>2, <2>3, <2>4, <2>6
<1>3. CASE Dispatch(w)
  <2>1. worker[w].pc = "numbered" /\ worker' = [worker EXCEPT ![w].pc = "running"]
    BY <1>3 DEF Dispatch
  <2>2. /\ worker[w].run \in Runs
        /\ [worker[w] EXCEPT !.pc = "running"] = [pc |-> "running", run |-> worker[w].run]
    BY <2>1
  <2>3. [pc |-> "running", run |-> worker[w].run] \in WorkerRow
    BY <2>2 DEF WorkerRow
  <2>4. ~Select(w) /\ ~Number(w) /\ ~Finish(w) /\ ~Expire(w)
    BY <2>1 DEF Select, Number, Finish, Expire, Idle
  <2>5. worker'[w] # Idle
    BY <2>1, <2>2 DEF Idle
  <2>6. ~Rollback(w)
    BY <2>5 DEF Rollback
  <2> QED  BY <2>1, <2>2, <2>3, <2>4, <2>6
<1>4. CASE Rollback(w) \/ Finish(w) \/ Expire(w)
  <2>1. worker' = [worker EXCEPT ![w] = Idle] /\ Idle \in WorkerRow
    BY <1>4 DEF Rollback, Finish, Expire, WorkerRow
  <2>2. worker'[w] = Idle /\ worker' \in [Pollers -> WorkerRow]
        /\ \A v \in Pollers \ {w} : worker'[v] = worker[v]
    BY <2>1
  <2>3. Rollback(w) => Claiming(w) /\ worker[w].run \in Runs
    BY DEF Rollback, Claiming
  <2>4. Finish(w) \/ Expire(w) => worker[w].pc = "running" /\ worker[w].run \in Runs
    BY DEF Finish, Expire
  <2>5. ~Select(w) /\ ~Number(w) /\ ~Dispatch(w)
    BY <2>2, <2>3, <2>4, <1>1, <1>2, <1>3 DEF Select, Number, Dispatch, Claiming, Idle
  <2> QED  BY <2>2, <2>3, <2>4, <2>5
<1> QED  BY <1>1, <1>2, <1>3, <1>4, Zenon

LEMMA DpTypesKept ==
  ASSUME HoldersCounted, DpTypes, DpNext
  PROVE  DpTypes'
<1>1. over' \in [Tenants -> [Tenants -> Nat]]
  BY OverTyped DEF DpNext
<1>2. ASSUME NEW w \in Pollers,
             Select(w) \/ Number(w) \/ Dispatch(w) \/ Rollback(w) \/ Finish(w) \/ Expire(w)
      PROVE  DpTypes'
  <2>1. worker' \in [Pollers -> WorkerRow]
    BY <1>2, StepRows, Zenon
  <2>2. state' \in [Runs -> {"READY", "RUNNING", "EXPIRED", "DONE"}]
    BY <1>2 DEF DpTypes, Select, Number, Dispatch, Rollback, Finish, Expire
  <2>3. number' \in [NumberHolders -> 0..Cardinality(NumberHolders)]
    <3>1. CASE Number(w)
      BY <3>1, NumberOrder
    <3>2. CASE Dispatch(w)
      <4>1. TenantOf[worker[w].run] \in Tenants
        BY <3>2, StepRows, HoldersAre, Zenon
      <4> QED  BY <4>1, <3>2, DispatchOrder
    <3>3. CASE Rollback(w)
      BY <3>3, RollbackOrder
    <3>4. CASE Select(w) \/ Finish(w) \/ Expire(w)
      BY <3>4 DEF Select, Finish, Expire, DpTypes
    <3> QED  BY <1>2, <3>1, <3>2, <3>3, <3>4
  <2> QED  BY <1>1, <2>1, <2>2, <2>3 DEF DpTypes
<1>3. ASSUME NEW r \in Runs, Wake(r)
      PROVE  DpTypes'
  BY <1>1, <1>3 DEF Wake, DpTypes
<1> QED  BY <1>2, <1>3 DEF DpNext, DpStep

LEMMA HeldAloneKept ==
  ASSUME DpTypes, HeldAlone, DpStep
  PROVE  HeldAlone'
<1> USE RowIs
\* What a Worker holds and the step does not touch.
<1> DEFINE Same(v) == worker'[v] = worker[v] /\ (worker[v] # Idle =>
                        state'[worker[v].run] = state[worker[v].run])
<1>1. ASSUME NEW w \in Pollers, \A v \in Pollers \ {w} : Same(v),
             \/ worker'[w] = Idle
             \/ /\ Claiming(w)' /\ state'[worker'[w].run] \in {"READY", "EXPIRED"}
                /\ \A v \in Pollers \ {w} : worker[v] # Idle => worker[v].run # worker'[w].run
             \/ /\ worker'[w].pc = "running" /\ state'[worker'[w].run] = "RUNNING"
                /\ \A v \in Pollers \ {w} : worker[v] # Idle => worker[v].run # worker'[w].run
      PROVE  HeldAlone'
  <2>1. ASSUME NEW v \in Pollers
        PROVE  /\ Claiming(v)' => state'[worker'[v].run] \in {"READY", "EXPIRED"}
               /\ worker'[v].pc = "running" => state'[worker'[v].run] = "RUNNING"
    <3>1. CASE v = w
      BY <1>1, <3>1 DEF Claiming, Idle
    <3>2. CASE v # w
      BY <1>1, <3>2 DEF HeldAlone, Claiming
    <3> QED  BY <3>1, <3>2
  <2>2. ASSUME NEW v \in Pollers, NEW x \in Pollers,
               worker'[v] # Idle, worker'[x] # Idle, worker'[v].run = worker'[x].run
        PROVE  v = x
    <3>1. CASE v # w /\ x # w
      BY <1>1, <2>2, <3>1 DEF HeldAlone
    <3>2. CASE v = w \/ x = w
      BY <1>1, <2>2, <3>2
    <3> QED  BY <3>1, <3>2
  <2> QED  BY <2>1, <2>2 DEF HeldAlone
<1>2. ASSUME NEW w \in Pollers, Select(w)
      PROVE  HeldAlone'
  <2>1. PICK r \in Runs : worker[w] = Idle /\ Eligible(r)
                          /\ worker'[w] = [pc |-> "selected", run |-> r]
    BY <1>2, StepRows, Zenon
  <2>2. \A v \in Pollers \ {w} : Same(v)
    BY <1>2, StepRows DEF Select
  <2>3. \A v \in Pollers \ {w} : worker[v] # Idle => worker[v].run # r
    BY <2>1 DEF Eligible, RunLocked, HeldAlone, Claiming
  <2>4. Claiming(w)' /\ state'[worker'[w].run] \in {"READY", "EXPIRED"} /\ worker'[w].run = r
    BY <1>2, <2>1 DEF Claiming, Eligible, Select
  <2> HIDE DEF Same
  <2> QED  BY <1>1, <2>2, <2>3, <2>4
<1>3. ASSUME NEW w \in Pollers, Number(w) \/ Dispatch(w) \/ Rollback(w) \/ Finish(w) \/ Expire(w)
      PROVE  HeldAlone'
  <2>1. /\ worker[w].run \in Runs /\ worker[w] # Idle
        /\ \A v \in Pollers \ {w} : worker'[v] = worker[v]
    BY <1>3, StepRows, Zenon DEF Claiming, Idle
  <2>2. \A v \in Pollers \ {w} : worker[v] # Idle => worker[v].run # worker[w].run
    BY <2>1 DEF HeldAlone
  <2>3. \A r \in Runs \ {worker[w].run} : state'[r] = state[r]
    BY <1>3 DEF Number, Dispatch, Rollback, Finish, Expire, DpTypes
  <2>4. \A v \in Pollers \ {w} : Same(v)
    BY <2>1, <2>2, <2>3
  <2>5. CASE Number(w)
    <3>1. Claiming(w)' /\ worker'[w].run = worker[w].run
      <4>1. worker'[w] = [pc |-> "numbered", run |-> worker[w].run]
        BY ONLY <2>5, StepRows, DpTypes, w \in Pollers, Zenon
      <4> QED  BY ONLY <4>1 DEF Claiming
    <3>2. state'[worker[w].run] \in {"READY", "EXPIRED"}
      BY <2>5 DEF Number, HeldAlone, Claiming
    <3> HIDE DEF Same
    <3> QED  BY <1>1, <2>2, <2>4, <3>1, <3>2
  <2>6. CASE Dispatch(w)
    <3>1. worker'[w].pc = "running" /\ worker'[w].run = worker[w].run
      <4>1. worker'[w] = [pc |-> "running", run |-> worker[w].run]
        BY ONLY <2>6, StepRows, DpTypes, w \in Pollers, Zenon
      <4> QED  BY ONLY <4>1
    <3>2. state'[worker[w].run] = "RUNNING"
      BY <2>6, <2>1 DEF Dispatch, DpTypes
    <3> HIDE DEF Same
    <3> QED  BY <1>1, <2>2, <2>4, <3>1, <3>2
  <2>7. CASE Rollback(w) \/ Finish(w) \/ Expire(w)
    <3>1. worker'[w] = Idle
      BY <2>7, StepRows, Zenon
    <3> HIDE DEF Same
    <3> QED  BY <1>1, <2>4, <3>1
  <2> QED  BY <1>3, <2>5, <2>6, <2>7
<1>4. ASSUME NEW r \in Runs, Wake(r)
      PROVE  HeldAlone'
  <2>1. worker' = worker /\ state[r] = "DONE" /\ \A q \in Runs \ {r} : state'[q] = state[q]
    BY <1>4 DEF Wake, DpTypes
  <2>2. \A w \in Pollers : worker[w] # Idle => worker[w].run \in Runs \ {r}
    BY <2>1 DEF HeldAlone, Claiming
  <2>3. \A w \in Pollers : worker[w] # Idle => state'[worker[w].run] = state[worker[w].run]
    BY <2>1, <2>2
  <2> QED  BY <2>1, <2>3 DEF HeldAlone, Claiming, Idle
<1> QED  BY <1>2, <1>3, <1>4 DEF DpStep

LEMMA NumbersRiseKept ==
  ASSUME HoldersCounted, DpTypes, NumbersRise, DpStep
  PROVE  NumbersRise'
<1> USE HoldersAre
<1>1. ASSUME NEW w \in Pollers, Number(w)
      PROVE  NumbersRise'
  <2>1. SUFFICES ASSUME NEW v \in Pollers, NEW t \in Tenants, NumberedFor(v, t)'
                 PROVE  /\ number'[t] < number'[v]
                        /\ \A x \in Pollers : NumberedFor(x, t)' => x = v
    BY DEF NumbersRise
  <2>2. /\ \A x \in Pollers \ {w} : NumberedFor(x, t)' => NumberedFor(x, t)
        /\ NumberedFor(w, t)' => TenantOf[worker[w].run] = t
    <3>1. /\ worker'[w] = [pc |-> "numbered", run |-> worker[w].run]
          /\ \A x \in Pollers \ {w} : worker'[x] = worker[x]
      BY ONLY <1>1, StepRows, DpTypes, w \in Pollers, Zenon
    <3> QED  BY ONLY <3>1 DEF NumberedFor
  <2>3. \A x \in Pollers : NumberedFor(x, t) => TenantOf[worker[w].run] # t
    BY <1>1 DEF Number, NumberedFor
  <2>4. t \in NumberHolders \ {w}
    OBVIOUS
  <2>5. CASE v = w
    BY <1>1, <2>1, <2>2, <2>3, <2>4, <2>5, NumberOrder
  <2>6. CASE v # w
    <3>1. NumberedFor(v, t)
      BY <2>1, <2>2, <2>6
    <3>2. number[t] < number[v] /\ \A x \in Pollers : NumberedFor(x, t) => x = v
      BY <3>1 DEF NumbersRise
    <3>3. number'[t] < number'[v]
      BY <1>1, <2>4, <2>6, <3>2, NumberOrder
    <3> QED  BY <2>2, <2>3, <3>1, <3>2, <3>3
  <2> QED  BY <2>5, <2>6
<1>2. ASSUME NEW w \in Pollers, Dispatch(w)
      PROVE  NumbersRise'
  <2>1. SUFFICES ASSUME NEW v \in Pollers, NEW t \in Tenants, NumberedFor(v, t)'
                 PROVE  /\ number'[t] < number'[v]
                        /\ \A x \in Pollers : NumberedFor(x, t)' => x = v
    BY DEF NumbersRise
  <2>2. /\ \A x \in Pollers : NumberedFor(x, t)' => x # w /\ NumberedFor(x, t)
        /\ worker[w].pc = "numbered" /\ worker[w].run \in Runs
    <3>1. /\ worker'[w] = [pc |-> "running", run |-> worker[w].run]
          /\ \A x \in Pollers \ {w} : worker'[x] = worker[x]
          /\ worker[w].pc = "numbered" /\ worker[w].run \in Runs
      BY ONLY <1>2, StepRows, DpTypes, w \in Pollers, Zenon
    <3> QED  BY ONLY <3>1 DEF NumberedFor
  <2>3. number[t] < number[v] /\ \A x \in Pollers : NumberedFor(x, t) => x = v
    BY <2>1, <2>2 DEF NumbersRise
  <2>4. TenantOf[worker[w].run] # t /\ TenantOf[worker[w].run] \in Tenants
    BY <2>1, <2>2, <2>3 DEF NumberedFor
  <2>5. number'[t] < number'[v]
    <3>1. t \in NumberHolders \ {TenantOf[worker[w].run], w}
          /\ v \in NumberHolders \ {TenantOf[worker[w].run], w}
      BY <2>1, <2>2, <2>4
    <3> QED  BY <1>2, <2>3, <2>4, <3>1, DispatchOrder
  <2> QED  BY <2>2, <2>3, <2>5
<1>3. ASSUME NEW w \in Pollers, Select(w) \/ Rollback(w) \/ Finish(w) \/ Expire(w)
      PROVE  NumbersRise'
  <2>1. SUFFICES ASSUME NEW v \in Pollers, NEW t \in Tenants, NumberedFor(v, t)'
                 PROVE  /\ number'[t] < number'[v]
                        /\ \A x \in Pollers : NumberedFor(x, t)' => x = v
    BY DEF NumbersRise
  <2>2. \A x \in Pollers : NumberedFor(x, t)' => x # w /\ NumberedFor(x, t)
    <3>1. /\ worker'[w].pc # "numbered"
          /\ \A x \in Pollers \ {w} : worker'[x] = worker[x]
      <4>1. CASE Select(w)
        <5>1. PICK r \in Runs : worker'[w] = [pc |-> "selected", run |-> r]
          BY ONLY <4>1, StepRows, DpTypes, w \in Pollers, Zenon
        <5>2. \A x \in Pollers \ {w} : worker'[x] = worker[x]
          BY ONLY <4>1, StepRows, DpTypes, w \in Pollers, Zenon
        <5> QED  BY ONLY <5>1, <5>2
      <4>2. CASE Rollback(w) \/ Finish(w) \/ Expire(w)
        <5>1. worker'[w] = Idle /\ \A x \in Pollers \ {w} : worker'[x] = worker[x]
          BY ONLY <4>2, StepRows, DpTypes, w \in Pollers, Zenon
        <5> QED  BY ONLY <5>1 DEF Idle
      <4> QED  BY ONLY <1>3, <4>1, <4>2
    <3> QED  BY ONLY <3>1 DEF NumberedFor
  <2>3. number[t] < number[v] /\ \A x \in Pollers : NumberedFor(x, t) => x = v
    BY <2>1, <2>2 DEF NumbersRise
  <2>4. CASE Rollback(w)
    <3>1. t \in NumberHolders \ {w} /\ v \in NumberHolders \ {w}
      BY <2>1, <2>2
    <3> QED  BY <2>2, <2>3, <2>4, <3>1, RollbackOrder
  <2>5. CASE Select(w) \/ Finish(w) \/ Expire(w)
    <3>1. number' = number
      BY <2>5 DEF Select, Finish, Expire
    <3> QED  BY <2>2, <2>3, <3>1
  <2> QED  BY <1>3, <2>4, <2>5
<1>4. ASSUME NEW r \in Runs, Wake(r)
      PROVE  NumbersRise'
  BY <1>4 DEF Wake, NumbersRise, NumberedFor
<1> QED  BY <1>1, <1>2, <1>3, <1>4 DEF DpStep

\* The history sees the step that makes a Run RUNNING, and no other.
LEMMA DispatchSeen ==
  ASSUME DpTypes, HeldAlone, NEW t \in Tenants
  PROVE  /\ \A w \in Pollers : Dispatch(w) =>
              (DispatchOf(t) <=> t = TenantOf[worker[w].run])
         /\ \A w \in Pollers :
              Select(w) \/ Number(w) \/ Rollback(w) \/ Finish(w) \/ Expire(w) => ~DispatchOf(t)
         /\ \A r \in Runs : Wake(r) => ~DispatchOf(t)
<1>1. ASSUME NEW w \in Pollers, Dispatch(w)
      PROVE  DispatchOf(t) <=> t = TenantOf[worker[w].run]
  <2>1. worker[w].run \in Runs /\ state[worker[w].run] # "RUNNING"
    <3>1. worker[w].pc = "numbered"
      BY <1>1 DEF Dispatch
    <3> QED  BY <3>1, RowIs DEF HeldAlone, Claiming
  <2>2. state' = [state EXCEPT ![worker[w].run] = "RUNNING"]
    BY <1>1 DEF Dispatch
  <2> QED  BY ONLY <2>1, <2>2, DpTypes DEF DpTypes, DispatchOf
<1>2. ASSUME NEW w \in Pollers, Select(w) \/ Number(w) \/ Rollback(w)
      PROVE  ~DispatchOf(t)
  <2>1. state' = state
    BY <1>2 DEF Select, Number, Rollback
  <2> QED  BY <2>1 DEF DispatchOf
<1>3. ASSUME NEW w \in Pollers, Finish(w) \/ Expire(w)
      PROVE  ~DispatchOf(t)
  <2>1. PICK r : state' = [state EXCEPT ![r] = "READY"] \/ state' = [state EXCEPT ![r] = "DONE"]
                 \/ state' = [state EXCEPT ![r] = "EXPIRED"]
    BY <1>3 DEF Finish, Expire
  <2> QED  BY ONLY <2>1, DpTypes DEF DpTypes, DispatchOf
<1>4. ASSUME NEW r \in Runs, Wake(r)
      PROVE  ~DispatchOf(t)
  BY <1>4 DEF Wake, DpTypes, DispatchOf
<1> QED  BY <1>1, <1>2, <1>3, <1>4

\* A Worker that selects a Run of t while u waits finds t not ahead of u.
LEMMA SelectIsFair ==
  ASSUME HoldersCounted, DpTypes, NEW u \in Tenants, Waiting(u), NEW r \in Runs,
         TenantOf[r] # u, \A o \in Runs : Eligible(o) /\ o # r => Precedes(r, o)
  PROVE  ~(number[u] < number[TenantOf[r]])
<1>1. PICK o \in Runs : TenantOf[o] = u /\ Eligible(o)
  BY DEF Waiting
<1>2. Precedes(r, o)
  BY <1>1
<1>3. number[TenantOf[r]] <= number[u] /\ number[u] \in Nat /\ number[TenantOf[r]] \in Nat
  <2>1. number[u] \in Nat /\ number[TenantOf[r]] \in Nat
    BY HoldersAre
  <2> QED  BY <1>1, <1>2, <2>1 DEF Precedes, LastDispatch
<1> QED  BY <1>3

\* Who claims for t after a step of w.
LEMMA StepClaims ==
  ASSUME DpTypes, NEW w \in Pollers, NEW t \in Tenants
  PROVE  /\ Number(w) => Claims(t)' \subseteq Claims(t)
         /\ Dispatch(w) => /\ w \notin Claims(t)' /\ Claims(t)' \subseteq Claims(t)
                           /\ TenantOf[worker[w].run] = t => w \in Claims(t)
         /\ Rollback(w) \/ Finish(w) \/ Expire(w) => Claims(t)' \subseteq Claims(t)
<1>1. ASSUME Number(w)
      PROVE  Claims(t)' \subseteq Claims(t)
  <2>1. /\ worker'[w] = [pc |-> "numbered", run |-> worker[w].run] /\ worker[w].pc = "selected"
        /\ \A x \in Pollers \ {w} : worker'[x] = worker[x]
    BY ONLY <1>1, StepRows, DpTypes, w \in Pollers, Zenon
  <2> QED  BY ONLY <2>1 DEF Claims, Claiming
<1>2. ASSUME Dispatch(w)
      PROVE  /\ w \notin Claims(t)' /\ Claims(t)' \subseteq Claims(t)
             /\ TenantOf[worker[w].run] = t => w \in Claims(t)
  <2>1. /\ worker'[w] = [pc |-> "running", run |-> worker[w].run] /\ worker[w].pc = "numbered"
        /\ \A x \in Pollers \ {w} : worker'[x] = worker[x]
    BY ONLY <1>2, StepRows, DpTypes, w \in Pollers, Zenon
  <2> QED  BY ONLY <2>1, w \in Pollers DEF Claims, Claiming
<1>3. ASSUME Rollback(w) \/ Finish(w) \/ Expire(w)
      PROVE  Claims(t)' \subseteq Claims(t)
  <2>1. worker'[w] = Idle /\ \A x \in Pollers \ {w} : worker'[x] = worker[x]
    BY ONLY <1>3, StepRows, DpTypes, w \in Pollers, Zenon
  <2> QED  BY ONLY <2>1 DEF Claims, Claiming, Idle
<1> QED  BY <1>1, <1>2, <1>3

\* The step that dispatches t past a waiting u.
LEMMA OvertakenByDispatch ==
  ASSUME HoldersCounted, DpTypes, DpTypes', NumbersRise, NEW w \in Pollers, Dispatch(w),
         NEW u \in Tenants, NEW t \in Tenants, u # t, TenantOf[worker[w].run] = t,
         Overtaken(u, t), over'[u][t] <= over[u][t] + 1
  PROVE  Overtaken(u, t)'
<1>1. over[u][t] \in Nat /\ over'[u][t] \in Nat
  BY DEF DpTypes
<1>2. /\ u \in NumberHolders \ {t, w} /\ t \in NumberHolders /\ w \in NumberHolders
      /\ number[u] \in Nat /\ number[t] \in Nat /\ number[w] \in Nat
      /\ Cardinality(Pollers) \in Nat
      /\ Cardinality(Claims(t)) \in Nat /\ Cardinality(Claims(t)) <= Cardinality(Pollers)
      /\ Claims(t) \in SUBSET NumberHolders
  BY HoldersAre
<1>3. NumberedFor(w, t) /\ worker'[w].pc = "running"
      /\ \A x \in Pollers \ {w} : worker'[x] = worker[x]
  <2>1. /\ worker'[w] = [pc |-> "running", run |-> worker[w].run] /\ worker[w].pc = "numbered"
        /\ \A x \in Pollers \ {w} : worker'[x] = worker[x]
    BY ONLY Dispatch(w), StepRows, DpTypes, w \in Pollers, Zenon
  <2> QED  BY <2>1 DEF NumberedFor
<1>4. number[t] < number[w] /\ \A x \in Pollers : ~NumberedFor(x, t)'
  BY <1>3, Zenon DEF NumbersRise, NumberedFor
<1>5. number'[u] < number'[t] <=> number[u] < number[w]
  BY <1>2, DispatchOrder
<1>6. Cardinality(Claims(t)') \in Nat /\ Cardinality(Claims(t)') < Cardinality(Claims(t))
  <2>1. w \in Claims(t) /\ Claims(t)' \in SUBSET (Claims(t) \ {w})
    BY StepClaims
  <2>2. /\ Claims(t) \ {w} \in SUBSET NumberHolders /\ Claims(t)' \in SUBSET NumberHolders
    BY <2>1, <1>2
  <2>3. /\ Cardinality(Claims(t)') <= Cardinality(Claims(t) \ {w})
        /\ Cardinality(Claims(t) \ {w}) < Cardinality(Claims(t))
        /\ Cardinality(Claims(t)') \in Nat /\ Cardinality(Claims(t) \ {w}) \in Nat
    BY ONLY <2>1, <2>2, <1>2, HoldersCounted DEF HoldersCounted
  <2> QED  BY ONLY <2>3, <1>2
<1>7. CASE number[u] < number[t]
  <2>1. over[u][t] + Cardinality(Claims(t)) <= Cardinality(Pollers) + 1
    BY <1>7 DEF Overtaken
  <2>2. over'[u][t] + Cardinality(Claims(t)') <= Cardinality(Pollers) + 1
    BY ONLY <2>1, <1>1, <1>2, <1>6, over'[u][t] <= over[u][t] + 1
  <2>3. number'[u] < number'[t]
    BY ONLY <1>2, <1>4, <1>5, <1>7
  <2> QED  BY <2>2, <2>3 DEF Overtaken
<1>8. CASE ~(number[u] < number[t]) /\ number[u] < number[w]
  <2>1. over[u][t] <= 1
    BY <1>8, Zenon DEF Overtaken
  <2>2. over'[u][t] + Cardinality(Claims(t)') <= Cardinality(Pollers) + 1
    BY ONLY <2>1, <1>1, <1>2, <1>6, over'[u][t] <= over[u][t] + 1
  <2> QED  BY <2>2, <1>5, <1>8 DEF Overtaken
<1>9. CASE ~(number[u] < number[t]) /\ ~(number[u] < number[w])
  <2>1. over[u][t] = 0
    BY <1>3, <1>9, Zenon DEF Overtaken
  <2>2. over'[u][t] <= 1
    BY ONLY <2>1, <1>1, over'[u][t] <= over[u][t] + 1
  <2> QED  BY <2>2, <1>4, <1>5, <1>9 DEF Overtaken
<1> QED  BY <1>7, <1>8, <1>9

LEMMA OvertakenStep ==
  ASSUME HoldersCounted, DpInv, DpTypes', DpNext, NEW u \in Tenants, NEW t \in Tenants, u # t
  PROVE  Overtaken(u, t)'
<1>1. DpTypes /\ HeldAlone /\ NumbersRise /\ Overtaken(u, t)
  BY DEF DpInv
<1>2. /\ u \in NumberHolders /\ t \in NumberHolders /\ Pollers \subseteq NumberHolders
      /\ u \notin Pollers /\ t \notin Pollers /\ TenantOf \in [Runs -> Tenants]
      /\ over[u][t] \in Nat
  BY <1>1, HoldersAre DEF DpTypes
<1>3. CASE over'[u][t] = 0
  BY <1>3, OvertakenReset
<1>4. CASE over'[u][t] # 0
  <2>1. /\ Waiting(u) /\ ~DispatchOf(u)
        /\ \/ over'[u][t] = over[u][t]
           \/ DispatchOf(t) /\ over'[u][t] = over[u][t] + 1
    <3>1. CountOvertakes
      BY DEF DpNext
    <3> QED  BY ONLY <1>1, <1>4, <3>1, OverCases, u \in Tenants, t \in Tenants
  <2>2. ASSUME NEW w \in Pollers, Select(w)
        PROVE  Overtaken(u, t)'
    <3>1. over'[u][t] = over[u][t] /\ number' = number
      BY <1>1, <2>1, <2>2, DispatchSeen, Zenon DEF Select
    <3>2. PICK r \in Runs :
                 /\ worker[w] = Idle
                 /\ \A o \in Runs : Eligible(o) /\ o # r => Precedes(r, o)
                 /\ worker'[w] = [pc |-> "selected", run |-> r]
      BY ONLY <1>1, <2>2, StepRows, Zenon
    <3>3. \A x \in Pollers \ {w} : worker'[x] = worker[x]
      BY ONLY <1>1, <2>2, StepRows, Zenon
    <3>4. \A x \in Pollers : NumberedFor(x, t)' => NumberedFor(x, t)
      BY ONLY <3>2, <3>3 DEF NumberedFor
    <3>5. TenantOf[r] # t => Claims(t)' \subseteq Claims(t)
      BY ONLY <3>2, <3>3 DEF Claims, Claiming
    <3>6. TenantOf[r] = t => ~(number[u] < number[t])
      BY <1>1, <2>1, <3>2, SelectIsFair
    <3>7. number[u] < number[t] => Claims(t)' \subseteq Claims(t)
      BY ONLY <3>5, <3>6
    <3> QED  BY <1>1, <3>1, <3>4, <3>7, OvertakenKept
  <2>3. ASSUME NEW w \in Pollers, Number(w)
        PROVE  Overtaken(u, t)'
    <3>1. over'[u][t] = over[u][t]
      BY <1>1, <2>1, <2>3, DispatchSeen, Zenon
    <3>2. Claims(t)' \subseteq Claims(t)
      BY <1>1, <2>3, StepClaims, Zenon
    <3>3. \A x, y \in NumberHolders \ {w} : number'[x] < number'[y] <=> number[x] < number[y]
      BY <1>1, <2>3, NumberOrder
    <3>4. \A x \in NumberHolders \ {w} : number'[x] < number'[w]
      BY <1>1, <2>3, NumberOrder
    <3>5. ASSUME NEW x \in Pollers, NumberedFor(x, t)', NumberedFor(x, t) => number[u] < number[x]
          PROVE  number'[u] < number'[x]
      <4>1. CASE x = w
        BY ONLY <4>1, <1>2, <3>4, <2>3
      <4>2. CASE x # w
        <5>1. worker'[x] = worker[x]
          BY ONLY <4>2, <1>1, <2>3, x \in Pollers, StepRows, Zenon
        <5>2. NumberedFor(x, t)
          BY <5>1, <3>5 DEF NumberedFor
        <5> QED  BY <5>2, <3>5, <4>2, <1>2, <3>3
      <4> QED  BY <4>1, <4>2
    <3>6. number'[u] < number'[t] <=> number[u] < number[t]
      BY ONLY <1>2, <2>3, <3>3, Zenon
    <3> QED  BY <1>1, <3>1, <3>2, <3>5, <3>6, OvertakenKept
  <2>4. ASSUME NEW w \in Pollers, Dispatch(w)
        PROVE  Overtaken(u, t)'
    <3> DEFINE d == TenantOf[worker[w].run]
    <3>1. worker'[w] = [pc |-> "running", run |-> worker[w].run] /\ d \in Tenants
          /\ \A x \in Pollers \ {w} : worker'[x] = worker[x]
      BY ONLY <1>1, <1>2, <2>4, StepRows, Zenon
    <3>2. d # u
      BY <1>1, <2>1, <2>4, DispatchSeen, Zenon
    <3>3. CASE d = t
      <4>1. over'[u][t] <= over[u][t] + 1
        BY ONLY <2>1, <1>2
      <4> QED  BY <1>1, <2>4, <3>3, <4>1, OvertakenByDispatch
    <3>4. CASE d # t
      <4>1. over'[u][t] = over[u][t]
        BY <1>1, <2>1, <2>4, <3>4, DispatchSeen, Zenon
      <4>2. Claims(t)' \subseteq Claims(t)
        BY <1>1, <2>4, StepClaims, Zenon
      <4> HIDE DEF d
      <4>3. \A x, y \in NumberHolders \ {d, w} : number'[x] < number'[y] <=> number[x] < number[y]
        BY <1>1, <2>4, <3>1, DispatchOrder DEF d
      <4>4. u \in NumberHolders \ {d, w} /\ t \in NumberHolders \ {d, w}
        BY ONLY <1>2, <2>4, <3>2, <3>4
      <4>5. \A x \in Pollers : NumberedFor(x, t)' => NumberedFor(x, t) /\ x \in NumberHolders \ {d, w}
        BY <1>1, <1>2, <3>1, HoldersAre DEF NumberedFor
      <4> QED  BY <1>1, <4>1, <4>2, <4>3, <4>4, <4>5, OvertakenKept, Zenon
    <3> QED  BY <3>3, <3>4
  <2>5. ASSUME NEW w \in Pollers, Rollback(w) \/ Finish(w) \/ Expire(w)
        PROVE  Overtaken(u, t)'
    <3>1. over'[u][t] = over[u][t]
      BY <1>1, <2>1, <2>5, DispatchSeen, Zenon
    <3>2. Claims(t)' \subseteq Claims(t)
      BY <1>1, <2>5, StepClaims, Zenon
    <3>3. \A x, y \in NumberHolders \ {w} : number'[x] < number'[y] <=> number[x] < number[y]
      <4>1. CASE Rollback(w)
        BY <1>1, <4>1, RollbackOrder
      <4>2. CASE Finish(w) \/ Expire(w)
        BY <4>2 DEF Finish, Expire
      <4> QED  BY <2>5, <4>1, <4>2, Zenon
    <3>4. worker'[w] = Idle /\ \A x \in Pollers \ {w} : worker'[x] = worker[x]
      BY ONLY <1>1, <2>5, StepRows, Zenon
    <3>5. \A x \in Pollers : NumberedFor(x, t)' => NumberedFor(x, t) /\ x \in NumberHolders \ {w}
      BY ONLY <1>2, <3>4 DEF NumberedFor, Idle
    <3>6. u \in NumberHolders \ {w} /\ t \in NumberHolders \ {w}
      BY ONLY <1>2, <2>5
    <3> QED  BY <1>1, <3>1, <3>2, <3>3, <3>5, <3>6, OvertakenKept, Zenon
  <2>6. ASSUME NEW r \in Runs, Wake(r)
        PROVE  Overtaken(u, t)'
    <3>1. over'[u][t] = over[u][t]
      BY <1>1, <2>1, <2>6, DispatchSeen, Zenon
    <3>2. number' = number /\ worker' = worker
      BY <2>6 DEF Wake
    <3>3. Claims(t)' = Claims(t) /\ \A x \in Pollers : NumberedFor(x, t)' <=> NumberedFor(x, t)
      BY ONLY <3>2 DEF Claims, Claiming, NumberedFor
    <3> QED  BY <1>1, <3>1, <3>2, <3>3, OvertakenKept
  <2> QED  BY <2>2, <2>3, <2>4, <2>5, <2>6 DEF DpNext, DpStep
<1> QED  BY <1>3, <1>4

LEMMA DpInitially ==
  ASSUME HoldersCounted, DpInit
  PROVE  DpInv
<1>1. Cardinality(NumberHolders) \in Nat
  <2>1. NumberHolders \in SUBSET NumberHolders
    OBVIOUS
  <2> QED  BY <2>1 DEF HoldersCounted
<1>2. DpTypes
  BY <1>1 DEF DpInit, DpTypes, NumberHolders, WorkerRow
<1>3. /\ \A w \in Pollers : worker[w] = Idle
      /\ \A x \in NumberHolders : number[x] = 0
      /\ \A u, t \in Tenants : over[u][t] = 0
  BY DEF DpInit, NumberHolders
<1>4. HeldAlone
  BY <1>3 DEF HeldAlone, Claiming, Idle
<1>5. \A w \in Pollers : \A t \in Tenants : ~NumberedFor(w, t)
  BY <1>3 DEF NumberedFor, Idle
<1>6. NumbersRise
  BY <1>5 DEF NumbersRise
<1>7. \A u, t \in Tenants : Overtaken(u, t)
  BY <1>3, <1>5 DEF Overtaken, NumberHolders
<1> QED  BY <1>2, <1>4, <1>6, <1>7 DEF DpInv

LEMMA DpSteps ==
  ASSUME HoldersCounted, DpInv, [DpNext]_dpVars
  PROVE  DpInv'
<1>1. CASE DpNext
  <2>1. DpTypes /\ HeldAlone /\ NumbersRise /\ DpStep
    BY <1>1 DEF DpInv, DpNext
  <2>2. DpTypes'
    BY <1>1, <2>1, DpTypesKept
  <2>3. HeldAlone'
    BY <2>1, HeldAloneKept
  <2>4. NumbersRise'
    BY <2>1, NumbersRiseKept
  <2>5. \A u, t \in Tenants : u # t => Overtaken(u, t)'
    BY <1>1, <2>2, OvertakenStep
  <2> QED  BY <2>2, <2>3, <2>4, <2>5 DEF DpInv
<1>2. CASE UNCHANGED dpVars
  <2>1. /\ queue' = queue /\ state' = state /\ number' = number /\ worker' = worker
        /\ over' = over
    BY <1>2 DEF dpVars
  <2>2. DpTypes'
    BY <2>1 DEF DpInv, DpTypes
  <2>3. HeldAlone'
    BY <2>1 DEF DpInv, HeldAlone, Claiming
  <2>4. NumbersRise'
    BY <2>1 DEF DpInv, NumbersRise, NumberedFor
  <2>5. \A u, t \in Tenants : Overtaken(u, t) => Overtaken(u, t)'
    BY <2>1 DEF Overtaken, NumberedFor, Claims, Claiming
  <2> QED  BY <2>2, <2>3, <2>4, <2>5 DEF DpInv
<1> QED  BY <1>1, <1>2

LEMMA DpBounds ==
  ASSUME HoldersCounted, DpInv
  PROVE  NoTenantStarves
<1>1. SUFFICES ASSUME NEW u \in Tenants, NEW t \in Tenants, u # t
               PROVE  over[u][t] <= Cardinality(Pollers) + 1
  BY DEF NoTenantStarves
<1>2. /\ over[u][t] \in Nat /\ Cardinality(Pollers) \in Nat /\ Cardinality(Claims(t)) \in Nat
      /\ Overtaken(u, t)
  BY <1>1, HoldersAre DEF DpInv, DpTypes
<1> QED  BY <1>2 DEF Overtaken

-----------------------------------------------------------------------------
(* Counting.                                                               *)

INSTANCE FiniteSetTheorems

LEMMA HoldersAreCounted == HoldersCounted
<1>1. IsFiniteSet(NumberHolders)
  BY DpAssumption DEF NumberHolders
<1>2. ASSUME NEW T \in SUBSET NumberHolders
      PROVE  /\ Cardinality(T) \in Nat
             /\ \A S \in SUBSET T : Cardinality(S) <= Cardinality(T)
             /\ \A x \in T : Cardinality(T \ {x}) < Cardinality(T)
  <2>1. IsFiniteSet(T)
    BY <1>1, FS_Subset
  <2>2. Cardinality(T) \in Nat
    BY <2>1, FS_CardinalityType
  <2>3. \A S \in SUBSET T : Cardinality(S) <= Cardinality(T)
    BY <2>1, FS_Subset
  <2>4. \A x \in T : Cardinality(T \ {x}) = Cardinality(T) - 1
    BY <2>1, FS_RemoveElement
  <2> QED  BY <2>2, <2>3, <2>4
<1> QED  BY <1>2 DEF HoldersCounted

\* The inductive invariant of the fair queue: numbers, claims and what has
\* overtaken whom (claim_next).
THEOREM DispatchInvariant == DpSpec => []DpInv
<1>1. DpInit => DpInv
  BY DpInitially, HoldersAreCounted
<1>2. DpInv /\ [DpNext]_dpVars => DpInv'
  BY DpSteps, HoldersAreCounted
<1> QED  BY <1>1, <1>2, PTL DEF DpSpec

\* No tenant is starved, for any number of tenants, Runs and Workers and any
\* priorities: while u waits, t is dispatched at most once per Worker and once
\* more (claim_next's ORDER BY last_dispatch_seq under stale reads).
THEOREM NoTenantIsStarved == DpSpec => []NoTenantStarves
<1>1. DpInv => NoTenantStarves
  BY DpBounds, HoldersAreCounted
<1> QED  BY <1>1, DispatchInvariant, PTL

=============================================================================
