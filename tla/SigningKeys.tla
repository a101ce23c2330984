------------------------------- MODULE SigningKeys -------------------------------
(***************************************************************************)
(* The signing keys JwtJwksVerifier caches, on the request threads of one  *)
(* API process.  A fetch runs under the verifier's lock; the clock is read *)
(* before the lock is taken.  The issuer retires and adds keys at any      *)
(* time; its answer is taken at one moment and arrives at a later one, at  *)
(* most Timeout after it was asked for, or never.  One clock stands for    *)
(* the wall clock and the monotonic one.                                   *)
(***************************************************************************)
EXTENDS Integers

CONSTANTS Threads, Nobody, Tokens, Kids,
          KidOf, IssuedAt, ExpiresAt,   \* header and claims of each token
          MaxLifetime, Skew,
          JwksCache, Cooldown,          \* jwks_cache_seconds, its refresh cooldown
          Timeout,                      \* request_timeout_seconds
          MaxSkTime                       \* bound: clock

ASSUME SigningKeysAssumption ==
  /\ {JwksCache, Timeout} \subseteq Nat \ {0}
  /\ {Cooldown, Skew, MaxSkTime, MaxLifetime} \subseteq Nat
  /\ KidOf \in [Tokens -> Kids]
  /\ IssuedAt \in [Tokens -> Nat] /\ ExpiresAt \in [Tokens -> Nat]
  /\ Nobody \notin Threads /\ Tokens # {}

VARIABLES published,   \* the keys in the issuer's set
          retiredAt,   \* when the issuer retired a key; Never if it has not
          jwks,        \* the verifier: keys, when fetched, last forced refresh, lock
          checks,      \* what each thread is doing
          skNow

skVars == <<published, retiredAt, jwks, checks, skNow>>

Never == MaxSkTime + 1
LongAgo == -(JwksCache + Cooldown)
Times == 0..MaxSkTime

Check == [pc : {"idle", "key", "fetch", "fetched", "claims", "verified", "refused"},
          token : Tokens, start : Times, asked : Times, keys : SUBSET Kids]
NoCheck == [pc |-> "idle", token |-> CHOOSE t \in Tokens : TRUE, start |-> 0, asked |-> 0,
            keys |-> {}]

Kid(r) == KidOf[checks[r].token]
To(r, pc) ==
  checks' = [checks EXCEPT ![r] = [@ EXCEPT !.pc = pc, !.asked = 0, !.keys = {}]]
Refuse(r) == checks' = [checks EXCEPT ![r] = [NoCheck EXCEPT !.pc = "refused"]]

-----------------------------------------------------------------------------

\* Mutant of KeyFresh: keys once fetched are good until a fetch replaces them.
FreshForever(r) == Kid(r) \in jwks.keys

KeyFresh(r) == Kid(r) \in jwks.keys /\ checks[r].start - jwks.fetched < JwksCache

Unknown(r) == Kid(r) \notin jwks.keys
CoolingDown(r) == Unknown(r) /\ checks[r].start - jwks.lastUnknown < Cooldown

\* verify, to the point where the key is looked up; the clock is read here.
StartVerify(r, t) ==
  /\ checks[r].pc \in {"idle", "verified", "refused"}
  /\ checks' = [checks EXCEPT ![r] =
                  [NoCheck EXCEPT !.pc = "key", !.token = t, !.start = skNow]]
  /\ UNCHANGED <<published, retiredAt, jwks, skNow>>

\* _key_for, under the lock.
KeyFor(r) ==
  /\ checks[r].pc = "key" /\ jwks.lock = Nobody
  /\ \/ KeyFresh(r) /\ To(r, "claims") /\ UNCHANGED jwks
     \/ ~ KeyFresh(r) /\ CoolingDown(r) /\ Refuse(r) /\ UNCHANGED jwks
     \/ /\ ~ KeyFresh(r) /\ ~ CoolingDown(r)
        /\ jwks' = [jwks EXCEPT !.lock = r,
                                !.lastUnknown = IF Unknown(r) THEN checks[r].start ELSE @]
        /\ checks' = [checks EXCEPT ![r] = [@ EXCEPT !.pc = "fetch", !.asked = skNow]]
  /\ UNCHANGED <<published, retiredAt, skNow>>

\* The issuer's answer is taken.
IssuerKeys(r) ==
  /\ checks[r].pc = "fetch"
  /\ checks' = [checks EXCEPT ![r] = [@ EXCEPT !.pc = "fetched", !.keys = published]]
  /\ UNCHANGED <<published, retiredAt, jwks, skNow>>

\* _fetch_keys returns: a set with a usable key replaces the cached one.
KeysArrive(r) ==
  /\ checks[r].pc = "fetched" /\ checks[r].keys # {}
  /\ jwks' = [jwks EXCEPT !.keys = checks[r].keys, !.fetched = skNow, !.lock = Nobody]
  /\ IF Kid(r) \in checks[r].keys THEN To(r, "claims") ELSE Refuse(r)
  /\ UNCHANGED <<published, retiredAt, skNow>>

\* _fetch_keys raises: the cached set stays as it was; the lock goes.
AfterFailure == [jwks EXCEPT !.lock = Nobody]

KeysFail(r) ==
  /\ checks[r].pc \in {"fetch", "fetched"}
  /\ jwks' = AfterFailure
  /\ Refuse(r)
  /\ UNCHANGED <<published, retiredAt, skNow>>

ClaimsHold(t, at) ==
  /\ at < ExpiresAt[t] + Skew /\ IssuedAt[t] <= at + Skew
  /\ IssuedAt[t] < ExpiresAt[t] /\ ExpiresAt[t] - IssuedAt[t] <= MaxLifetime

\* The claims are checked against the clock read at the start.
CheckClaims(r) ==
  /\ checks[r].pc = "claims"
  /\ IF ClaimsHold(checks[r].token, checks[r].start) THEN To(r, "verified") ELSE Refuse(r)
  /\ UNCHANGED <<published, retiredAt, jwks, skNow>>

\* The issuer retires a key for good, or starts to publish a new one.
RetireKey(k) ==
  /\ k \in published
  /\ published' = published \ {k}
  /\ retiredAt' = [retiredAt EXCEPT ![k] = skNow]
  /\ UNCHANGED <<jwks, checks, skNow>>

PublishKey(k) ==
  /\ k \notin published /\ retiredAt[k] = Never
  /\ published' = published \cup {k}
  /\ UNCHANGED <<retiredAt, jwks, checks, skNow>>

\* A call that is out for Timeout is over before time goes on.
SkTick ==
  /\ skNow < MaxSkTime
  /\ \A r \in Threads :
       checks[r].pc \in {"fetch", "fetched"} => skNow < checks[r].asked + Timeout
  /\ skNow' = skNow + 1
  /\ UNCHANGED <<published, retiredAt, jwks, checks>>

SkInit ==
  /\ published \in SUBSET Kids /\ retiredAt = [k \in Kids |-> Never]
  /\ jwks = [keys |-> {}, fetched |-> LongAgo, lastUnknown |-> LongAgo, lock |-> Nobody]
  /\ checks = [r \in Threads |-> NoCheck] /\ skNow = 0

ThreadStep(r) ==
  KeyFor(r) \/ IssuerKeys(r) \/ KeysArrive(r) \/ KeysFail(r) \/ CheckClaims(r)

SkNext ==
  \/ \E r \in Threads : ThreadStep(r) \/ \E t \in Tokens : StartVerify(r, t)
  \/ \E k \in Kids : RetireKey(k) \/ PublishKey(k)
  \/ SkTick

SkSpec == SkInit /\ [][SkNext]_skVars

-----------------------------------------------------------------------------
(* Properties.                                                             *)

\* Types; the lock is held exactly by a thread that is fetching.
SkTypeOK ==
  /\ published \in SUBSET Kids /\ retiredAt \in [Kids -> 0..Never]
  /\ checks \in [Threads -> Check] /\ skNow \in Times
  /\ \A r \in Threads : checks[r].pc \in {"fetch", "fetched"} <=> jwks.lock = r

\* A token signed with a retired key is refused once its request began a cache
\* life and a call after the retirement, through failed refreshes too.
RetiredKeysFade ==
  \A r \in Threads : checks[r].pc = "verified" =>
    retiredAt[Kid(r)] > checks[r].start - (JwksCache + Timeout)

=============================================================================
