---------------------------- MODULE SigningKeys ----------------------------
(***************************************************************************)
(* How a worker checks id_tokens of a provider (src/auth/service.py): the  *)
(* provider's public keys are cached for an hour in two module variables,  *)
(* shared by all coroutines; a kid that the cache does not know forces one *)
(* refresh.  Google's and Apple's caches are the same code twice, and one  *)
(* of them is modelled.  Responses of overlapping refreshes may arrive in  *)
(* any order.                                                              *)
(***************************************************************************)
EXTENDS Integers, FiniteSets

CONSTANTS
    KeyIds,
    Verifications,  \* calls of _verify_google_id_token or _verify_apple_id_token
    Unread,         \* no token yet
    CacheTtl,       \* _JWKS_CACHE_TTL
    MaxInstant      \* bound on the clock

ASSUME SigningKeysAssumption ==
    CacheTtl \in Nat \ {0} /\ MaxInstant \in Nat /\ Unread \notin KeyIds

VARIABLES
    instant,    \* time.monotonic()
    published,  \* keys the provider serves
    lastServed, \* history: when a key was last served
    jwks,       \* the cached key set, {} for None
    fetchedAt,
    phase,      \* where a verification is
    kid,        \* the key its token names
    asked,      \* `now` of its running _get_jwks
    arriving,   \* the key set its response carries
    failed,     \* history: a fetch for it has failed
    steady      \* history: its key has been served ever since it began

keyVars == <<instant, published, lastServed, jwks, fetchedAt, phase, kid, asked,
             arriving, failed, steady>>
provider == <<published, lastServed>>
cache == <<jwks, fetchedAt>>
lookup == <<kid, asked, arriving, failed>>

Phases == {"idle", "asking", "waiting", "forcing", "forced",
           "accepted", "rejected"}

KeysInit ==
    /\ instant = 0
    /\ published = KeyIds
    /\ lastServed = [k \in KeyIds |-> 0]
    /\ jwks = {} /\ fetchedAt = 0
    /\ phase = [v \in Verifications |-> "idle"]
    /\ kid = [v \in Verifications |-> Unread]
    /\ asked = [v \in Verifications |-> 0]
    /\ arriving = [v \in Verifications |-> {}]
    /\ failed = [v \in Verifications |-> FALSE]
    /\ steady = [v \in Verifications |-> FALSE]

Enter(v, p) == phase' = [phase EXCEPT ![v] = p]

\* _find_jwks_key with the answer of its first or second _get_jwks.
Resolve(v, k, keys, p) ==
    Enter(v, IF k \in keys THEN "accepted"
             ELSE IF p = "asking" THEN "forcing" ELSE "rejected")

\* _get_jwks: the cache while it is young, and otherwise a request.
Fresh == jwks # {} /\ instant - fetchedAt < CacheTtl

Lookup(v) ==
    /\ phase[v] = "idle"
    /\ asked' = [asked EXCEPT ![v] = instant]
    /\ \E k \in KeyIds :
          /\ kid' = [kid EXCEPT ![v] = k]
          /\ steady' = [steady EXCEPT ![v] = k \in published]
          /\ IF Fresh THEN Resolve(v, k, jwks, "asking") ELSE Enter(v, "asking")
    /\ UNCHANGED <<instant, provider, cache, arriving, failed>>

\* The provider answers with the keys of the moment.
Serve(v) ==
    /\ phase[v] \in {"asking", "forcing"}
    /\ arriving' = [arriving EXCEPT ![v] = published]
    /\ Enter(v, IF phase[v] = "asking" THEN "waiting" ELSE "forced")
    /\ UNCHANGED <<instant, provider, cache, kid, asked, failed, steady>>

\* Mutant of Dated: the time at which the response arrives.
DatedByArrival(v) == instant

\* fetched_at = now, which was read before the request.
Dated(v) == asked[v]

\* status 200: the cache is replaced, also by a response that is late.  A
\* forced refresh starts with the time of the miss.
Arrive(v) ==
    LET p == IF phase[v] = "waiting" THEN "asking" ELSE "forcing" IN
    /\ phase[v] \in {"waiting", "forced"}
    /\ jwks' = arriving[v] /\ fetchedAt' = Dated(v)
    /\ Resolve(v, kid[v], arriving[v], p)
    /\ asked' = [asked EXCEPT ![v] = instant]
    /\ UNCHANGED <<instant, provider, kid, arriving, failed, steady>>

\* Another status: the cache, however old, or OAuthError without one.  A
\* request that does not come through raises at once.
FetchFails(v) ==
    /\ phase[v] \in {"asking", "forcing"}
    /\ failed' = [failed EXCEPT ![v] = TRUE]
    /\ \/ jwks # {} /\ Resolve(v, kid[v], jwks, phase[v])
       \/ Enter(v, "rejected")
    /\ asked' = [asked EXCEPT ![v] = instant]
    /\ UNCHANGED <<instant, provider, cache, kid, arriving, steady>>

\* The provider rotates: there is always a key.
Rotate ==
    /\ \E new \in SUBSET KeyIds \ {{}} :
          /\ published' = new
          /\ lastServed' = [k \in KeyIds |-> IF k \in published \cup new
                                             THEN instant ELSE lastServed[k]]
          /\ steady' = [v \in Verifications |-> steady[v] /\ kid[v] \in new]
    /\ UNCHANGED <<instant, cache, phase, lookup>>

Elapse ==
    /\ instant < MaxInstant
    /\ instant' = instant + 1
    /\ lastServed' = [k \in KeyIds |-> IF k \in published THEN instant + 1
                                       ELSE lastServed[k]]
    /\ UNCHANGED <<published, cache, phase, lookup, steady>>

KeysNext ==
    \/ \E v \in Verifications : Lookup(v) \/ Serve(v) \/ Arrive(v) \/ FetchFails(v)
    \/ Rotate \/ Elapse
KeysSpec == KeysInit /\ [][KeysNext]_keyVars
----------------------------------------------------------------------------
\* Rotations are followed in both directions, however refreshes overlap: a
\* cached key set is never older than its date says, and a key that the provider
\* serves all the while is not rejected unless a fetch failed ("retries after a
\* forced refresh, for key rotation", auth/service.py:89, 98).
RotationFollowed ==
    /\ \A k \in jwks : lastServed[k] >= fetchedAt
    /\ \A v \in Verifications :
          phase[v] = "rejected" /\ steady[v] => failed[v]
=============================================================================
