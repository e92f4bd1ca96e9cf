----------------------------- MODULE TokenStore -----------------------------
(***************************************************************************)
(* The stores of apps/server/src/infrastructure/services/tokenStore.ts     *)
(* that the authentication routes use: CSRF tokens and sign-in attempts.   *)
(*                                                                         *)
(* Each store is two: Redis while it is connected, and a map in memory     *)
(* while it is not, or when Redis refuses a write.  A read looks in one of *)
(* them only, the one of the moment, and nothing is ever copied from one   *)
(* to the other.  Expiry is left out for CSRF tokens (an hour) and an      *)
(* action of Sessions for attempts (fifteen minutes).                      *)
(***************************************************************************)
EXTENDS Integers

CONSTANTS
    MaxCsrf   \* BOUND: CSRF tokens generated

ASSUME StoreAssumption == MaxCsrf \in Nat

VARIABLES
    redisUp,    \* isRedisConnected()
    csrf,       \* where each generated CSRF token is kept; absent after removal
    attempts    \* count of the account's attempts in each store, 0 for no entry

Stores == {"redis", "memory"}
CsrfTokens == 1..MaxCsrf

StoreTypeOK ==
    /\ redisUp \in BOOLEAN
    /\ csrf \in [CsrfTokens -> {"new", "redis", "memory", "removed"}]
    /\ attempts \in [Stores -> Nat]

StoreInit(up) ==
    /\ redisUp = up
    /\ csrf = [k \in CsrfTokens |-> "new"]
    /\ attempts = [s \in Stores |-> 0]

\* The store a call made now reads.
Current == IF redisUp THEN "redis" ELSE "memory"

\* The stores a write may reach: memory too, when Redis may refuse it.
Reached(mayRefuse) == IF mayRefuse THEN {Current, "memory"} ELSE {Current}

\* CSRFTokenStore.get answers with the data of k.
Found(k) == csrf[k] = Current

Generated == {k \in CsrfTokens : csrf[k] # "new"}

\* CSRFTokenStore.set of the next token.
SetCsrf(s) ==
    \E k \in CsrfTokens :
        /\ csrf[k] = "new"
        /\ \A j \in CsrfTokens : j < k => csrf[j] # "new"
        /\ csrf' = [csrf EXCEPT ![k] = s]

\* The tokens of the account removeAllForUser finds at its start.
KeysNow == {k \in CsrfTokens : Found(k)}

\* removeAllForUser, in memory: all at once.
RemoveAllInMemory ==
    csrf' = [k \in CsrfTokens |-> IF csrf[k] = "memory" THEN "removed" ELSE csrf[k]]

\* removeAllForUser, in Redis: one key at a time, and none once Redis is gone,
\* for RedisManager.get then answers null.
RemoveKey(k) ==
    csrf' = IF redisUp /\ csrf[k] = "redis" THEN [csrf EXCEPT ![k] = "removed"] ELSE csrf

\* RateLimitStore.get and set.
AttemptsNow == attempts[Current]
SetAttempts(s, n) == attempts' = [attempts EXCEPT ![s] = n]

\* Mutant: one attempt is taken back, the entry is not removed.
RemoveAttempts_OneBack ==
    attempts' = [attempts EXCEPT ![Current] = @ - 1]

\* RateLimitStore.remove.
RemoveAttempts ==
    attempts' = [attempts EXCEPT ![Current] = 0]

=============================================================================
