------------------------------ MODULE Sessions ------------------------------
(***************************************************************************)
(* The sessions of one account: the handlers of                            *)
(* apps/server/src/routes/auth.ts with middleware/auth.ts, the user row    *)
(* and the refresh tokens in the database, and the stores of TokenStore.   *)
(*                                                                         *)
(* A handler is a chain of awaits, each of which reads or writes one thing *)
(* shared with every other request of the account.  The model has a step   *)
(* for each of them and runs any requests in any order.                    *)
(* revokeAllUserTokens and revokeAllUserCSRFTokens are called without      *)
(* await: the answer goes out, and they happen later.                      *)
(*                                                                         *)
(* A refresh token is the JWT of {userId, iat, exp}, and iat counts        *)
(* seconds: two tokens of an account signed in one second are one string,  *)
(* and the second row is refused by the unique column.  So a token IS its  *)
(* second.                                                                 *)
(*                                                                         *)
(* Access tokens are JWTs checked by signature alone (no caller adds to    *)
(* the blacklist): a request that needs one may come once a session has    *)
(* been opened.                                                            *)
(***************************************************************************)
EXTENDS TokenStore, FiniteSets

CONSTANTS
    Requests,      \* slots for requests in progress
    Passwords,     \* passwords of the account, and guesses at it
    FirstPassword, \* the password it starts with
    MAX_LOGIN_ATTEMPTS,  \* wrong passwords that lock the account (5)
    MAX_AUTH_ATTEMPTS,   \* attempts that close the window (10)
    Worlds,        \* what may happen in one behaviour
    LastSecond,    \* BOUND: seconds that pass, so tokens that can be signed
    MaxLinks,      \* BOUND: reset links asked for
    MaxFailures    \* BOUND: failedLoginCount at which no more failures are counted

(***************************************************************************)
(* Requests, and what the world adds: no account yet, the sign-in limiter  *)
(* (off in development), refused database writes, Redis coming and going.  *)
(* An account that is deleted and registered again is another one.         *)
(***************************************************************************)
Happenings ==
    {"register", "login", "guess", "refresh", "logout", "csrf", "change", "delete",
     "forgot", "reset", "status", "update", "unlock", "import",
     "limits", "db_fails", "redis_fails"}

ASSUME SessionsAssumption ==
    /\ FirstPassword \in Passwords
    /\ IsFiniteSet(Requests)
    /\ MAX_LOGIN_ATTEMPTS \in Nat \ {0}
    /\ MAX_AUTH_ATTEMPTS \in Nat \ {0, 1}
    /\ Worlds \subseteq SUBSET Happenings
    /\ \A w \in Worlds : ~ {"register", "delete"} \subseteq w
    /\ LastSecond \in Nat \ {0}
    /\ MaxLinks \in Nat
    /\ MaxFailures \in Nat

VARIABLES
    world,     \* what may happen in this behaviour
    now,       \* the second
    user,      \* the row of the account
    tokens,    \* the row of each refresh token, "none" for no row
    req,       \* the requests in progress
    parent,    \* HISTORY: the token a token was exchanged for, 0 for a sign-in
    stale,     \* HISTORY: tokens that a sign-out was to end, and their line
    raced,     \* HISTORY: tokens of requests that met a sign-out half done, and their line
    shared,    \* HISTORY: tokens two refreshes had verified and not yet revoked
    oldCsrf,   \* HISTORY: CSRF tokens a sign-out was to remove
    newCsrf,   \* HISTORY: CSRF tokens generated during such a removal
    guesses,   \* HISTORY: wrong passwords since the count or the lock was last cleared
    admitted,  \* HISTORY: sign-ins the limiter let through in this window
    uses,      \* HISTORY: times each reset link changed the password
    hitches    \* HISTORY: what has happened that the handlers do not provide for

storeVars == <<redisUp, csrf, attempts>>
rowVars == <<user, tokens>>
tokenHistory == <<parent, stale, raced, shared>>
csrfHistory == <<oldCsrf, newCsrf>>
countHistory == <<guesses, admitted, uses>>
vars == <<world, now, redisUp, csrf, attempts, user, tokens, req, parent, stale, raced,
          shared, oldCsrf, newCsrf, guesses, admitted, uses, hitches>>

Tokens == 1..LastSecond
Links == 1..MaxLinks

\* The awaits a request may be at; "idle" for a free slot.
Steps ==
    {"idle", "limit_get", "limit_set", "find", "compare", "count_get", "count_set",
     "lock", "unlock", "clear", "store", "verify", "find_user", "revoke_one",
     "change_csrf", "change_find", "change_update", "delete_csrf", "delete_row",
     "forgot_set", "reset_find", "reset_update", "register_find", "register_create",
     "register_rows", "after"}

(***************************************************************************)
(* A request: the await it is at, the refresh token it was sent, the one   *)
(* it has signed, the password and the new password sent, the hash or the  *)
(* count it has read, the reset link, and what it started without await:   *)
(* "revoke", "drop", and the keys the drop has yet to go through.  HISTORY: *)
(* whether it has met a sign-out half done.                                *)
(***************************************************************************)
Request ==
    [at : Steps, old : Tokens \cup {0}, signed : Tokens \cup {0},
     password : Passwords, wanted : Passwords, hash : Passwords,
     seen : Nat, link : Links \cup {0},
     todo : SUBSET {"revoke", "drop"}, keys : SUBSET CsrfTokens,
     crossed : BOOLEAN]

Idle == [at |-> "idle", old |-> 0, signed |-> 0,
         password |-> FirstPassword, wanted |-> FirstPassword, hash |-> FirstPassword,
         seen |-> 0, link |-> 0, todo |-> {}, keys |-> {}, crossed |-> FALSE]

UserRow ==
    [exists : BOOLEAN, isActive : BOOLEAN, password : Passwords,
     failedLoginCount : Nat, locked : BOOLEAN, resetToken : Links \cup {0}, lastLink : Links \cup {0}]

Hitches == {"db_failure", "same_second", "redis_trouble", "counter_race",
            "limiter_race", "reset_race"}

\* Every variable has its type.
TypeOK ==
    /\ StoreTypeOK
    /\ world \in Worlds
    /\ now \in Tokens
    /\ user \in UserRow
    /\ tokens \in [Tokens -> {"none", "valid", "revoked"}]
    /\ req \in [Requests -> Request]
    /\ parent \in [Tokens -> Tokens \cup {0}]
    /\ stale \in SUBSET Tokens
    /\ raced \in SUBSET Tokens
    /\ shared \in SUBSET Tokens
    /\ oldCsrf \in SUBSET CsrfTokens
    /\ newCsrf \in SUBSET CsrfTokens
    /\ guesses \in Nat
    /\ admitted \in Nat
    /\ uses \in [Links -> Nat]
    /\ hitches \in SUBSET Hitches

\* A session was opened in second 1, unless the account is yet to be registered.
Init ==
    /\ world \in Worlds
    /\ StoreInit(TRUE)
    /\ now = 1
    /\ user = [exists |-> "register" \notin world, isActive |-> TRUE,
               password |-> FirstPassword, failedLoginCount |-> 0, locked |-> FALSE,
               resetToken |-> 0, lastLink |-> 0]
    /\ tokens = [t \in Tokens |->
                    IF t = 1 /\ "register" \notin world THEN "valid" ELSE "none"]
    /\ req = [r \in Requests |-> Idle]
    /\ parent = [t \in Tokens |-> 0]
    /\ stale = {}
    /\ raced = {}
    /\ shared = {}
    /\ oldCsrf = {}
    /\ newCsrf = {}
    /\ guesses = 0
    /\ admitted = 0
    /\ uses = [k \in Links |-> 0]
    /\ hitches = {}

-----------------------------------------------------------------------------
At(r, s) == req[r].at = s
Becomes(r, q) == req' = [req EXCEPT ![r] = q]
Go(r, s) == Becomes(r, [req[r] EXCEPT !.at = s])
End(r) == Becomes(r, Idle)

\* A free slot takes a request of kind k.
Free(r, k) == At(r, "idle") /\ k \in world

Issued == {t \in Tokens : tokens[t] # "none"}
Pending == \E r \in Requests : "revoke" \in req[r].todo
Dropping == \E r \in Requests : "drop" \in req[r].todo \/ req[r].keys # {}

\* A write of the database the world lets fail.
MayFail == "db_fails" \in world
Note(h) == hitches' = hitches \cup {h}
NoteIf(b, h) == hitches' = IF b THEN hitches \cup {h} ELSE hitches

\* Another request has read the count and is to write it, or to lock.
Counting(r) == \E o \in Requests \ {r} : req[o].at = "count_set"
Locking(r) == \E o \in Requests \ {r} : req[o].at \in {"count_set", "lock"}

\* BOUND: the history counts stop where their properties would be broken.
GuessLimit == MAX_LOGIN_ATTEMPTS + Cardinality(Requests)
OneMore(n, limit) == IF n < limit THEN n + 1 ELSE n

\* r goes on from the read that decides whether it may open a session.
Decided(r, s) == Becomes(r, [req[r] EXCEPT !.at = s, !.crossed = Pending])

\* generateTokens up to its first await: the token of this second is signed.
Sign(r) == Becomes(r, [req[r] EXCEPT !.at = "store", !.signed = now])

(***************************************************************************)
(* The handler answers and leaves todo to happen later: every token of the *)
(* account is to end.                                                      *)
(***************************************************************************)
SignOut(r, todo) ==
    /\ req' = [o \in Requests |->
                 IF o = r THEN [Idle EXCEPT !.at = "after", !.todo = todo]
                 ELSE IF req[o].at \in {"idle", "after"} THEN req[o]
                 ELSE [req[o] EXCEPT !.crossed = TRUE]]
    /\ stale' = Issued
    /\ raced' = {}
    /\ oldCsrf' = IF "drop" \in todo THEN Generated ELSE oldCsrf
    /\ newCsrf' = IF "drop" \in todo THEN {} ELSE newCsrf
    /\ UNCHANGED <<parent, shared>>

-----------------------------------------------------------------------------
(***************************************************************************)
(* POST /register, for an account that does not exist yet.                 *)
(***************************************************************************)
Register(r, p) ==
    /\ Free(r, "register")
    /\ Becomes(r, [Idle EXCEPT !.at = "register_find", !.password = p])
    /\ UNCHANGED <<world, now, storeVars, rowVars, tokenHistory, csrfHistory, countHistory, hitches>>

RegisterFind(r) ==
    /\ At(r, "register_find")
    /\ IF user.exists THEN End(r) ELSE Go(r, "register_create")
    /\ UNCHANGED <<world, now, storeVars, rowVars, tokenHistory, csrfHistory, countHistory, hitches>>

\* The e-mail column is unique.
RegisterCreate(r) ==
    /\ At(r, "register_create")
    /\ IF user.exists
       THEN End(r) /\ UNCHANGED user
       ELSE /\ user' = [user EXCEPT !.exists = TRUE, !.password = req[r].password]
            /\ Decided(r, "register_rows")
    /\ UNCHANGED <<world, now, storeVars, tokens, tokenHistory, csrfHistory, countHistory, hitches>>

\* The five rows of the default watchlist; a refused one ends the request,
\* and the account stays.
RegisterRows(r) ==
    /\ At(r, "register_rows")
    /\ \/ Sign(r) /\ UNCHANGED hitches
       \/ MayFail /\ End(r) /\ Note("db_failure")
    /\ UNCHANGED <<world, now, storeVars, rowVars, tokenHistory, csrfHistory, countHistory>>

-----------------------------------------------------------------------------
(***************************************************************************)
(* POST /login with the password of the account, or with another.          *)
(***************************************************************************)
Login(r, p) ==
    /\ IF p = user.password THEN Free(r, "login") ELSE Free(r, "guess")
    /\ Becomes(r, [Idle EXCEPT !.at = IF "limits" \in world THEN "limit_get" ELSE "find",
                               !.password = p])
    /\ UNCHANGED <<world, now, storeVars, rowVars, tokenHistory, csrfHistory, countHistory, hitches>>

\* rateLimitAuth: the entry is read, and refuses the attempt or is to be
\* written with one more.
LimitGet(r) ==
    /\ At(r, "limit_get")
    /\ IF AttemptsNow >= MAX_AUTH_ATTEMPTS
       THEN End(r)
       ELSE Becomes(r, [req[r] EXCEPT !.at = "limit_set", !.seen = AttemptsNow])
    /\ UNCHANGED <<world, now, storeVars, rowVars, tokenHistory, csrfHistory, countHistory, hitches>>

\* Mutant: the count has to pass the limit.
LimitSet_PastLimit(r) ==
    /\ At(r, "limit_set")
    /\ \E s \in Reached("redis_fails" \in world) :
           /\ SetAttempts(s, req[r].seen + 1)
           /\ hitches' = hitches
                  \cup (IF s # Current THEN {"redis_trouble"} ELSE {})
                  \cup (IF \E o \in Requests \ {r} : At(o, "limit_set")
                        THEN {"limiter_race"} ELSE {})
    /\ IF req[r].seen + 1 > MAX_AUTH_ATTEMPTS
       THEN End(r) /\ UNCHANGED admitted
       ELSE /\ Becomes(r, [req[r] EXCEPT !.at = "find", !.seen = 0])
            /\ admitted' = OneMore(admitted, MAX_AUTH_ATTEMPTS)
    /\ UNCHANGED <<world, now, redisUp, csrf, rowVars, tokenHistory, csrfHistory, guesses, uses>>

LimitSet(r) ==
    /\ At(r, "limit_set")
    /\ \E s \in Reached("redis_fails" \in world) :
           /\ SetAttempts(s, req[r].seen + 1)
           /\ hitches' = hitches
                  \cup (IF s # Current THEN {"redis_trouble"} ELSE {})
                  \cup (IF \E o \in Requests \ {r} : At(o, "limit_set")
                        THEN {"limiter_race"} ELSE {})
    /\ IF req[r].seen + 1 >= MAX_AUTH_ATTEMPTS
       THEN End(r) /\ UNCHANGED admitted
       ELSE /\ Becomes(r, [req[r] EXCEPT !.at = "find", !.seen = 0])
            /\ admitted' = OneMore(admitted, MAX_AUTH_ATTEMPTS)
    /\ UNCHANGED <<world, now, redisUp, csrf, rowVars, tokenHistory, csrfHistory, guesses, uses>>

\* findByEmail and the checks of the row it returns.
FindUser(r) ==
    /\ At(r, "find")
    /\ IF user.exists /\ user.isActive /\ ~user.locked
       THEN Becomes(r, [req[r] EXCEPT !.at = "compare", !.hash = user.password,
                                      !.crossed = Pending])
       ELSE End(r)
    /\ UNCHANGED <<world, now, storeVars, rowVars, tokenHistory, csrfHistory, countHistory, hitches>>

\* comparePassword, against the hash that was read.
Compare(r) ==
    /\ At(r, "compare")
    /\ IF req[r].password = req[r].hash
       THEN Go(r, "unlock") /\ UNCHANGED guesses
       ELSE Go(r, "count_get") /\ guesses' = OneMore(guesses, GuessLimit)
    /\ UNCHANGED <<world, now, storeVars, rowVars, tokenHistory, csrfHistory, admitted, uses, hitches>>

\* incrementFailedLogin: updateLoginCount reads the row, then writes one more;
\* at the limit lockUser writes again.  An error ends it silently.
CountGet(r) ==
    /\ At(r, "count_get")
    /\ user.failedLoginCount < MaxFailures    \* BOUND
    /\ IF user.exists
       THEN Becomes(r, [req[r] EXCEPT !.at = "count_set", !.seen = user.failedLoginCount])
       ELSE End(r)
    /\ UNCHANGED <<world, now, storeVars, rowVars, tokenHistory, csrfHistory, countHistory, hitches>>

\* Mutant: the count has to pass the limit.
CountSet_PastLimit(r) ==
    /\ At(r, "count_set")
    /\ IF ~user.exists
       THEN End(r) /\ UNCHANGED <<user, hitches>>
       ELSE \/ /\ user' = [user EXCEPT !.failedLoginCount = req[r].seen + 1]
               /\ IF req[r].seen + 1 > MAX_LOGIN_ATTEMPTS
                  THEN Becomes(r, [req[r] EXCEPT !.at = "lock", !.seen = 0])
                  ELSE End(r)
               /\ NoteIf(Counting(r), "counter_race")
            \/ MayFail /\ End(r) /\ Note("db_failure") /\ UNCHANGED user
    /\ UNCHANGED <<world, now, storeVars, tokens, tokenHistory, csrfHistory, countHistory>>

CountSet(r) ==
    /\ At(r, "count_set")
    /\ IF ~user.exists
       THEN End(r) /\ UNCHANGED <<user, hitches>>
       ELSE \/ /\ user' = [user EXCEPT !.failedLoginCount = req[r].seen + 1]
               /\ IF req[r].seen + 1 >= MAX_LOGIN_ATTEMPTS
                  THEN Becomes(r, [req[r] EXCEPT !.at = "lock", !.seen = 0])
                  ELSE End(r)
               /\ NoteIf(Counting(r), "counter_race")
            \/ MayFail /\ End(r) /\ Note("db_failure") /\ UNCHANGED user
    /\ UNCHANGED <<world, now, storeVars, tokens, tokenHistory, csrfHistory, countHistory>>

LockUser(r) ==
    /\ At(r, "lock")
    /\ user' = IF user.exists THEN [user EXCEPT !.locked = TRUE] ELSE user
    /\ End(r)
    /\ UNCHANGED <<world, now, storeVars, tokens, tokenHistory, csrfHistory, countHistory, hitches>>

\* resetFailedLogin: unlockUser (updateLastLogin writes nothing modelled); an
\* error is swallowed.
UnlockUser(r) ==
    /\ At(r, "unlock")
    /\ \/ /\ user' = IF user.exists THEN [user EXCEPT !.locked = FALSE, !.failedLoginCount = 0]
                     ELSE user
          /\ guesses' = 0
          /\ NoteIf(Locking(r), "counter_race")
       \/ MayFail /\ Note("db_failure") /\ UNCHANGED <<user, guesses>>
    /\ Go(r, "clear")
    /\ UNCHANGED <<world, now, storeVars, tokens, tokenHistory, csrfHistory, admitted, uses>>

\* clearAuthAttempts, and the first part of generateTokens.
ClearAttempts(r) ==
    /\ At(r, "clear")
    /\ RemoveAttempts
    /\ admitted' = 0
    /\ NoteIf(\E o \in Requests \ {r} : At(o, "limit_set"), "limiter_race")
    /\ Sign(r)
    /\ UNCHANGED <<world, now, redisUp, csrf, rowVars, tokenHistory, csrfHistory, guesses, uses>>

(***************************************************************************)
(* The end of generateTokens, for /login, /refresh and /register: the row  *)
(* of the signed token.  It is refused when the token of that second is    *)
(* there already, or the account no longer is; the answer is then an       *)
(* error, and sets no cookie.                                              *)
(***************************************************************************)
StoreToken(r) ==
    LET t == req[r].signed
        old == req[r].old
    IN  /\ At(r, "store")
        /\ \/ /\ tokens[t] = "none" /\ user.exists
              /\ tokens' = [tokens EXCEPT ![t] = "valid"]
              /\ parent' = [parent EXCEPT ![t] = old]
              /\ raced' = IF req[r].crossed \/ Pending \/ old \in raced
                          THEN raced \cup {t} ELSE raced
              /\ stale' = IF old \in stale THEN stale \cup {t} ELSE stale
              /\ UNCHANGED hitches
           \/ /\ tokens[t] # "none" \/ ~user.exists
              /\ NoteIf(user.exists, "same_second")
              /\ UNCHANGED <<tokens, parent, raced, stale>>
           \/ /\ MayFail
              /\ Note("db_failure")
              /\ UNCHANGED <<tokens, parent, raced, stale>>
        /\ End(r)
        /\ UNCHANGED <<world, now, storeVars, user, shared, csrfHistory, countHistory>>

-----------------------------------------------------------------------------
(***************************************************************************)
(* POST /refresh with token t, of any client that was given it.            *)
(***************************************************************************)
Refresh(r, t) ==
    /\ Free(r, "refresh")
    /\ t \in Issued
    /\ Becomes(r, [Idle EXCEPT !.at = "verify", !.old = t])
    /\ UNCHANGED <<world, now, storeVars, rowVars, tokenHistory, csrfHistory, countHistory, hitches>>

\* verifyRefreshToken: the row is there and not revoked.
Verify(r) ==
    LET t == req[r].old
    IN  /\ At(r, "verify")
        /\ IF tokens[t] = "valid"
           THEN /\ Decided(r, "find_user")
                /\ shared' = IF \E o \in Requests \ {r} :
                                    req[o].old = t /\ req[o].at \in {"find_user", "revoke_one"}
                             THEN shared \cup {t} ELSE shared
           ELSE End(r) /\ UNCHANGED shared
        /\ UNCHANGED <<world, now, storeVars, rowVars, parent, stale, raced,
                       csrfHistory, countHistory, hitches>>

\* findById.  Without the account the token, if a row is left, is revoked;
\* the rows went with the account.
FindById(r) ==
    /\ At(r, "find_user")
    /\ IF user.exists THEN Go(r, "revoke_one") ELSE End(r)
    /\ UNCHANGED <<world, now, storeVars, rowVars, tokenHistory, csrfHistory, countHistory, hitches>>

\* Mutant: the token that was exchanged stays good.
RevokeOne_Forgets(r) ==
    /\ At(r, "revoke_one")
    /\ Sign(r)
    /\ UNCHANGED <<world, now, storeVars, rowVars, tokenHistory, csrfHistory, countHistory, hitches>>

\* revokeRefreshToken, whose error is swallowed, and the first part of
\* generateTokens.
RevokeOne(r) ==
    LET t == req[r].old
    IN  /\ At(r, "revoke_one")
        /\ \/ /\ tokens' = IF tokens[t] # "none" THEN [tokens EXCEPT ![t] = "revoked"] ELSE tokens
              /\ UNCHANGED hitches
           \/ MayFail /\ Note("db_failure") /\ UNCHANGED tokens
        /\ Sign(r)
        /\ UNCHANGED <<world, now, storeVars, user, tokenHistory, csrfHistory, countHistory>>

-----------------------------------------------------------------------------
\* POST /logout.
Logout(r) ==
    /\ Free(r, "logout")
    /\ Issued # {}
    /\ SignOut(r, {"revoke"})
    /\ UNCHANGED <<world, now, storeVars, rowVars, countHistory, hitches>>

\* GET /csrf-token: generateCSRFToken.
CsrfToken(r) ==
    /\ Free(r, "csrf")
    /\ Issued # {}
    /\ \E s \in Reached("redis_fails" \in world) :
           /\ SetCsrf(s)
           /\ NoteIf(s # Current, "redis_trouble")
    /\ newCsrf' = IF Dropping THEN newCsrf \cup {k \in CsrfTokens : csrf[k] # csrf'[k]} ELSE newCsrf
    /\ UNCHANGED <<world, now, redisUp, attempts, rowVars, req, tokenHistory, oldCsrf, countHistory>>

(***************************************************************************)
(* POST /change-password.  requireCSRF looks the sent token up, the row is *)
(* read, and the passwords sent are compared with the hash that was read.  *)
(***************************************************************************)
ChangePassword(r, p, q) ==
    /\ Free(r, "change")
    /\ Issued # {}
    /\ Becomes(r, [Idle EXCEPT !.at = "change_csrf", !.password = p, !.wanted = q])
    /\ UNCHANGED <<world, now, storeVars, rowVars, tokenHistory, csrfHistory, countHistory, hitches>>

\* requireCSRF: the request goes on to s with a token the store finds; it was
\* sent with any token, or with none.
RequireCsrf(r, from, s) ==
    /\ At(r, from)
    /\ \/ (\E k \in Generated : Found(k)) /\ Go(r, s)
       \/ End(r)
    /\ UNCHANGED <<world, now, storeVars, rowVars, tokenHistory, csrfHistory, countHistory, hitches>>

ChangeFind(r) ==
    /\ At(r, "change_find")
    /\ IF user.exists /\ req[r].password = user.password /\ req[r].wanted # user.password
       THEN Go(r, "change_update") ELSE End(r)
    /\ UNCHANGED <<world, now, storeVars, rowVars, tokenHistory, csrfHistory, countHistory, hitches>>

\* Mutant: the refresh tokens are forgotten.
ChangeUpdate_DropOnly(r) ==
    /\ At(r, "change_update")
    /\ IF user.exists
       THEN /\ user' = [user EXCEPT !.password = req[r].wanted]
            /\ SignOut(r, {"drop"})
       ELSE End(r) /\ UNCHANGED <<user, tokenHistory, csrfHistory>>
    /\ UNCHANGED <<world, now, storeVars, tokens, countHistory, hitches>>

ChangeUpdate(r) ==
    /\ At(r, "change_update")
    /\ IF user.exists
       THEN /\ user' = [user EXCEPT !.password = req[r].wanted]
            /\ SignOut(r, {"revoke", "drop"})
       ELSE End(r) /\ UNCHANGED <<user, tokenHistory, csrfHistory>>
    /\ UNCHANGED <<world, now, storeVars, tokens, countHistory, hitches>>

(***************************************************************************)
(* DELETE /account: the rows of the refresh tokens go with the account.    *)
(***************************************************************************)
DeleteAccount(r) ==
    /\ Free(r, "delete")
    /\ Issued # {}
    /\ Becomes(r, [Idle EXCEPT !.at = "delete_csrf"])
    /\ UNCHANGED <<world, now, storeVars, rowVars, tokenHistory, csrfHistory, countHistory, hitches>>

DeleteRow(r) ==
    /\ At(r, "delete_row")
    /\ IF user.exists
       THEN /\ user' = [user EXCEPT !.exists = FALSE]
            /\ tokens' = [t \in Tokens |-> "none"]
            /\ SignOut(r, {"revoke", "drop"})
       ELSE End(r) /\ UNCHANGED <<rowVars, tokenHistory, csrfHistory>>
    /\ UNCHANGED <<world, now, storeVars, countHistory, hitches>>

-----------------------------------------------------------------------------
\* POST /forgot-password: findByEmail, and the next link is made.
ForgotPassword(r) ==
    /\ Free(r, "forgot")
    /\ user.exists /\ user.isActive
    /\ user.lastLink < MaxLinks    \* BOUND
    /\ user' = [user EXCEPT !.lastLink = @ + 1]
    /\ Becomes(r, [Idle EXCEPT !.at = "forgot_set", !.link = user.lastLink + 1])
    /\ UNCHANGED <<world, now, storeVars, tokens, tokenHistory, csrfHistory, countHistory, hitches>>

ForgotSet(r) ==
    /\ At(r, "forgot_set")
    /\ user' = IF user.exists THEN [user EXCEPT !.resetToken = req[r].link] ELSE user
    /\ End(r)
    /\ UNCHANGED <<world, now, storeVars, tokens, tokenHistory, csrfHistory, countHistory, hitches>>

\* POST /reset-password with link k, any of those made.
ResetPassword(r, k, q) ==
    /\ Free(r, "reset")
    /\ k <= user.lastLink
    /\ Becomes(r, [Idle EXCEPT !.at = "reset_find", !.link = k, !.wanted = q])
    /\ UNCHANGED <<world, now, storeVars, rowVars, tokenHistory, csrfHistory, countHistory, hitches>>

\* findByResetToken.
ResetFind(r) ==
    /\ At(r, "reset_find")
    /\ IF user.exists /\ user.resetToken = req[r].link
       THEN /\ Go(r, "reset_update")
            /\ NoteIf(\E o \in Requests \ {r} : At(o, "reset_update") /\ req[o].link = req[r].link,
                      "reset_race")
       ELSE End(r) /\ UNCHANGED hitches
    /\ UNCHANGED <<world, now, storeVars, rowVars, tokenHistory, csrfHistory, countHistory>>

\* Mutant: the link is not cleared.
ResetUpdate_KeepsLink(r) ==
    /\ At(r, "reset_update")
    /\ IF user.exists
       THEN /\ user' = [user EXCEPT !.password = req[r].wanted,
                                    !.failedLoginCount = 0, !.locked = FALSE]
            /\ uses' = [uses EXCEPT ![req[r].link] = @ + 1]
            /\ guesses' = 0
            /\ NoteIf(Locking(r), "counter_race")
            /\ SignOut(r, {"revoke", "drop"})
       ELSE End(r) /\ UNCHANGED <<user, tokenHistory, csrfHistory, guesses, uses, hitches>>
    /\ UNCHANGED <<world, now, storeVars, tokens, admitted>>

\* The password is written, the link and the lock are cleared.
ResetUpdate(r) ==
    /\ At(r, "reset_update")
    /\ IF user.exists
       THEN /\ user' = [user EXCEPT !.password = req[r].wanted, !.resetToken = 0,
                                    !.failedLoginCount = 0, !.locked = FALSE]
            /\ uses' = [uses EXCEPT ![req[r].link] = @ + 1]
            /\ guesses' = 0
            /\ NoteIf(Locking(r), "counter_race")
            /\ SignOut(r, {"revoke", "drop"})
       ELSE End(r) /\ UNCHANGED <<user, tokenHistory, csrfHistory, guesses, uses, hitches>>
    /\ UNCHANGED <<world, now, storeVars, tokens, admitted>>

-----------------------------------------------------------------------------
\* Mutant: an activation revokes the tokens too.
SetStatus_RevokesAlways(r, active) ==
    /\ Free(r, "status")
    /\ user.exists
    /\ user' = [user EXCEPT !.isActive = active, !.locked = FALSE, !.failedLoginCount = 0]
    /\ guesses' = 0
    /\ NoteIf(Locking(r), "counter_race")
    /\ IF active THEN /\ Becomes(r, [Idle EXCEPT !.at = "after", !.todo = {"revoke"}])
                     /\ UNCHANGED <<tokenHistory, csrfHistory>>
       ELSE SignOut(r, {"revoke", "drop"})
    /\ UNCHANGED <<world, now, storeVars, tokens, admitted, uses>>

(***************************************************************************)
(* Requests of an administrator about the account: PUT /users/:id/status,  *)
(* PUT /users/:id, POST /users/:id/unlock, and a row of POST /users/import *)
(* for an account that exists.  The row is looked for and written; what is *)
(* read decides nothing but that it exists.                                *)
(***************************************************************************)
SetStatus(r, active) ==
    /\ Free(r, "status")
    /\ user.exists
    /\ user' = [user EXCEPT !.isActive = active, !.locked = FALSE, !.failedLoginCount = 0]
    /\ guesses' = 0
    /\ NoteIf(Locking(r), "counter_race")
    /\ IF active THEN UNCHANGED <<req, tokenHistory, csrfHistory>>
       ELSE SignOut(r, {"revoke", "drop"})
    /\ UNCHANGED <<world, now, storeVars, tokens, admitted, uses>>

UpdateUser(r, active) ==
    /\ Free(r, "update")
    /\ user.exists
    /\ IF active
       THEN /\ user' = [user EXCEPT !.isActive = TRUE, !.locked = FALSE, !.failedLoginCount = 0]
            /\ guesses' = 0
            /\ NoteIf(Locking(r), "counter_race")
            /\ UNCHANGED <<req, tokenHistory, csrfHistory>>
       ELSE /\ user' = [user EXCEPT !.isActive = FALSE]
            /\ SignOut(r, {"revoke", "drop"})
            /\ UNCHANGED <<guesses, hitches>>
    /\ UNCHANGED <<world, now, storeVars, tokens, admitted, uses>>

UnlockAccount(r) ==
    /\ Free(r, "unlock")
    /\ user.exists
    /\ user' = [user EXCEPT !.locked = FALSE, !.failedLoginCount = 0]
    /\ guesses' = 0
    /\ NoteIf(Locking(r), "counter_race")
    /\ UNCHANGED <<world, now, storeVars, tokens, req, tokenHistory, csrfHistory, admitted, uses>>

\* No token is revoked.
ImportUser(r, active) ==
    /\ Free(r, "import")
    /\ user.exists
    /\ user' = [user EXCEPT !.isActive = active]
    /\ UNCHANGED <<world, now, storeVars, tokens, req, tokenHistory, csrfHistory, countHistory, hitches>>

-----------------------------------------------------------------------------
\* The slot is free when nothing it left to happen is outstanding.
Remaining(r, todo, keys) ==
    Becomes(r, IF todo = {} /\ keys = {} THEN Idle
               ELSE [req[r] EXCEPT !.todo = todo, !.keys = keys])

\* revokeAllUserTokens: updateMany, whose error is swallowed.
RevokeAll(r) ==
    /\ "revoke" \in req[r].todo
    /\ \/ /\ tokens' = [t \in Tokens |-> IF tokens[t] = "valid" THEN "revoked" ELSE tokens[t]]
          /\ UNCHANGED hitches
       \/ MayFail /\ Note("db_failure") /\ UNCHANGED tokens
    /\ Remaining(r, req[r].todo \ {"revoke"}, req[r].keys)
    /\ UNCHANGED <<world, now, storeVars, user, tokenHistory, csrfHistory, countHistory>>

\* Mutant: only the map in memory is gone through.
DropCsrf_MemoryOnly(r) ==
    /\ "drop" \in req[r].todo
    /\ Remaining(r, req[r].todo \ {"drop"}, {}) /\ RemoveAllInMemory
    /\ UNCHANGED <<world, now, redisUp, attempts, rowVars, tokenHistory, csrfHistory, countHistory, hitches>>

\* revokeAllUserCSRFTokens: in memory at once, in Redis key by key.
DropCsrf(r) ==
    /\ "drop" \in req[r].todo
    /\ IF redisUp
       THEN Remaining(r, req[r].todo \ {"drop"}, KeysNow) /\ UNCHANGED csrf
       ELSE Remaining(r, req[r].todo \ {"drop"}, {}) /\ RemoveAllInMemory
    /\ UNCHANGED <<world, now, redisUp, attempts, rowVars, tokenHistory, csrfHistory, countHistory, hitches>>

DropKey(r) ==
    /\ \E k \in req[r].keys :
           /\ \A j \in req[r].keys : k <= j
           /\ RemoveKey(k)
           /\ Remaining(r, req[r].todo, req[r].keys \ {k})
    /\ UNCHANGED <<world, now, redisUp, attempts, rowVars, tokenHistory, csrfHistory, countHistory, hitches>>

-----------------------------------------------------------------------------
\* BOUND: seconds in which no token was signed are not counted.
Tick ==
    /\ now < LastSecond
    /\ tokens[now] # "none" \/ \E r \in Requests : req[r].signed = now
    /\ now' = now + 1
    /\ UNCHANGED <<world, storeVars, rowVars, req, tokenHistory, csrfHistory, countHistory, hitches>>

\* lockedUntil passes; failedLoginCount stays.
LockExpires ==
    /\ user.locked
    /\ user' = [user EXCEPT !.locked = FALSE]
    /\ guesses' = 0
    /\ UNCHANGED <<world, now, storeVars, tokens, req, tokenHistory, csrfHistory, admitted, uses, hitches>>

\* Fifteen minutes without an attempt.
WindowPasses ==
    /\ "limits" \in world
    /\ attempts' = [s \in Stores |-> 0]
    /\ admitted' = 0
    /\ UNCHANGED <<world, now, redisUp, csrf, rowVars, req, tokenHistory, csrfHistory, guesses, uses, hitches>>

RedisChanges ==
    /\ "redis_fails" \in world
    /\ redisUp' = ~redisUp
    /\ Note("redis_trouble")
    /\ UNCHANGED <<world, now, csrf, attempts, rowVars, req, tokenHistory, csrfHistory, countHistory>>

SignIn(r) ==
    \/ \E p \in Passwords : Register(r, p) \/ Login(r, p)
    \/ RegisterFind(r) \/ RegisterCreate(r) \/ RegisterRows(r)
    \/ LimitGet(r) \/ LimitSet(r) \/ FindUser(r) \/ Compare(r)
    \/ CountGet(r) \/ CountSet(r) \/ LockUser(r)
    \/ UnlockUser(r) \/ ClearAttempts(r) \/ StoreToken(r)

Exchange(r) ==
    \/ \E t \in Tokens : Refresh(r, t)
    \/ Verify(r) \/ FindById(r) \/ RevokeOne(r)

Leave(r) ==
    \/ Logout(r) \/ CsrfToken(r)
    \/ \E p, q \in Passwords : ChangePassword(r, p, q)
    \/ RequireCsrf(r, "change_csrf", "change_find") \/ ChangeFind(r) \/ ChangeUpdate(r)
    \/ DeleteAccount(r) \/ RequireCsrf(r, "delete_csrf", "delete_row") \/ DeleteRow(r)
    \/ ForgotPassword(r) \/ ForgotSet(r)
    \/ \E k \in Links, q \in Passwords : ResetPassword(r, k, q)
    \/ ResetFind(r) \/ ResetUpdate(r)

Administer(r) ==
    \/ \E active \in BOOLEAN :
           SetStatus(r, active) \/ UpdateUser(r, active) \/ ImportUser(r, active)
    \/ UnlockAccount(r)

Settle(r) == RevokeAll(r) \/ DropCsrf(r) \/ DropKey(r)

Next ==
    \/ \E r \in Requests :
           SignIn(r) \/ Exchange(r) \/ Leave(r) \/ Administer(r) \/ Settle(r)
    \/ Tick \/ LockExpires \/ WindowPasses \/ RedisChanges

Spec == Init /\ [][Next]_vars

-----------------------------------------------------------------------------
(***************************************************************************)
(* Once the revocations that /logout, /change-password, /reset-password    *)
(* and the deactivations left to happen have happened, no token they were  *)
(* to end is good any more, nor one it was exchanged for: unless it was    *)
(* signed by a request that was under way meanwhile, or the database       *)
(* refused the revocation (routes/auth.ts:440, 586, 693, 938, 1083).       *)
(***************************************************************************)
SignOutReachesEveryToken ==
    ~Pending /\ "db_failure" \notin hitches =>
        \A t \in stale : tokens[t] = "valid" => t \in raced

(***************************************************************************)
(* A token is revoked only by a sign-out it was there for, or because it   *)
(* was exchanged, and then a token took its place or is about to: unless   *)
(* the two were signed in one second, the database refused a write, or the *)
(* token was stored while a late revocation was under way, which takes it  *)
(* too (routes/auth.ts:408, middleware/auth.ts:234).                       *)
(***************************************************************************)
NoSessionLost ==
    hitches \cap {"db_failure", "same_second"} = {} =>
        \A t \in Tokens :
            tokens[t] = "revoked" =>
                \/ t \in stale \cup raced
                \/ \E u \in Tokens : parent[u] = t
                \/ \E r \in Requests : At(r, "store") /\ req[r].old = t

(***************************************************************************)
(* A refresh token is exchanged for one other, unless a second refresh had *)
(* verified it before the first one revoked it, or the database refused    *)
(* the revocation (routes/auth.ts:394-410).                                *)
(***************************************************************************)
OneSuccessorPerToken ==
    "db_failure" \notin hitches =>
        \A t \in Tokens : Cardinality({u \in Tokens : parent[u] = t}) > 1 => t \in shared

(***************************************************************************)
(* Wrong passwords are compared at most MAX_LOGIN_ATTEMPTS times before    *)
(* the account locks, and once more by each other request under way; and   *)
(* it is locked only with the count at the limit: unless the count was     *)
(* written between another request's read of it and its writes, or the     *)
(* database refused one (routes/auth.ts:153, UserRepository.ts:287).       *)
(***************************************************************************)
LockFollowsGuesses ==
    hitches \cap {"counter_race", "db_failure"} = {} =>
        /\ guesses < GuessLimit
        /\ user.locked => user.failedLoginCount >= MAX_LOGIN_ATTEMPTS

(***************************************************************************)
(* The limiter lets fewer than MAX_AUTH_ATTEMPTS sign-ins of a window      *)
(* through, unless two of them read the entry before either wrote it, or   *)
(* Redis came or went (middleware/auth.ts:466-526).                        *)
(***************************************************************************)
LimiterCountsEverySignIn ==
    hitches \cap {"limiter_race", "redis_trouble"} = {} => admitted < MAX_AUTH_ATTEMPTS

(***************************************************************************)
(* A reset link changes the password once, unless two requests with it     *)
(* found it before either wrote (routes/auth.ts:659-680).                  *)
(***************************************************************************)
ResetLinkWorksOnce ==
    "reset_race" \notin hitches => \A k \in Links : uses[k] <= 1

(***************************************************************************)
(* While Redis neither comes nor goes, the CSRF tokens found are those     *)
(* generated since the last sign-out that removes them: the token the page *)
(* holds is good, and one from before is not, the tokens generated during  *)
(* the removal apart (tokenStore.ts:280-359).                              *)
(***************************************************************************)
CsrfFollowsSignOut ==
    "redis_trouble" \notin hitches /\ ~Dropping =>
        \A k \in Generated \ newCsrf : Found(k) <=> k \notin oldCsrf
=============================================================================
