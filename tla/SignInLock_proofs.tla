------------------------- MODULE SignInLock_proofs --------------------------
(***************************************************************************)
(* Proof that the lock of an account follows the wrong passwords: Sessions *)
(* for any number of requests, any limit and every world.  The argument    *)
(* counts requests: those about to compare a password and those that have  *)
(* found it wrong and have yet to count it or to lock.                     *)
(***************************************************************************)
EXTENDS Sessions_proofs

Comparing == {r \in Requests : req[r].at = "compare"}
Uncounted == {r \in Requests : req[r].at \in {"count_get", "count_set"}}
Failing == {r \in Requests : req[r].at \in {"count_get", "count_set", "lock"}}

\* The awaits that follow a guess.
Guessing == {"compare", "count_get", "count_set", "lock"}

(***************************************************************************)
(* Before the account is registered nobody has guessed at its password.    *)
(***************************************************************************)
NotYet ==
    ~user.exists /\ "delete" \notin world =>
        guesses = 0 /\ \A r \in Requests : req[r].at # "compare"

(***************************************************************************)
(* A request about to write the count has read the count there is; one     *)
(* about to lock, and a lock, come after the count has reached the limit.  *)
(***************************************************************************)
CountIsRead ==
    /\ \A r \in Requests : req[r].at = "count_set" => req[r].seen = user.failedLoginCount
    /\ \A r \in Requests : req[r].at = "lock" => user.failedLoginCount >= MAX_LOGIN_ATTEMPTS
    /\ user.locked => user.failedLoginCount >= MAX_LOGIN_ATTEMPTS

(***************************************************************************)
(* While the account can be signed in to, a guess is counted, is about to  *)
(* be, or is about to lock it; after that the requests under way may still *)
(* compare what they were sent, and no other may.                          *)
(***************************************************************************)
GuessesBounded ==
    /\ user.exists => guesses <= user.failedLoginCount + Cardinality(Uncounted)
    /\ IF user.exists /\ ~user.locked
       THEN guesses < MAX_LOGIN_ATTEMPTS + Cardinality(Failing)
       ELSE guesses + Cardinality(Comparing) < MAX_LOGIN_ATTEMPTS + Cardinality(Requests)

Unraced == hitches \cap {"counter_race", "db_failure"} = {}

GuessInv == NotYet /\ (Unraced => CountIsRead /\ GuessesBounded)

-----------------------------------------------------------------------------
\* The three sets are sets of requests, and the last two are apart.
LEMMA Counts ==
    ASSUME SessionsAssumption
    PROVE  /\ Cardinality(Comparing) \in Nat /\ Cardinality(Uncounted) \in Nat
           /\ Cardinality(Failing) \in Nat /\ Cardinality(Requests) \in Nat
           /\ Cardinality(Uncounted) <= Cardinality(Failing)
           /\ Cardinality(Failing) <= Cardinality(Requests)
           /\ Cardinality(Comparing) <= Cardinality(Requests)
           /\ Cardinality(Comparing) + Cardinality(Failing) <= Cardinality(Requests)
  <1>1. /\ IsFiniteSet(Requests)
        /\ Comparing \subseteq Requests /\ Uncounted \subseteq Failing /\ Failing \subseteq Requests
        /\ Comparing \cap Failing = {}
    BY DEF SessionsAssumption, Comparing, Uncounted, Failing
  <1>2. IsFiniteSet(Comparing) /\ IsFiniteSet(Failing)
    BY <1>1, FS_Subset
  <1>3. IsFiniteSet(Uncounted)
    BY <1>1, <1>2, FS_Subset
  <1>4. /\ Cardinality(Comparing) \in Nat /\ Cardinality(Uncounted) \in Nat
        /\ Cardinality(Failing) \in Nat /\ Cardinality(Requests) \in Nat
    BY <1>1, <1>2, <1>3, FS_CardinalityType
  <1>5. /\ Cardinality(Uncounted) <= Cardinality(Failing)
        /\ Cardinality(Failing) <= Cardinality(Requests)
        /\ Cardinality(Comparing) <= Cardinality(Requests)
    BY <1>1, <1>2, FS_Subset
  <1>6. Cardinality(Comparing) + Cardinality(Failing) <= Cardinality(Requests)
    <2>1. Cardinality(Comparing \cup Failing) = Cardinality(Comparing) + Cardinality(Failing)
      <3>1. Cardinality(Comparing \cap Failing) = 0
        BY <1>1, FS_EmptySet
      <3>2. Cardinality(Comparing \cup Failing)
              = Cardinality(Comparing) + Cardinality(Failing) - Cardinality(Comparing \cap Failing)
        BY <1>2, FS_Union
      <3>3. QED BY <1>4, <3>1, <3>2
    <2>2. Comparing \cup Failing \in SUBSET Requests
      BY <1>1
    <2>3. QED BY <1>1, <2>1, <2>2, FS_Subset
  <1>7. QED BY <1>4, <1>5, <1>6

\* What most steps leave alone in a request: whether it is after a guess, and where.
CalmGuess(a, b) == a.at \in Guessing \/ b.at \in Guessing => b.at = a.at /\ b.seen = a.seen

LEMMA SetsKept ==
    ASSUME \A o \in Requests : CalmGuess(req[o], req'[o])
    PROVE  Comparing' = Comparing /\ Uncounted' = Uncounted /\ Failing' = Failing
  BY DEF CalmGuess, Guessing, Comparing, Uncounted, Failing

LEMMA GuessFrame ==
    ASSUME Typed, GuessInv, \A o \in Requests : CalmGuess(req[o], req'[o]),
           UNCHANGED <<world, guesses>>, hitches \subseteq hitches',
           user'.exists = user.exists, user'.locked = user.locked,
           user'.failedLoginCount = user.failedLoginCount
    PROVE  GuessInv'
  <1>1. NotYet'
    BY DEF GuessInv, NotYet, CalmGuess, Guessing
  <1>2. Unraced' => Unraced
    BY DEF Unraced
  <1>3. CountIsRead => CountIsRead'
    BY DEF CountIsRead, CalmGuess, Guessing
  <1>4. GuessesBounded => GuessesBounded'
    BY SetsKept DEF GuessesBounded
  <1>5. QED BY <1>1, <1>2, <1>3, <1>4 DEF GuessInv

\* The count, the lock or both are cleared: races are noted.
LEMMA GuessCleared ==
    ASSUME SessionsAssumption, Typed, GuessInv, \A o \in Requests : CalmGuess(req[o], req'[o]),
           world' = world, hitches \subseteq hitches', guesses' = 0,
           user'.exists = user.exists, user'.locked => user.locked,
           \/ user'.failedLoginCount = user.failedLoginCount
           \/ /\ user'.failedLoginCount = 0 /\ ~user'.locked
              /\ \/ "counter_race" \in hitches'
                 \/ \A o \in Requests : req[o].at \notin {"count_set", "lock"}
    PROVE  GuessInv'
  <1>0. user.failedLoginCount \in Nat /\ MAX_LOGIN_ATTEMPTS \in Nat \ {0}
    BY DEF Typed, TypeOK, UserRow, SessionsAssumption
  <1>1. NotYet'
    BY DEF GuessInv, NotYet, CalmGuess, Guessing
  <1>2. Unraced' => Unraced
    BY DEF Unraced
  <1>3. CountIsRead /\ Unraced' => CountIsRead'
    BY DEF CountIsRead, CalmGuess, Guessing, Unraced
  <1>4. GuessesBounded'
    BY <1>0, Counts, SetsKept DEF GuessesBounded
  <1>5. QED BY <1>1, <1>2, <1>3, <1>4 DEF GuessInv

-----------------------------------------------------------------------------
\* A request that moves between awaits other than those.
LEMMA BecomesCalm ==
    ASSUME Typed, NEW r \in Requests, NEW q, Becomes(r, q),
           req[r].at \notin Guessing, q.at \notin Guessing
    PROVE  \A o \in Requests : CalmGuess(req[o], req'[o])
  BY BecomesLemma DEF CalmGuess

LEMMA FormsKeepCalm ==
    ASSUME Typed, NEW r \in Requests, req[r].at \notin Guessing,
           NEW s, s \notin Guessing, NEW n, NEW c,
           \/ Go(r, s)
           \/ Sign(r)
           \/ Decided(r, s)
           \/ End(r)
           \/ Becomes(r, [req[r] EXCEPT !.at = s, !.seen = n])
    PROVE  \A o \in Requests : CalmGuess(req[o], req'[o])
  <1>0. req[r] \in Request
    BY DEF Typed, TypeOK
  <1>1. CASE Go(r, s)
    <2> DEFINE q == [req[r] EXCEPT !.at = s]
    <2>1. q.at = s
      BY <1>0 DEF Request
    <2>2. Becomes(r, q)
      BY <1>1 DEF Go
    <2> HIDE DEF q
    <2>3. QED BY <2>1, <2>2, BecomesCalm
  <1>2. CASE Sign(r)
    <2> DEFINE q == [req[r] EXCEPT !.at = "store", !.signed = now]
    <2>1. q.at = "store"
      BY <1>0 DEF Request
    <2>2. Becomes(r, q)
      BY <1>2 DEF Sign
    <2> HIDE DEF q
    <2>3. QED BY <2>1, <2>2, BecomesCalm DEF Guessing
  <1>3. CASE Decided(r, s)
    <2> DEFINE q == [req[r] EXCEPT !.at = s, !.crossed = Pending]
    <2>1. q.at = s
      BY <1>0 DEF Request
    <2>2. Becomes(r, q)
      BY <1>3 DEF Decided
    <2> HIDE DEF q
    <2>3. QED BY <2>1, <2>2, BecomesCalm
  <1>4. CASE End(r)
    BY <1>4, BecomesCalm DEF End, Idle, Guessing
  <1>5. CASE Becomes(r, [req[r] EXCEPT !.at = s, !.seen = n])
    <2> DEFINE q == [req[r] EXCEPT !.at = s, !.seen = n]
    <2>1. q.at = s
      BY <1>0 DEF Request
    <2>2. Becomes(r, q)
      BY <1>5
    <2> HIDE DEF q
    <2>3. QED BY <2>1, <2>2, BecomesCalm
  <1>6. QED BY <1>1, <1>2, <1>3, <1>4, <1>5

LEMMA SameKeepsCalm == \A a : CalmGuess(a, a)
  BY DEF CalmGuess

LEMMA SignOutKeepsCalm ==
    ASSUME Typed, NEW r \in Requests, req[r].at \notin Guessing,
           NEW todo, SignOut(r, todo), NEW o \in Requests
    PROVE  CalmGuess(req[o], req'[o])
  <1>0. req[o] \in Request
    BY DEF Typed, TypeOK
  <1>1. CASE o = r
    <2>1. req'[o] = [Idle EXCEPT !.at = "after", !.todo = todo]
      BY <1>1 DEF SignOut
    <2>2. QED BY <1>1, <2>1 DEF Idle, CalmGuess, Guessing
  <1>2. CASE o # r /\ req[o].at \in {"idle", "after"}
    BY <1>2, SameKeepsCalm DEF SignOut
  <1>3. CASE o # r /\ req[o].at \notin {"idle", "after"}
    <2>1. req'[o] = [req[o] EXCEPT !.crossed = TRUE]
      BY <1>3 DEF SignOut
    <2>2. QED BY <1>0, <2>1 DEF Request, CalmGuess
  <1>4. QED BY <1>1, <1>2, <1>3

\* What no step but those that guess, count, lock and clear changes.
Untouched ==
    /\ UNCHANGED <<world, guesses>> /\ hitches \subseteq hitches'
    /\ user'.exists = user.exists /\ user'.locked = user.locked
    /\ user'.failedLoginCount = user.failedLoginCount

LEMMA QuietSignIn ==
    ASSUME Typed, NEW r \in Requests, req[r].at \notin Guessing,
           \/ \E p \in Passwords : Register(r, p) \/ Login(r, p)
           \/ RegisterFind(r) \/ RegisterRows(r) \/ LimitGet(r) \/ LimitSet(r)
           \/ ClearAttempts(r) \/ StoreToken(r)
    PROVE  Untouched /\ \A o \in Requests : CalmGuess(req[o], req'[o])
  <1> USE DEF storeVars, rowVars, tokenHistory, csrfHistory, countHistory
  <1>0. /\ \A s \in {"idle", "find", "register_find", "register_create", "limit_get", "limit_set"} :
               s \notin Guessing
        /\ Idle.at = "idle"
    BY DEF Guessing, Idle
  <1>1. ASSUME NEW p \in Passwords, Register(r, p) PROVE \A o \in Requests : CalmGuess(req[o], req'[o])
    <2> DEFINE q == [Idle EXCEPT !.at = "register_find", !.password = p]
    <2>1. q.at = "register_find"
      BY DEF Idle
    <2>2. Becomes(r, q)
      BY <1>1 DEF Register
    <2> HIDE DEF q
    <2>3. QED BY <1>0, <2>1, <2>2, BecomesCalm
  <1>2. ASSUME NEW p \in Passwords, Login(r, p) PROVE \A o \in Requests : CalmGuess(req[o], req'[o])
    <2> DEFINE s == IF "limits" \in world THEN "limit_get" ELSE "find"
               q == [Idle EXCEPT !.at = s, !.password = p]
    <2>1. q.at = s
      BY DEF Idle
    <2>2. Becomes(r, q)
      BY <1>2 DEF Login
    <2>3. s \notin Guessing
      BY <1>0
    <2> HIDE DEF q, s
    <2>4. QED BY <2>1, <2>2, <2>3, BecomesCalm
  <1>3. ASSUME RegisterFind(r) PROVE \A o \in Requests : CalmGuess(req[o], req'[o])
    BY <1>0, <1>3, FormsKeepCalm DEF RegisterFind
  <1>4. ASSUME RegisterRows(r) PROVE \A o \in Requests : CalmGuess(req[o], req'[o])
    BY <1>0, <1>4, FormsKeepCalm DEF RegisterRows
  <1>5. ASSUME LimitGet(r) PROVE \A o \in Requests : CalmGuess(req[o], req'[o])
    BY <1>0, <1>5, FormsKeepCalm DEF LimitGet
  <1>6. ASSUME LimitSet(r) PROVE \A o \in Requests : CalmGuess(req[o], req'[o])
    BY <1>0, <1>6, FormsKeepCalm DEF LimitSet
  <1>7. ASSUME ClearAttempts(r) PROVE \A o \in Requests : CalmGuess(req[o], req'[o])
    BY <1>0, <1>7, FormsKeepCalm DEF ClearAttempts
  <1>8. ASSUME StoreToken(r) PROVE \A o \in Requests : CalmGuess(req[o], req'[o])
    BY <1>0, <1>8, FormsKeepCalm DEF StoreToken
  <1>9. Untouched
    <2>1. CASE \/ \E p \in Passwords : Register(r, p) \/ Login(r, p)
               \/ RegisterFind(r) \/ LimitGet(r)
      BY <2>1 DEF Untouched, Register, Login, RegisterFind, LimitGet
    <2>2. CASE RegisterRows(r) \/ ClearAttempts(r)
      BY <2>2 DEF Untouched, RegisterRows, ClearAttempts, Note, NoteIf
    <2>3. CASE LimitSet(r)
      BY <2>3 DEF Untouched, LimitSet
    <2>4. CASE StoreToken(r)
      BY <2>4 DEF Untouched, StoreToken, Note, NoteIf
    <2>5. QED BY <2>1, <2>2, <2>3, <2>4
  <1>10. QED BY <1>1, <1>2, <1>3, <1>4, <1>5, <1>6, <1>7, <1>8, <1>9

LEMMA QuietExchange ==
    ASSUME Typed, NEW r \in Requests, Exchange(r)
    PROVE  Untouched /\ \A o \in Requests : CalmGuess(req[o], req'[o])
  <1> USE DEF storeVars, rowVars, tokenHistory, csrfHistory, countHistory
  <1>0. \A s \in {"idle", "verify", "find_user", "revoke_one"} : s \notin Guessing
    BY DEF Guessing
  <1>1. ASSUME NEW t \in Tokens, Refresh(r, t) PROVE \A o \in Requests : CalmGuess(req[o], req'[o])
    <2> DEFINE q == [Idle EXCEPT !.at = "verify", !.old = t]
    <2>1. q.at = "verify" /\ req[r].at = "idle"
      BY <1>1 DEF Idle, Refresh, Free, At
    <2>2. Becomes(r, q)
      BY <1>1 DEF Refresh
    <2> HIDE DEF q
    <2>3. QED BY <1>0, <2>1, <2>2, BecomesCalm
  <1>2. ASSUME Verify(r) PROVE \A o \in Requests : CalmGuess(req[o], req'[o])
    BY <1>0, <1>2, FormsKeepCalm DEF Verify, At
  <1>3. ASSUME FindById(r) PROVE \A o \in Requests : CalmGuess(req[o], req'[o])
    BY <1>0, <1>3, FormsKeepCalm DEF FindById, At
  <1>4. ASSUME RevokeOne(r) PROVE \A o \in Requests : CalmGuess(req[o], req'[o])
    BY <1>0, <1>4, FormsKeepCalm DEF RevokeOne, At
  <1>5. Untouched
    <2>1. CASE (\E t \in Tokens : Refresh(r, t)) \/ Verify(r) \/ FindById(r)
      BY <2>1 DEF Untouched, Refresh, Verify, FindById
    <2>2. CASE RevokeOne(r)
      BY <2>2 DEF Untouched, RevokeOne, Note
    <2>3. QED BY <2>1, <2>2 DEF Exchange
  <1>6. QED BY <1>1, <1>2, <1>3, <1>4, <1>5 DEF Exchange

LEMMA QuietLeave ==
    ASSUME Typed, NEW r \in Requests, Leave(r), ~ResetUpdate(r), ~DeleteRow(r)
    PROVE  Untouched /\ \A o \in Requests : CalmGuess(req[o], req'[o])
  <1> USE DEF storeVars, rowVars, tokenHistory, csrfHistory, countHistory
  <1>0. /\ \A s \in {"idle", "change_csrf", "change_find", "change_update", "delete_csrf",
                     "delete_row", "forgot_set", "reset_find", "reset_update"} : s \notin Guessing
        /\ user \in UserRow
    BY DEF Guessing, Typed, TypeOK
  <1>1. ASSUME Logout(r) PROVE \A o \in Requests : CalmGuess(req[o], req'[o])
    BY <1>0, <1>1, SignOutKeepsCalm DEF Logout, Free, At
  <1>2. ASSUME CsrfToken(r) PROVE \A o \in Requests : CalmGuess(req[o], req'[o])
    BY <1>2, SameKeepsCalm DEF CsrfToken
  <1>3. ASSUME NEW p \in Passwords, NEW w \in Passwords, ChangePassword(r, p, w)
        PROVE  \A o \in Requests : CalmGuess(req[o], req'[o])
    <2> DEFINE q == [Idle EXCEPT !.at = "change_csrf", !.password = p, !.wanted = w]
    <2>1. q.at = "change_csrf" /\ req[r].at = "idle"
      BY <1>3 DEF Idle, ChangePassword, Free, At
    <2>2. Becomes(r, q)
      BY <1>3 DEF ChangePassword
    <2> HIDE DEF q
    <2>3. QED BY <1>0, <2>1, <2>2, BecomesCalm
  <1>4. ASSUME RequireCsrf(r, "change_csrf", "change_find")
        PROVE  \A o \in Requests : CalmGuess(req[o], req'[o])
    BY <1>0, <1>4, FormsKeepCalm DEF RequireCsrf, At
  <1>5. ASSUME ChangeFind(r) PROVE \A o \in Requests : CalmGuess(req[o], req'[o])
    BY <1>0, <1>5, FormsKeepCalm DEF ChangeFind, At
  <1>6. ASSUME ChangeUpdate(r) PROVE \A o \in Requests : CalmGuess(req[o], req'[o])
    <2>1. req[r].at \notin Guessing
      BY <1>0, <1>6 DEF ChangeUpdate, At
    <2>2. QED BY <1>6, <2>1, SignOutKeepsCalm, FormsKeepCalm DEF ChangeUpdate
  <1>7. ASSUME DeleteAccount(r) PROVE \A o \in Requests : CalmGuess(req[o], req'[o])
    <2> DEFINE q == [Idle EXCEPT !.at = "delete_csrf"]
    <2>1. q.at = "delete_csrf" /\ req[r].at = "idle"
      BY <1>7 DEF Idle, DeleteAccount, Free, At
    <2>2. Becomes(r, q)
      BY <1>7 DEF DeleteAccount
    <2> HIDE DEF q
    <2>3. QED BY <1>0, <2>1, <2>2, BecomesCalm
  <1>8. ASSUME RequireCsrf(r, "delete_csrf", "delete_row")
        PROVE  \A o \in Requests : CalmGuess(req[o], req'[o])
    BY <1>0, <1>8, FormsKeepCalm DEF RequireCsrf, At
  <1>9. ASSUME ForgotPassword(r) PROVE \A o \in Requests : CalmGuess(req[o], req'[o])
    <2> DEFINE q == [Idle EXCEPT !.at = "forgot_set", !.link = user.lastLink + 1]
    <2>1. q.at = "forgot_set" /\ req[r].at = "idle"
      BY <1>9 DEF Idle, ForgotPassword, Free, At
    <2>2. Becomes(r, q)
      BY <1>9 DEF ForgotPassword
    <2> HIDE DEF q
    <2>3. QED BY <1>0, <2>1, <2>2, BecomesCalm
  <1>10. ASSUME ForgotSet(r) PROVE \A o \in Requests : CalmGuess(req[o], req'[o])
    BY <1>0, <1>10, FormsKeepCalm DEF ForgotSet, At
  <1>11. ASSUME NEW k \in Links, NEW w \in Passwords, ResetPassword(r, k, w)
         PROVE  \A o \in Requests : CalmGuess(req[o], req'[o])
    <2> DEFINE q == [Idle EXCEPT !.at = "reset_find", !.link = k, !.wanted = w]
    <2>1. q.at = "reset_find" /\ req[r].at = "idle"
      BY <1>11 DEF Idle, ResetPassword, Free, At
    <2>2. Becomes(r, q)
      BY <1>11 DEF ResetPassword
    <2> HIDE DEF q
    <2>3. QED BY <1>0, <2>1, <2>2, BecomesCalm
  <1>12. ASSUME ResetFind(r) PROVE \A o \in Requests : CalmGuess(req[o], req'[o])
    BY <1>0, <1>12, FormsKeepCalm DEF ResetFind, At
  <1>13. Untouched
    <2>1. CASE \/ Logout(r) \/ CsrfToken(r)
               \/ RequireCsrf(r, "change_csrf", "change_find") \/ ChangeFind(r)
               \/ DeleteAccount(r) \/ RequireCsrf(r, "delete_csrf", "delete_row")
               \/ \E p, q \in Passwords : ChangePassword(r, p, q)
               \/ \E k \in Links, q \in Passwords : ResetPassword(r, k, q)
               \/ ResetFind(r)
      BY <2>1 DEF Untouched, Logout, CsrfToken, RequireCsrf, ChangeFind, DeleteAccount,
                  ChangePassword, ResetPassword, ResetFind, NoteIf
    <2>2. CASE ChangeUpdate(r)
      BY <1>0, <2>2 DEF Untouched, ChangeUpdate, UserRow
    <2>3. CASE ForgotPassword(r) \/ ForgotSet(r)
      BY <1>0, <2>3 DEF Untouched, ForgotPassword, ForgotSet, UserRow
    <2>4. QED BY <2>1, <2>2, <2>3 DEF Leave
  <1>14. QED
    BY <1>1, <1>2, <1>3, <1>4, <1>5, <1>6, <1>7, <1>8, <1>9, <1>10, <1>11, <1>12, <1>13 DEF Leave

\* Steps that clear the count, and note whoever is between reading and writing it.
LEMMA ClearingSteps ==
    ASSUME SessionsAssumption, Typed, GuessInv, NEW r \in Requests,
           \/ UnlockUser(r) /\ guesses' = 0
           \/ ResetUpdate(r) /\ user.exists
           \/ UnlockAccount(r)
           \/ \E active \in BOOLEAN :
                 SetStatus(r, active) \/ (UpdateUser(r, active) /\ active)
    PROVE  GuessInv'
  <1>0. user \in UserRow /\ req[r].at \notin {"count_set", "lock"}
    BY DEF Typed, TypeOK, UnlockUser, ResetUpdate, UnlockAccount, SetStatus, UpdateUser, Free, At
  <1>1. \A o \in Requests : CalmGuess(req[o], req'[o])
    <2>0. /\ \A s \in {"idle", "unlock", "clear", "reset_update"} : s \notin Guessing
          /\ req[r].at \in {"idle", "unlock", "reset_update"}
      BY DEF Guessing, UnlockUser, ResetUpdate, UnlockAccount, SetStatus, UpdateUser, Free, At
    <2>1. CASE UnlockUser(r)
      <3>1. req[r].at \notin Guessing /\ "clear" \notin Guessing /\ Go(r, "clear")
        BY <2>0, <2>1 DEF UnlockUser
      <3>2. QED BY <3>1, FormsKeepCalm
    <2>2. CASE ResetUpdate(r) /\ user.exists
      BY <2>0, <2>2, SignOutKeepsCalm DEF ResetUpdate
    <2>3. CASE req' = req
      BY <2>3, SameKeepsCalm
    <2>4. ASSUME NEW active \in BOOLEAN, SetStatus(r, active)
          PROVE  \A o \in Requests : CalmGuess(req[o], req'[o])
      <3>1. req[r].at \notin Guessing
        BY <2>0
      <3>2. req' = req \/ SignOut(r, {"revoke", "drop"})
        BY <2>4 DEF SetStatus
      <3>3. CASE SignOut(r, {"revoke", "drop"})
        BY <3>1, <3>3, SignOutKeepsCalm
      <3>4. QED BY <2>3, <3>2, <3>3
    <2>5. UnlockAccount(r) \/ (\E active \in BOOLEAN : UpdateUser(r, active) /\ active) => req' = req
      BY DEF UnlockAccount, UpdateUser
    <2>6. QED BY <2>1, <2>2, <2>3, <2>4, <2>5
  <1>2. /\ world' = world /\ guesses' = 0
        /\ NoteIf(Locking(r), "counter_race") \/ (UnlockUser(r) /\ Note("db_failure") /\ user' = user)
    BY DEF UnlockUser, ResetUpdate, UnlockAccount, SetStatus, UpdateUser
  <1>3. /\ hitches \subseteq hitches'
        /\ user'.exists = user.exists
        /\ user'.locked => user.locked
        /\ \/ user'.failedLoginCount = user.failedLoginCount
           \/ user'.failedLoginCount = 0 /\ ~user'.locked /\ NoteIf(Locking(r), "counter_race")
    <2>1. hitches \subseteq hitches'
      BY <1>2 DEF NoteIf, Note
    <2>2. CASE user' = user
      BY <2>1, <2>2
    <2>3. ASSUME NEW u, user' = u, u.exists = user.exists, u.failedLoginCount = 0, ~u.locked,
                 NoteIf(Locking(r), "counter_race")
          PROVE  /\ user'.exists = user.exists
                 /\ user'.locked => user.locked
                 /\ user'.failedLoginCount = 0 /\ ~user'.locked /\ NoteIf(Locking(r), "counter_race")
      BY <2>3
    <2>4. CASE UnlockUser(r) /\ user' # user
      <3> DEFINE u == [user EXCEPT !.locked = FALSE, !.failedLoginCount = 0]
      <3>1. user' = u /\ NoteIf(Locking(r), "counter_race")
        BY <2>4 DEF UnlockUser
      <3>2. u.exists = user.exists /\ u.failedLoginCount = 0 /\ ~u.locked
        BY <1>0 DEF UserRow
      <3> HIDE DEF u
      <3>3. QED BY <2>1, <2>3, <3>1, <3>2
    <2>5. CASE UnlockAccount(r)
      <3> DEFINE u == [user EXCEPT !.locked = FALSE, !.failedLoginCount = 0]
      <3>1. user' = u /\ NoteIf(Locking(r), "counter_race")
        BY <2>5 DEF UnlockAccount
      <3>2. u.exists = user.exists /\ u.failedLoginCount = 0 /\ ~u.locked
        BY <1>0 DEF UserRow
      <3> HIDE DEF u
      <3>3. QED BY <2>1, <2>3, <3>1, <3>2
    <2>6. CASE ResetUpdate(r) /\ user.exists
      <3> DEFINE u == [user EXCEPT !.password = req[r].wanted, !.resetToken = 0,
                                   !.failedLoginCount = 0, !.locked = FALSE]
      <3>1. user' = u /\ NoteIf(Locking(r), "counter_race")
        BY <2>6 DEF ResetUpdate
      <3>2. u.exists = user.exists /\ u.failedLoginCount = 0 /\ ~u.locked
        BY <1>0 DEF UserRow
      <3> HIDE DEF u
      <3>3. QED BY <2>1, <2>3, <3>1, <3>2
    <2>7. ASSUME NEW active \in BOOLEAN, SetStatus(r, active) \/ (UpdateUser(r, active) /\ active)
          PROVE  /\ user'.exists = user.exists
                 /\ user'.locked => user.locked
                 /\ user'.failedLoginCount = 0 /\ ~user'.locked /\ NoteIf(Locking(r), "counter_race")
      <3> DEFINE u == [user EXCEPT !.isActive = active, !.locked = FALSE, !.failedLoginCount = 0]
      <3>1. user' = u /\ NoteIf(Locking(r), "counter_race")
        BY <2>7 DEF SetStatus, UpdateUser
      <3>2. u.exists = user.exists /\ u.failedLoginCount = 0 /\ ~u.locked
        BY <1>0 DEF UserRow
      <3> HIDE DEF u
      <3>3. QED BY <2>3, <3>1, <3>2
    <2>8. QED BY <2>1, <2>2, <2>4, <2>5, <2>6, <2>7
  <1>4. NoteIf(Locking(r), "counter_race") =>
            \/ "counter_race" \in hitches'
            \/ \A o \in Requests : req[o].at \notin {"count_set", "lock"}
    BY <1>0 DEF NoteIf, Locking
  <1>5. QED BY <1>1, <1>2, <1>3, <1>4, GuessCleared

-----------------------------------------------------------------------------
\* The account comes and goes.
LEMMA AccountMade ==
    ASSUME SessionsAssumption, Typed, GuessInv, NEW r \in Requests, RegisterCreate(r)
    PROVE  GuessInv'
  <1>0. /\ user \in UserRow /\ req[r].at = "register_create" /\ guesses' = guesses
        /\ user.failedLoginCount \in Nat
        /\ world' = world /\ hitches' = hitches /\ MAX_LOGIN_ATTEMPTS \in Nat \ {0}
    BY DEF RegisterCreate, At, countHistory, Typed, TypeOK, UserRow, SessionsAssumption
  <1>1. \A o \in Requests : CalmGuess(req[o], req'[o])
    <2>1. \A s \in {"idle", "register_create", "register_rows"} : s \notin Guessing
      BY DEF Guessing
    <2>2. End(r) \/ Decided(r, "register_rows")
      BY DEF RegisterCreate
    <2>3. "register_rows" \notin Guessing /\ req[r].at \notin Guessing
      BY <1>0, <2>1
    <2>4. QED BY <2>2, <2>3, FormsKeepCalm
  <1>2. CASE user.exists
    <2>1. Untouched
      BY <1>0, <1>2 DEF RegisterCreate, Untouched
    <2>2. QED BY <1>1, <2>1, GuessFrame DEF Untouched
  <1>3. CASE ~user.exists
    <2>1. user' = [user EXCEPT !.exists = TRUE, !.password = req[r].password]
      BY <1>3 DEF RegisterCreate
    <2>2. user'.exists /\ user'.locked = user.locked /\ user'.failedLoginCount = user.failedLoginCount
      BY <1>0, <2>1 DEF UserRow
    <2>3. "register" \in world /\ world \in Worlds
      BY <1>0 DEF Typed, TypeOK, Formed
    <2>4. "delete" \notin world
      BY <2>3 DEF SessionsAssumption
    <2>5. guesses = 0
      BY <1>3, <2>4 DEF GuessInv, NotYet
    <2>6. NotYet'
      BY <2>2 DEF NotYet
    <2>7. Unraced => CountIsRead'
      BY <1>1, <2>2 DEF GuessInv, CountIsRead, CalmGuess, Guessing
    <2>8. GuessesBounded'
      <3>1. Comparing = {}
        BY <1>3, <2>4 DEF GuessInv, NotYet, Comparing
      <3>2. Cardinality(Comparing) = 0
        BY <3>1, FS_EmptySet
      <3>3. Comparing' = Comparing /\ Uncounted' = Uncounted /\ Failing' = Failing
        BY <1>1, SetsKept
      <3>4. QED BY <1>0, <2>2, <2>5, <3>2, <3>3, Counts DEF GuessesBounded
    <2>9. QED BY <1>0, <2>6, <2>7, <2>8 DEF GuessInv, Unraced
  <1>4. QED BY <1>2, <1>3

LEMMA AccountDeleted ==
    ASSUME SessionsAssumption, Typed, GuessInv, NEW r \in Requests, DeleteRow(r)
    PROVE  GuessInv'
  <1>0. /\ user \in UserRow /\ req[r].at = "delete_row" /\ guesses' = guesses /\ guesses \in Nat
        /\ user.failedLoginCount \in Nat
        /\ world' = world /\ hitches' = hitches /\ MAX_LOGIN_ATTEMPTS \in Nat \ {0}
    BY DEF DeleteRow, At, countHistory, Typed, TypeOK, UserRow, SessionsAssumption
  <1>1. \A o \in Requests : CalmGuess(req[o], req'[o])
    <2>1. \A s \in {"idle", "delete_row"} : s \notin Guessing
      BY DEF Guessing
    <2>2. End(r) \/ SignOut(r, {"revoke", "drop"})
      BY DEF DeleteRow
    <2>3. CASE End(r)
      BY <1>0, <2>1, <2>3, FormsKeepCalm
    <2>4. CASE SignOut(r, {"revoke", "drop"})
      BY <1>0, <2>1, <2>4, SignOutKeepsCalm
    <2>5. QED BY <2>2, <2>3, <2>4
  <1>2. CASE ~user.exists
    <2>1. Untouched
      BY <1>0, <1>2 DEF DeleteRow, rowVars, Untouched
    <2>2. QED BY <1>1, <2>1, GuessFrame DEF Untouched
  <1>3. CASE user.exists
    <2>1. user' = [user EXCEPT !.exists = FALSE]
      BY <1>3 DEF DeleteRow
    <2>2. ~user'.exists /\ user'.locked = user.locked /\ user'.failedLoginCount = user.failedLoginCount
      BY <1>0, <2>1 DEF UserRow
    <2>3. "delete" \in world'
      BY <1>0 DEF Typed, Formed
    <2>4. NotYet'
      BY <2>3 DEF NotYet
    <2>5. Unraced => CountIsRead'
      BY <1>1, <2>2 DEF GuessInv, CountIsRead, CalmGuess, Guessing
    <2>6. Unraced => GuessesBounded'
      <3>1. Comparing' = Comparing
        BY <1>1, SetsKept
      <3>2. Unraced => guesses + Cardinality(Comparing) < MAX_LOGIN_ATTEMPTS + Cardinality(Requests)
        BY <1>0, <1>3, Counts DEF GuessInv, GuessesBounded
      <3>3. Cardinality(Comparing') = Cardinality(Comparing)
        BY <3>1
      <3>4. (~user'.exists /\ guesses' + Cardinality(Comparing')
                < MAX_LOGIN_ATTEMPTS + Cardinality(Requests)) => GuessesBounded'
        BY DEF GuessesBounded
      <3>5. QED BY <1>0, <2>2, <3>2, <3>3, <3>4
    <2>7. QED BY <1>0, <2>4, <2>5, <2>6 DEF GuessInv, Unraced
  <1>4. QED BY <1>2, <1>3

\* The lock passes by itself.
LEMMA LockPasses ==
    ASSUME SessionsAssumption, Typed, GuessInv, LockExpires
    PROVE  GuessInv'
  <1>1. user \in UserRow /\ user' = [user EXCEPT !.locked = FALSE]
    BY DEF Typed, TypeOK, LockExpires
  <1>2. /\ user'.exists = user.exists /\ user'.locked = FALSE
        /\ user'.failedLoginCount = user.failedLoginCount
    BY <1>1 DEF UserRow
  <1>3. world' = world /\ hitches' = hitches /\ guesses' = 0 /\ req' = req
    BY DEF LockExpires
  <1>4. QED BY <1>2, <1>3, SameKeepsCalm, GuessCleared

-----------------------------------------------------------------------------
\* Where one request goes decides of the three sets.
LEMMA OneMoves ==
    ASSUME SessionsAssumption, Typed, NEW r \in Requests, NEW q, Becomes(r, q)
    PROVE  /\ Cardinality(Comparing') = Cardinality(Comparing)
                 + (IF q.at = "compare" THEN 1 ELSE 0)
                 - (IF req[r].at = "compare" THEN 1 ELSE 0)
           /\ Cardinality(Uncounted') = Cardinality(Uncounted)
                 + (IF q.at \in {"count_get", "count_set"} THEN 1 ELSE 0)
                 - (IF req[r].at \in {"count_get", "count_set"} THEN 1 ELSE 0)
           /\ Cardinality(Failing') = Cardinality(Failing)
                 + (IF q.at \in {"count_get", "count_set", "lock"} THEN 1 ELSE 0)
                 - (IF req[r].at \in {"count_get", "count_set", "lock"} THEN 1 ELSE 0)
  <1>1. req'[r] = q /\ \A o \in Requests \ {r} : req'[o] = req[o]
    BY BecomesLemma
  <1>2. ASSUME NEW S, NEW T, S \subseteq Requests, S \ {r} = T \ {r},
               NEW a \in BOOLEAN, NEW b \in BOOLEAN, a <=> r \in T, b <=> r \in S
        PROVE  Cardinality(T) = Cardinality(S) + (IF a THEN 1 ELSE 0) - (IF b THEN 1 ELSE 0)
    <2> DEFINE R == S \ {r}
    <2>1. IsFiniteSet(S) /\ IsFiniteSet(R)
      <3>1. IsFiniteSet(Requests) /\ S \in SUBSET Requests /\ R \in SUBSET Requests
        BY <1>2 DEF SessionsAssumption
      <3>2. QED BY <3>1, FS_Subset
    <2>2. Cardinality(R) \in Nat
      BY <2>1, FS_CardinalityType
    <2>3. Cardinality(R \cup {r}) = Cardinality(R) + 1
      BY <2>1, FS_AddElement
    <2>4. S = IF b THEN R \cup {r} ELSE R
      BY <1>2
    <2>5. T = IF a THEN R \cup {r} ELSE R
      BY <1>2
    <2> HIDE DEF R
    <2>6. Cardinality(S) = Cardinality(R) + (IF b THEN 1 ELSE 0)
      BY <2>2, <2>3, <2>4
    <2>7. Cardinality(T) = Cardinality(R) + (IF a THEN 1 ELSE 0)
      BY <2>2, <2>3, <2>5
    <2>8. QED BY <2>2, <2>6, <2>7
  <1>3. /\ Comparing \ {r} = Comparing' \ {r} /\ Comparing \subseteq Requests
        /\ Uncounted \ {r} = Uncounted' \ {r} /\ Uncounted \subseteq Requests
        /\ Failing \ {r} = Failing' \ {r} /\ Failing \subseteq Requests
    BY <1>1 DEF Comparing, Uncounted, Failing
  <1>4. /\ r \in Comparing' <=> q.at = "compare"
        /\ r \in Comparing <=> req[r].at = "compare"
        /\ r \in Uncounted' <=> q.at \in {"count_get", "count_set"}
        /\ r \in Uncounted <=> req[r].at \in {"count_get", "count_set"}
        /\ r \in Failing' <=> q.at \in {"count_get", "count_set", "lock"}
        /\ r \in Failing <=> req[r].at \in {"count_get", "count_set", "lock"}
    BY <1>1 DEF Comparing, Uncounted, Failing
  <1>5. Cardinality(Comparing') = Cardinality(Comparing)
                 + (IF q.at = "compare" THEN 1 ELSE 0)
                 - (IF req[r].at = "compare" THEN 1 ELSE 0)
    BY <1>2, <1>3, <1>4
  <1>6. Cardinality(Uncounted') = Cardinality(Uncounted)
                 + (IF q.at \in {"count_get", "count_set"} THEN 1 ELSE 0)
                 - (IF req[r].at \in {"count_get", "count_set"} THEN 1 ELSE 0)
    BY <1>2, <1>3, <1>4
  <1>7. Cardinality(Failing') = Cardinality(Failing)
                 + (IF q.at \in {"count_get", "count_set", "lock"} THEN 1 ELSE 0)
                 - (IF req[r].at \in {"count_get", "count_set", "lock"} THEN 1 ELSE 0)
    BY <1>2, <1>3, <1>4
  <1>8. QED BY <1>5, <1>6, <1>7

\* FindUser: one more request is to compare, while the account can be signed in to.
LEMMA GuessFound ==
    ASSUME SessionsAssumption, Typed, GuessInv, NEW r \in Requests, FindUser(r)
    PROVE  GuessInv'
  <1>0. req[r].at = "find" /\ UNCHANGED <<world, user, guesses, hitches>> /\ req[r] \in Request
    BY DEF FindUser, At, rowVars, countHistory, Typed, TypeOK
  <1>1. CASE user.exists /\ user.isActive /\ ~user.locked
    <2> DEFINE q == [req[r] EXCEPT !.at = "compare", !.hash = user.password, !.crossed = Pending]
    <2>1. Becomes(r, q)
      BY <1>1 DEF FindUser
    <2>2. q.at = "compare"
      BY <1>0 DEF Request
    <2> HIDE DEF q
    <2>3. req'[r] = q /\ \A o \in Requests \ {r} : req'[o] = req[o]
      BY <2>1, BecomesLemma
    <2>4. NotYet'
      BY <1>0, <1>1 DEF NotYet
    <2>5. CountIsRead => CountIsRead'
      BY <1>0, <2>2, <2>3 DEF CountIsRead
    <2>6. /\ Cardinality(Uncounted') = Cardinality(Uncounted)
          /\ Cardinality(Failing') = Cardinality(Failing)
      BY <1>0, <2>1, <2>2, OneMoves, Counts
    <2>7. GuessesBounded => GuessesBounded'
      BY <1>0, <1>1, <2>6 DEF GuessesBounded
    <2>8. QED BY <1>0, <2>4, <2>5, <2>7 DEF GuessInv, Unraced
  <1>2. CASE End(r)
    <2>1. \A o \in Requests : CalmGuess(req[o], req'[o])
      <3>1. "idle" \notin Guessing /\ req[r].at \notin Guessing
        BY <1>0 DEF Guessing
      <3>2. QED BY <1>2, <3>1, FormsKeepCalm
    <2>2. QED BY <1>0, <2>1, GuessFrame
  <1>3. QED BY <1>1, <1>2 DEF FindUser

\* Compare: a guess is made.
LEMMA GuessMade ==
    ASSUME SessionsAssumption, Typed, GuessInv, NEW r \in Requests, Compare(r)
    PROVE  GuessInv'
  <1>0. /\ req[r].at = "compare" /\ UNCHANGED <<world, user, hitches>> /\ req[r] \in Request
        /\ guesses \in Nat /\ user.failedLoginCount \in Nat /\ MAX_LOGIN_ATTEMPTS \in Nat \ {0}
    BY DEF Compare, At, rowVars, countHistory, Typed, TypeOK, UserRow, SessionsAssumption
  <1>1. PICK s \in {"unlock", "count_get"} :
            /\ Go(r, s)
            /\ IF s = "unlock" THEN guesses' = guesses
               ELSE guesses' = guesses \/ guesses' = guesses + 1
    BY DEF Compare, OneMore
  <1> DEFINE q == [req[r] EXCEPT !.at = s]
  <1>2. Becomes(r, q) /\ q.at = s
    BY <1>0, <1>1 DEF Go, Request
  <1> HIDE DEF q
  <1>3. req'[r] = q /\ \A o \in Requests \ {r} : req'[o] = req[o]
    BY <1>2, BecomesLemma
  <1>4. NotYet'
    <2>1. user.exists \/ "delete" \in world
      BY <1>0 DEF GuessInv, NotYet
    <2>2. QED BY <1>0, <2>1 DEF NotYet
  <1>5. CountIsRead => CountIsRead'
    BY <1>0, <1>2, <1>3 DEF CountIsRead
  <1>6. /\ Cardinality(Comparing') = Cardinality(Comparing) - 1
        /\ Cardinality(Uncounted') = Cardinality(Uncounted) + (IF s = "unlock" THEN 0 ELSE 1)
        /\ Cardinality(Failing') = Cardinality(Failing) + (IF s = "unlock" THEN 0 ELSE 1)
    BY <1>0, <1>2, OneMoves, Counts
  <1>7. guesses' <= guesses + (IF s = "unlock" THEN 0 ELSE 1) /\ guesses' \in Nat
    BY <1>0, <1>1
  <1>8. GuessesBounded => GuessesBounded'
    <2>1. CASE user.exists /\ ~user.locked
      BY <1>0, <1>6, <1>7, <2>1, Counts DEF GuessesBounded
    <2>2. CASE ~(user.exists /\ ~user.locked)
      <3>1. SUFFICES ASSUME GuessesBounded PROVE GuessesBounded'
        OBVIOUS
      <3>2. user.exists => guesses' <= user.failedLoginCount + Cardinality(Uncounted')
        BY <1>0, <1>6, <1>7, <3>1, Counts DEF GuessesBounded
      <3>3. guesses' + Cardinality(Comparing') < MAX_LOGIN_ATTEMPTS + Cardinality(Requests)
        BY <1>0, <1>6, <1>7, <2>2, <3>1, Counts DEF GuessesBounded
      <3>4. QED BY <1>0, <2>2, <3>2, <3>3 DEF GuessesBounded
    <2>3. QED BY <2>1, <2>2
  <1>9. QED BY <1>0, <1>4, <1>5, <1>8 DEF GuessInv, Unraced

\* CountGet: the count is read.
LEMMA GuessRead ==
    ASSUME SessionsAssumption, Typed, GuessInv, NEW r \in Requests, CountGet(r)
    PROVE  GuessInv'
  <1>0. /\ req[r].at = "count_get" /\ UNCHANGED <<world, user, guesses, hitches>>
        /\ req[r] \in Request /\ Idle.at = "idle"
    BY DEF CountGet, At, rowVars, countHistory, Typed, TypeOK, Idle
  <1>1. PICK q : /\ Becomes(r, q)
                 /\ IF user.exists THEN q.at = "count_set" /\ q.seen = user.failedLoginCount
                    ELSE q.at = "idle"
    <2>1. CASE user.exists
      <3>1. Becomes(r, [req[r] EXCEPT !.at = "count_set", !.seen = user.failedLoginCount])
        BY <2>1 DEF CountGet
      <3>2. /\ [req[r] EXCEPT !.at = "count_set", !.seen = user.failedLoginCount].at = "count_set"
            /\ [req[r] EXCEPT !.at = "count_set", !.seen = user.failedLoginCount].seen
                  = user.failedLoginCount
        BY <1>0 DEF Request
      <3>3. QED BY <2>1, <3>1, <3>2
    <2>2. CASE ~user.exists
      BY <1>0, <2>2 DEF CountGet, End
    <2>3. QED BY <2>1, <2>2
  <1>2. req'[r] = q /\ \A o \in Requests \ {r} : req'[o] = req[o]
    BY <1>1, BecomesLemma
  <1>3. NotYet'
    BY <1>0, <1>1, <1>2 DEF GuessInv, NotYet
  <1>4. CountIsRead => CountIsRead'
    BY <1>0, <1>1, <1>2 DEF CountIsRead
  <1>5. /\ Cardinality(Comparing') = Cardinality(Comparing)
        /\ user.exists => /\ Cardinality(Uncounted') = Cardinality(Uncounted)
                          /\ Cardinality(Failing') = Cardinality(Failing)
    BY <1>0, <1>1, OneMoves, Counts
  <1>6. GuessesBounded => GuessesBounded'
    BY <1>0, <1>5 DEF GuessesBounded
  <1>7. QED BY <1>0, <1>3, <1>4, <1>6 DEF GuessInv, Unraced

\* CountSet: one more is written, or the write fails.
LEMMA GuessCounted ==
    ASSUME SessionsAssumption, Typed, GuessInv, NEW r \in Requests, CountSet(r)
    PROVE  GuessInv'
  <1>0. /\ req[r].at = "count_set" /\ UNCHANGED <<world, guesses>> /\ user \in UserRow
        /\ req[r] \in Request /\ Idle.at = "idle" /\ req[r].seen \in Nat /\ guesses \in Nat
        /\ user.failedLoginCount \in Nat /\ MAX_LOGIN_ATTEMPTS \in Nat \ {0}
    BY DEF CountSet, At, countHistory, Typed, TypeOK, Idle, UserRow, Request, SessionsAssumption
  <1>1. CASE End(r) /\ user' = user /\ ((~user.exists /\ hitches' = hitches) \/ "db_failure" \in hitches')
    <2>1. req'[r].at = "idle" /\ \A o \in Requests \ {r} : req'[o] = req[o]
      BY <1>0, <1>1, BecomesLemma DEF End
    <2>2. NotYet'
      BY <1>0, <1>1, <2>1 DEF GuessInv, NotYet
    <2>3. CountIsRead => CountIsRead'
      BY <1>1, <2>1 DEF CountIsRead
    <2>4. Cardinality(Comparing') = Cardinality(Comparing)
      BY <1>0, <1>1, OneMoves, Counts DEF End
    <2>5. ~user.exists /\ GuessesBounded => GuessesBounded'
      BY <1>0, <1>1, <2>4 DEF GuessesBounded
    <2>6. QED BY <1>1, <2>2, <2>3, <2>5 DEF GuessInv, Unraced
  <1>2. CASE /\ user.exists /\ user' = [user EXCEPT !.failedLoginCount = req[r].seen + 1]
             /\ IF req[r].seen + 1 >= MAX_LOGIN_ATTEMPTS
                THEN Becomes(r, [req[r] EXCEPT !.at = "lock", !.seen = 0])
                ELSE End(r)
             /\ NoteIf(Counting(r), "counter_race")
    <2>1. /\ user'.exists = user.exists /\ user'.locked = user.locked
          /\ user'.failedLoginCount = req[r].seen + 1
      BY <1>0, <1>2 DEF UserRow
    <2>2. PICK q : /\ Becomes(r, q)
                   /\ q.at = IF req[r].seen + 1 >= MAX_LOGIN_ATTEMPTS THEN "lock" ELSE "idle"
      <3>1. [req[r] EXCEPT !.at = "lock", !.seen = 0].at = "lock"
        BY <1>0 DEF Request
      <3>2. QED BY <1>0, <1>2, <3>1 DEF End
    <2>3. req'[r] = q /\ \A o \in Requests \ {r} : req'[o] = req[o]
      BY <2>2, BecomesLemma
    <2>4. NotYet'
      BY <1>2, <2>1 DEF NotYet
    <2>5. SUFFICES ASSUME Unraced' PROVE CountIsRead' /\ GuessesBounded'
      BY <2>4 DEF GuessInv
    <2>6. /\ CountIsRead /\ GuessesBounded
          /\ \A o \in Requests \ {r} : req[o].at # "count_set"
      BY <1>2, <2>5 DEF GuessInv, Unraced, NoteIf, Counting
    <2>7. user'.failedLoginCount = user.failedLoginCount + 1
      BY <1>0, <2>1, <2>6 DEF CountIsRead
    <2>8. CountIsRead'
      <3>1. \A o \in Requests : req'[o].at # "count_set"
        BY <2>2, <2>3, <2>6
      <3>2. user'.failedLoginCount >= user.failedLoginCount /\ user'.failedLoginCount \in Nat
        BY <1>0, <2>7
      <3>3. \A o \in Requests : req'[o].at = "lock" => user'.failedLoginCount >= MAX_LOGIN_ATTEMPTS
        <4>1. req'[r].at = "lock" => user'.failedLoginCount >= MAX_LOGIN_ATTEMPTS
          BY <1>0, <2>1, <2>2, <2>3
        <4>2. \A o \in Requests \ {r} : req'[o].at = "lock" => user'.failedLoginCount >= MAX_LOGIN_ATTEMPTS
          BY <1>0, <2>3, <2>6, <3>2 DEF CountIsRead
        <4>3. QED BY <4>1, <4>2
      <3>4. user'.locked => user'.failedLoginCount >= MAX_LOGIN_ATTEMPTS
        BY <1>0, <2>1, <2>6, <3>2 DEF CountIsRead
      <3>5. QED BY <3>1, <3>3, <3>4 DEF CountIsRead
    <2>9. /\ Cardinality(Comparing') = Cardinality(Comparing)
          /\ Cardinality(Uncounted') = Cardinality(Uncounted) - 1
          /\ Cardinality(Failing') = Cardinality(Failing) - (IF q.at = "lock" THEN 0 ELSE 1)
      BY <1>0, <2>2, OneMoves, Counts
    <2>10. guesses <= user'.failedLoginCount + Cardinality(Uncounted')
      <3>1. guesses <= user.failedLoginCount + Cardinality(Uncounted)
        BY <1>2, <2>6 DEF GuessesBounded
      <3>2. Cardinality(Uncounted) \in Nat
        BY Counts
      <3>3. QED BY <1>0, <2>7, <2>9, <3>1, <3>2
    <2>11. CASE user.locked
      BY <1>0, <1>2, <2>1, <2>6, <2>8, <2>9, <2>10, <2>11 DEF GuessesBounded
    <2>12. CASE ~user.locked
      <3>1. guesses < MAX_LOGIN_ATTEMPTS + Cardinality(Failing')
        <4>1. CASE q.at = "lock"
          <5>1. guesses < MAX_LOGIN_ATTEMPTS + Cardinality(Failing)
            BY <1>2, <2>6, <2>12 DEF GuessesBounded
          <5>2. Cardinality(Failing) \in Nat
            BY Counts
          <5>3. Cardinality(Failing') = Cardinality(Failing)
            BY <2>9, <4>1, <5>2
          <5>4. QED BY <5>1, <5>3
        <4>2. CASE q.at # "lock"
          <5>1. req[r].seen + 1 < MAX_LOGIN_ATTEMPTS
            BY <1>0, <2>2, <4>2
          <5>2. Cardinality(Uncounted) - 1 <= Cardinality(Failing) - 1
            BY Counts
          <5>3. QED BY <1>0, <2>1, <2>9, <2>10, <4>2, <5>1, <5>2, Counts
        <4>3. QED BY <4>1, <4>2
      <3>2. QED BY <1>0, <1>2, <2>1, <2>8, <2>10, <2>12, <3>1 DEF GuessesBounded
    <2>13. QED BY <2>11, <2>12
  <1>3. QED BY <1>1, <1>2 DEF CountSet, Note

\* LockUser: the account is locked.
LEMMA GuessLocks ==
    ASSUME SessionsAssumption, Typed, GuessInv, NEW r \in Requests, LockUser(r)
    PROVE  GuessInv'
  <1>0. /\ req[r].at = "lock" /\ UNCHANGED <<world, guesses, hitches>> /\ user \in UserRow
        /\ Idle.at = "idle" /\ guesses \in Nat
        /\ user.failedLoginCount \in Nat /\ MAX_LOGIN_ATTEMPTS \in Nat \ {0}
    BY DEF LockUser, At, countHistory, Typed, TypeOK, Idle, UserRow, SessionsAssumption
  <1>1. /\ user'.exists = user.exists /\ user'.failedLoginCount = user.failedLoginCount
        /\ user'.locked <=> user.locked \/ user.exists
    BY <1>0 DEF LockUser, UserRow
  <1>2. req'[r].at = "idle" /\ \A o \in Requests \ {r} : req'[o] = req[o]
    BY <1>0, BecomesLemma DEF LockUser, End
  <1>3. NotYet'
    BY <1>0, <1>1, <1>2 DEF GuessInv, NotYet
  <1>4. CountIsRead => CountIsRead'
    BY <1>0, <1>1, <1>2 DEF CountIsRead
  <1>5. /\ Cardinality(Comparing') = Cardinality(Comparing)
        /\ Cardinality(Uncounted') = Cardinality(Uncounted)
    BY <1>0, OneMoves, Counts DEF LockUser, End
  <1>6. GuessesBounded => GuessesBounded'
    <2>1. SUFFICES ASSUME GuessesBounded PROVE GuessesBounded'
      OBVIOUS
    <2>2. guesses + Cardinality(Comparing) < MAX_LOGIN_ATTEMPTS + Cardinality(Requests)
      BY <1>0, <2>1, Counts DEF GuessesBounded
    <2>3. ~(user'.exists /\ ~user'.locked)
      BY <1>1
    <2>4. user'.exists => guesses' <= user'.failedLoginCount + Cardinality(Uncounted')
      BY <1>0, <1>1, <1>5, <2>1 DEF GuessesBounded
    <2>5. guesses' + Cardinality(Comparing') < MAX_LOGIN_ATTEMPTS + Cardinality(Requests)
      BY <1>0, <1>5, <2>2
    <2>6. QED BY <2>3, <2>4, <2>5 DEF GuessesBounded
  <1>7. QED BY <1>0, <1>3, <1>4, <1>6 DEF GuessInv, Unraced

-----------------------------------------------------------------------------
LEMMA StepGuess ==
    ASSUME SessionsAssumption, Typed, GuessInv, [Next]_vars
    PROVE  GuessInv'
  <1> USE DEF storeVars, rowVars, tokenHistory, csrfHistory, countHistory
  <1>0. user \in UserRow
    BY DEF Typed, TypeOK
  <1>1. ASSUME Untouched, \A o \in Requests : CalmGuess(req[o], req'[o]) PROVE GuessInv'
    BY <1>1, GuessFrame DEF Untouched
  <1>2. ASSUME NEW r \in Requests, SignIn(r) PROVE GuessInv'
    <2>1. CASE UnlockUser(r)
      <3>1. CASE guesses' = 0
        BY <2>1, <3>1, ClearingSteps
      <3>2. CASE guesses' = guesses /\ user' = user /\ Note("db_failure")
        <4>1. Untouched
          BY <2>1, <3>2 DEF UnlockUser, Untouched, Note
        <4>2. req[r].at \notin Guessing /\ "clear" \notin Guessing /\ Go(r, "clear")
          BY <2>1 DEF UnlockUser, At, Guessing
        <4>3. QED BY <1>1, <4>1, <4>2, FormsKeepCalm
      <3>3. QED BY <2>1, <3>1, <3>2 DEF UnlockUser
    <2>2. CASE \/ \E p \in Passwords : Register(r, p) \/ Login(r, p)
               \/ RegisterFind(r) \/ RegisterRows(r) \/ LimitGet(r) \/ LimitSet(r)
               \/ ClearAttempts(r) \/ StoreToken(r)
      <3>1. req[r].at \notin Guessing
        BY <2>2 DEF Register, Login, Free, RegisterFind, RegisterRows, LimitGet, LimitSet,
                    ClearAttempts, StoreToken, At, Guessing
      <3>2. QED BY <1>1, <2>2, <3>1, QuietSignIn
    <2>3. CASE RegisterCreate(r)
      BY <2>3, AccountMade
    <2>4. CASE FindUser(r) \/ Compare(r) \/ CountGet(r) \/ CountSet(r) \/ LockUser(r)
      BY <2>4, GuessFound, GuessMade, GuessRead, GuessCounted, GuessLocks
    <2>5. QED BY <1>2, <2>1, <2>2, <2>3, <2>4 DEF SignIn
  <1>3. ASSUME NEW r \in Requests, Exchange(r) PROVE GuessInv'
    BY <1>1, <1>3, QuietExchange
  <1>4. ASSUME NEW r \in Requests, Leave(r) PROVE GuessInv'
    <2>1. CASE ResetUpdate(r) /\ user.exists
      BY <2>1, ClearingSteps
    <2>2. CASE ResetUpdate(r) /\ ~user.exists
      <3>1. Untouched
        BY <2>2 DEF ResetUpdate, Untouched
      <3>2. req[r].at \notin Guessing /\ "idle" \notin Guessing /\ End(r)
        BY <2>2 DEF ResetUpdate, At, Guessing
      <3>3. QED BY <1>1, <3>1, <3>2, FormsKeepCalm
    <2>3. CASE DeleteRow(r)
      BY <2>3, AccountDeleted
    <2>4. CASE ~ResetUpdate(r) /\ ~DeleteRow(r)
      BY <1>1, <1>4, <2>4, QuietLeave
    <2>5. QED BY <2>1, <2>2, <2>3, <2>4
  <1>5. ASSUME NEW r \in Requests, Administer(r) PROVE GuessInv'
    <2>1. CASE UnlockAccount(r)
      BY <2>1, ClearingSteps
    <2>2. ASSUME NEW active \in BOOLEAN, SetStatus(r, active) PROVE GuessInv'
      BY <2>2, ClearingSteps
    <2>3. ASSUME NEW active \in BOOLEAN, UpdateUser(r, active) PROVE GuessInv'
      <3>1. CASE active
        BY <2>3, <3>1, ClearingSteps
      <3>2. CASE ~active
        <4>1. Untouched
          BY <1>0, <2>3, <3>2 DEF UpdateUser, Untouched, UserRow
        <4>2. req[r].at \notin Guessing /\ SignOut(r, {"revoke", "drop"})
          BY <2>3, <3>2 DEF UpdateUser, Free, At, Guessing
        <4>3. QED BY <1>1, <4>1, <4>2, SignOutKeepsCalm
      <3>3. QED BY <3>1, <3>2
    <2>4. ASSUME NEW active \in BOOLEAN, ImportUser(r, active) PROVE GuessInv'
      <3>1. Untouched /\ req' = req
        BY <1>0, <2>4 DEF ImportUser, Untouched, UserRow
      <3>2. QED BY <1>1, <3>1, SameKeepsCalm
    <2>5. QED BY <1>5, <2>1, <2>2, <2>3, <2>4 DEF Administer
  <1>6. ASSUME NEW r \in Requests, Settle(r) PROVE GuessInv'
    <2>1. /\ UNCHANGED <<world, user, countHistory>> /\ hitches \subseteq hitches'
          /\ req[r].at = "after" /\ req'[r].at \in {"after", "idle"}
          /\ \A o \in Requests \ {r} : req'[o] = req[o]
      BY <1>6, SettleFrame
    <2>2. Untouched
      BY <2>1 DEF Untouched
    <2>3. \A o \in Requests : CalmGuess(req[o], req'[o])
      BY <2>1, SameKeepsCalm DEF CalmGuess, Guessing
    <2>4. QED BY <1>1, <2>2, <2>3
  <1>7. CASE LockExpires
    BY <1>7, LockPasses
  <1>8. CASE Tick \/ WindowPasses \/ RedisChanges \/ UNCHANGED vars
    <2>1. Untouched /\ req' = req
      BY <1>8 DEF Tick, WindowPasses, RedisChanges, Note, vars, Untouched
    <2>2. QED BY <1>1, <2>1, SameKeepsCalm
  <1>9. QED BY <1>2, <1>3, <1>4, <1>5, <1>6, <1>7, <1>8 DEF Next

LEMMA InitGuess == SessionsAssumption /\ Init => GuessInv
  <1>1. SUFFICES ASSUME SessionsAssumption, Init PROVE GuessInv
    OBVIOUS
  <1>2. /\ guesses = 0 /\ ~user.locked /\ user.failedLoginCount = 0
        /\ \A r \in Requests : req[r].at = "idle"
        /\ MAX_LOGIN_ATTEMPTS \in Nat \ {0}
    BY <1>1 DEF Init, Idle, SessionsAssumption
  <1>3. NotYet /\ CountIsRead
    BY <1>2 DEF NotYet, CountIsRead
  <1>4. GuessesBounded
    <2>1. Comparing = {}
      BY <1>2 DEF Comparing
    <2>2. Cardinality(Comparing) = 0
      BY <2>1, FS_EmptySet
    <2>3. QED BY <1>1, <1>2, <2>2, Counts DEF GuessesBounded
  <1>5. QED BY <1>3, <1>4 DEF GuessInv

LEMMA GuessesAreCounted ==
    ASSUME SessionsAssumption, Typed, GuessInv
    PROVE  LockFollowsGuesses
  <1>1. SUFFICES ASSUME Unraced PROVE /\ guesses < GuessLimit
                                      /\ user.locked => user.failedLoginCount >= MAX_LOGIN_ATTEMPTS
    BY DEF LockFollowsGuesses, Unraced
  <1>2. CountIsRead /\ GuessesBounded
    BY <1>1 DEF GuessInv
  <1>3. guesses \in Nat /\ MAX_LOGIN_ATTEMPTS \in Nat \ {0}
    BY DEF Typed, TypeOK, SessionsAssumption
  <1>4. guesses < GuessLimit
    BY <1>2, <1>3, Counts DEF GuessesBounded, GuessLimit
  <1>5. QED BY <1>2, <1>4 DEF CountIsRead

LEMMA AlwaysGuess == Spec => [](Typed /\ GuessInv)
  <1>1. Init => GuessInv
    BY InitGuess, SessionsAssumption
  <1>2. Typed /\ GuessInv /\ [Next]_vars => GuessInv'
    BY StepGuess, SessionsAssumption
  <1>3. QED BY <1>1, <1>2, AlwaysTyped, PTL DEF Spec

(***************************************************************************)
(* The lock follows the wrong passwords (routes/auth.ts:153,               *)
(* UserRepository.ts:287): MAX_LOGIN_ATTEMPTS are compared before the      *)
(* account locks, and at most one more by each other request under way.    *)
(***************************************************************************)
THEOREM LockFollows == Spec => []LockFollowsGuesses
  BY AlwaysGuess, GuessesAreCounted, SessionsAssumption, PTL
=============================================================================
