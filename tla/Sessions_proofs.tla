-------------------------- MODULE Sessions_proofs --------------------------
(***************************************************************************)
(* Proofs about Sessions for every set of requests and passwords, every    *)
(* limit and bound, and in every world.                                    *)
(***************************************************************************)
EXTENDS Sessions, FiniteSetTheorems, TLAPS

\* The await a request goes on to is one of Steps.
LEMMA StepsAre ==
    /\ \A s \in {"idle", "limit_get", "limit_set", "find", "compare", "count_get", "count_set",
                 "lock", "unlock", "clear", "store", "verify", "find_user", "revoke_one",
                 "change_csrf", "change_find", "change_update"} : s \in Steps
    /\ \A s \in {"delete_csrf", "delete_row", "forgot_set", "reset_find", "reset_update",
                 "register_find", "register_create", "register_rows", "after"} : s \in Steps
  BY DEF Steps

\* NoteIf adds nothing but what it is to note.
LEMMA NoteIfAdds ==
    ASSUME NEW b, NEW h, NoteIf(b, h)
    PROVE  hitches' \subseteq hitches \cup {h}
  BY DEF NoteIf

\* What the handlers change of a request leaves it a request.
LEMMA RequestUpdates ==
    ASSUME NEW q \in Request
    PROVE  /\ \A s \in Steps :
                 /\ [q EXCEPT !.at = s] \in Request
                 /\ \A p, w \in Passwords, b \in BOOLEAN :
                       /\ [q EXCEPT !.at = s, !.password = p] \in Request
                       /\ [q EXCEPT !.at = s, !.password = p, !.wanted = w] \in Request
                       /\ [q EXCEPT !.at = s, !.hash = p, !.crossed = b] \in Request
                 /\ \A b \in BOOLEAN : [q EXCEPT !.at = s, !.crossed = b] \in Request
                 /\ \A n \in Nat : [q EXCEPT !.at = s, !.seen = n] \in Request
                 /\ \A t \in Tokens :
                       /\ [q EXCEPT !.at = s, !.signed = t] \in Request
                       /\ [q EXCEPT !.at = s, !.old = t] \in Request
                 /\ \A k \in Links, w \in Passwords :
                       /\ [q EXCEPT !.at = s, !.link = k] \in Request
                       /\ [q EXCEPT !.at = s, !.link = k, !.wanted = w] \in Request
                 /\ \A todo \in SUBSET {"revoke", "drop"} :
                       [q EXCEPT !.at = s, !.todo = todo] \in Request
           /\ \A todo \in SUBSET {"revoke", "drop"}, keys \in SUBSET CsrfTokens :
                 [q EXCEPT !.todo = todo, !.keys = keys] \in Request
           /\ [q EXCEPT !.crossed = TRUE] \in Request
  <1>1. ASSUME NEW s \in Steps, NEW p \in Passwords, NEW w \in Passwords, NEW b \in BOOLEAN
        PROVE  /\ [q EXCEPT !.at = s, !.password = p] \in Request
               /\ [q EXCEPT !.at = s, !.password = p, !.wanted = w] \in Request
               /\ [q EXCEPT !.at = s, !.hash = p, !.crossed = b] \in Request
    BY DEF Request
  <1>2. ASSUME NEW s \in Steps
        PROVE  /\ [q EXCEPT !.at = s] \in Request
               /\ \A b \in BOOLEAN : [q EXCEPT !.at = s, !.crossed = b] \in Request
               /\ \A n \in Nat : [q EXCEPT !.at = s, !.seen = n] \in Request
    BY DEF Request
  <1>3. ASSUME NEW s \in Steps, NEW t \in Tokens
        PROVE  /\ [q EXCEPT !.at = s, !.signed = t] \in Request
               /\ [q EXCEPT !.at = s, !.old = t] \in Request
    BY DEF Request
  <1>4. ASSUME NEW s \in Steps, NEW k \in Links, NEW w \in Passwords
        PROVE  /\ [q EXCEPT !.at = s, !.link = k] \in Request
               /\ [q EXCEPT !.at = s, !.link = k, !.wanted = w] \in Request
    BY DEF Request
  <1>5. ASSUME NEW todo \in SUBSET {"revoke", "drop"}
        PROVE  /\ \A s \in Steps : [q EXCEPT !.at = s, !.todo = todo] \in Request
               /\ \A keys \in SUBSET CsrfTokens : [q EXCEPT !.todo = todo, !.keys = keys] \in Request
    BY DEF Request
  <1>6. [q EXCEPT !.crossed = TRUE] \in Request
    BY DEF Request
  <1>7. QED
    BY <1>1, <1>2, <1>3, <1>4, <1>5, <1>6

\* What the handlers change of the row leaves it a row.
LEMMA RowUpdates ==
    ASSUME NEW u \in UserRow
    PROVE  /\ \A b \in BOOLEAN :
                 /\ [u EXCEPT !.exists = b] \in UserRow
                 /\ [u EXCEPT !.locked = b] \in UserRow
                 /\ [u EXCEPT !.isActive = b] \in UserRow
                 /\ [u EXCEPT !.locked = FALSE, !.failedLoginCount = 0] \in UserRow
                 /\ [u EXCEPT !.isActive = b, !.locked = FALSE, !.failedLoginCount = 0] \in UserRow
           /\ \A p \in Passwords :
                 /\ [u EXCEPT !.password = p] \in UserRow
                 /\ [u EXCEPT !.exists = TRUE, !.password = p] \in UserRow
                 /\ [u EXCEPT !.password = p, !.resetToken = 0,
                              !.failedLoginCount = 0, !.locked = FALSE] \in UserRow
           /\ \A n \in Nat : [u EXCEPT !.failedLoginCount = n] \in UserRow
           /\ \A k \in Links :
                 /\ [u EXCEPT !.lastLink = k] \in UserRow
                 /\ [u EXCEPT !.resetToken = k] \in UserRow
  BY DEF UserRow

(***************************************************************************)
(* What holds of a request at the await it is at.                          *)
(***************************************************************************)
Formed(q) ==
    /\ q.at = "store" => q.signed \in Tokens
    /\ q.at \in {"verify", "find_user", "revoke_one"} => q.old \in Tokens
    /\ q.at \notin {"verify", "find_user", "revoke_one", "store"} => q.old = 0
    /\ q.at \in {"forgot_set", "reset_find", "reset_update"} => q.link \in Links
    /\ q.at # "after" => q.todo = {} /\ q.keys = {}
    /\ q.at \in {"register_find", "register_create"} => "register" \in world
    /\ q.at \in {"delete_csrf", "delete_row"} => "delete" \in world

\* The types, with the requests well formed.
Typed == TypeOK /\ \A r \in Requests : Formed(req[r])

LEMMA IdleIsRequest == ASSUME SessionsAssumption PROVE Idle \in Request
  BY DEF SessionsAssumption, Idle, Request, Steps

LEMMA BecomesType ==
    ASSUME TypeOK, NEW r \in Requests, NEW q \in Request, Becomes(r, q)
    PROVE  req' \in [Requests -> Request]
  BY DEF TypeOK, Becomes

LEMMA GoType ==
    ASSUME TypeOK, NEW r \in Requests, NEW s \in Steps, Go(r, s)
    PROVE  req' \in [Requests -> Request]
  <1>1. [req[r] EXCEPT !.at = s] \in Request
    BY RequestUpdates DEF TypeOK
  <1>2. QED BY <1>1, BecomesType DEF Go

LEMMA EndType ==
    ASSUME SessionsAssumption, TypeOK, NEW r \in Requests, End(r)
    PROVE  req' \in [Requests -> Request]
  BY IdleIsRequest, BecomesType DEF End

LEMMA SignType ==
    ASSUME TypeOK, NEW r \in Requests, Sign(r)
    PROVE  req' \in [Requests -> Request]
  <1>1. [req[r] EXCEPT !.at = "store", !.signed = now] \in Request
    BY RequestUpdates, StepsAre DEF TypeOK
  <1>2. QED BY <1>1, BecomesType DEF Sign

LEMMA SignOutType ==
    ASSUME SessionsAssumption, TypeOK, NEW r \in Requests,
           NEW todo \in SUBSET {"revoke", "drop"}, SignOut(r, todo)
    PROVE  /\ req' \in [Requests -> Request]
           /\ parent' \in [Tokens -> Tokens \cup {0}]
           /\ stale' \in SUBSET Tokens
           /\ raced' \in SUBSET Tokens
           /\ shared' \in SUBSET Tokens
           /\ oldCsrf' \in SUBSET CsrfTokens
           /\ newCsrf' \in SUBSET CsrfTokens
  <1>1. [Idle EXCEPT !.at = "after", !.todo = todo] \in Request
    BY IdleIsRequest, RequestUpdates, StepsAre
  <1>2. \A o \in Requests : [req[o] EXCEPT !.crossed = TRUE] \in Request
    BY RequestUpdates DEF TypeOK
  <1>3. req' \in [Requests -> Request]
    BY <1>1, <1>2 DEF SignOut, TypeOK
  <1>4. QED
    BY <1>3 DEF SignOut, TypeOK, Issued, Generated

\* A step that writes the request of r and only a few of the rest keeps the types.
LEMMA SignInTypes ==
    ASSUME SessionsAssumption, StoreAssumption, Typed, NEW r \in Requests, SignIn(r)
    PROVE  TypeOK'
  <1> USE StepsAre DEF storeVars, rowVars, tokenHistory, csrfHistory, countHistory
  <1>0. TypeOK /\ req[r] \in Request /\ Formed(req[r]) /\ user \in UserRow /\ Idle \in Request
    BY IdleIsRequest DEF TypeOK, Typed
  <1>1. ASSUME NEW p \in Passwords, Register(r, p) PROVE TypeOK'
    BY <1>0, <1>1, RequestUpdates, BecomesType DEF Register, TypeOK, StoreTypeOK
  <1>2. ASSUME NEW p \in Passwords, Login(r, p) PROVE TypeOK'
    BY <1>0, <1>2, RequestUpdates, BecomesType DEF Login, TypeOK, StoreTypeOK
  <1>3. ASSUME RegisterFind(r) PROVE TypeOK'
    BY <1>0, <1>3, GoType, EndType DEF RegisterFind, TypeOK, StoreTypeOK
  <1>4. ASSUME RegisterCreate(r) PROVE TypeOK'
    <2>1. req' \in [Requests -> Request]
      BY <1>0, <1>4, RequestUpdates, BecomesType, EndType DEF RegisterCreate, Decided, Pending
    <2>2. user' \in UserRow
      <3>1. [user EXCEPT !.exists = TRUE, !.password = req[r].password] \in UserRow
        BY <1>0, RowUpdates DEF Request
      <3>2. QED BY <1>0, <1>4, <3>1 DEF RegisterCreate
    <2>3. QED BY <1>0, <1>4, <2>1, <2>2 DEF RegisterCreate, TypeOK, StoreTypeOK
  <1>5. ASSUME RegisterRows(r) PROVE TypeOK'
    BY <1>0, <1>5, SignType, EndType DEF RegisterRows, Note, TypeOK, StoreTypeOK, Hitches
  <1>6. ASSUME LimitGet(r) PROVE TypeOK'
    <2>1. AttemptsNow \in Nat
      BY <1>0 DEF AttemptsNow, Current, TypeOK, StoreTypeOK, Stores
    <2>2. req' \in [Requests -> Request]
      BY <1>0, <1>6, <2>1, RequestUpdates, BecomesType, EndType DEF LimitGet
    <2>3. QED BY <1>0, <1>6, <2>2 DEF LimitGet, TypeOK, StoreTypeOK
  <1>7. ASSUME LimitSet(r) PROVE TypeOK'
    <2>1. req[r].seen + 1 \in Nat
      BY <1>0 DEF Request
    <2>2. req' \in [Requests -> Request]
      BY <1>0, <1>7, RequestUpdates, BecomesType, EndType DEF LimitSet
    <2>3. attempts' \in [Stores -> Nat]
      <3>1. PICK s : attempts' = [attempts EXCEPT ![s] = req[r].seen + 1]
        BY <1>7 DEF LimitSet, SetAttempts
      <3>2. attempts \in [Stores -> Nat]
        BY <1>0 DEF TypeOK, StoreTypeOK
      <3>3. QED BY <2>1, <3>1, <3>2
    <2>4. hitches' \in SUBSET Hitches
      BY <1>0, <1>7 DEF LimitSet, TypeOK, Hitches
    <2>5. admitted' \in Nat
      BY <1>0, <1>7 DEF LimitSet, OneMore, TypeOK
    <2>6. QED BY <1>0, <1>7, <2>2, <2>3, <2>4, <2>5 DEF LimitSet, TypeOK, StoreTypeOK
  <1>8. ASSUME FindUser(r) PROVE TypeOK'
    <2>1. user.password \in Passwords /\ Pending \in BOOLEAN
      BY <1>0 DEF UserRow, Pending
    <2>2. req' \in [Requests -> Request]
      BY <1>0, <1>8, <2>1, RequestUpdates, BecomesType, EndType DEF FindUser
    <2>3. QED BY <1>0, <1>8, <2>2 DEF FindUser, TypeOK, StoreTypeOK
  <1>9. ASSUME Compare(r) PROVE TypeOK'
    BY <1>0, <1>9, GoType DEF Compare, OneMore, TypeOK, StoreTypeOK
  <1>10. ASSUME CountGet(r) PROVE TypeOK'
    <2>1. user.failedLoginCount \in Nat
      BY <1>0 DEF UserRow
    <2>2. req' \in [Requests -> Request]
      BY <1>0, <1>10, <2>1, RequestUpdates, BecomesType, EndType DEF CountGet
    <2>3. QED BY <1>0, <1>10, <2>2 DEF CountGet, TypeOK, StoreTypeOK
  <1>11. ASSUME CountSet(r) PROVE TypeOK'
    <2>1. req[r].seen + 1 \in Nat
      BY <1>0 DEF Request
    <2>2. req' \in [Requests -> Request]
      BY <1>0, <1>11, RequestUpdates, BecomesType, EndType DEF CountSet
    <2>3. user' \in UserRow
      <3>1. [user EXCEPT !.failedLoginCount = req[r].seen + 1] \in UserRow
        BY <1>0, <2>1, RowUpdates
      <3>2. QED BY <1>0, <1>11, <3>1 DEF CountSet
    <2>4. hitches' \in SUBSET Hitches
      BY <1>0, <1>11 DEF CountSet, Note, NoteIf, TypeOK, Hitches
    <2>5. QED BY <1>0, <1>11, <2>2, <2>3, <2>4 DEF CountSet, TypeOK, StoreTypeOK
  <1>12. ASSUME LockUser(r) PROVE TypeOK'
    BY <1>0, <1>12, EndType, RowUpdates DEF LockUser, TypeOK, StoreTypeOK
  <1>13. ASSUME UnlockUser(r) PROVE TypeOK'
    <2>1. req' \in [Requests -> Request]
      BY <1>0, <1>13, GoType DEF UnlockUser
    <2>2. user' \in UserRow /\ guesses' \in Nat
      <3>1. [user EXCEPT !.locked = FALSE, !.failedLoginCount = 0] \in UserRow
        BY <1>0, RowUpdates
      <3>2. QED BY <1>0, <1>13, <3>1 DEF UnlockUser, TypeOK
    <2>3. hitches' \in SUBSET Hitches
      BY <1>0, <1>13 DEF UnlockUser, Note, NoteIf, TypeOK, Hitches
    <2>4. QED BY <1>0, <1>13, <2>1, <2>2, <2>3 DEF UnlockUser, TypeOK, StoreTypeOK
  <1>14. ASSUME ClearAttempts(r) PROVE TypeOK'
    BY <1>0, <1>14, SignType DEF ClearAttempts, RemoveAttempts, NoteIf, TypeOK, StoreTypeOK, Hitches
  <1>15. ASSUME StoreToken(r) PROVE TypeOK'
    <2>1. req' \in [Requests -> Request]
      BY <1>0, <1>15, EndType DEF StoreToken
    <2>2. /\ tokens' \in [Tokens -> {"none", "valid", "revoked"}]
          /\ parent' \in [Tokens -> Tokens \cup {0}]
      BY <1>0, <1>15 DEF StoreToken, Request, TypeOK
    <2>3. raced' \in SUBSET Tokens /\ stale' \in SUBSET Tokens
      <3>1. req[r].signed \in Tokens
        BY <1>0, <1>15 DEF StoreToken, Formed, At
      <3>2. QED BY <1>0, <1>15, <3>1 DEF StoreToken, TypeOK
    <2>4. hitches' \in SUBSET Hitches
      BY <1>0, <1>15 DEF StoreToken, Note, NoteIf, TypeOK, Hitches
    <2>5. QED BY <1>0, <1>15, <2>1, <2>2, <2>3, <2>4 DEF StoreToken, TypeOK, StoreTypeOK
  <1>16. QED
    BY <1>1, <1>2, <1>3, <1>4, <1>5, <1>6, <1>7, <1>8, <1>9, <1>10, <1>11, <1>12,
       <1>13, <1>14, <1>15 DEF SignIn

LEMMA ExchangeTypes ==
    ASSUME SessionsAssumption, Typed, NEW r \in Requests, Exchange(r)
    PROVE  TypeOK'
  <1> USE StepsAre DEF storeVars, rowVars, tokenHistory, csrfHistory, countHistory
  <1>0. TypeOK /\ req[r] \in Request /\ Formed(req[r]) /\ Idle \in Request
    BY IdleIsRequest DEF TypeOK, Typed
  <1>1. ASSUME NEW t \in Tokens, Refresh(r, t) PROVE TypeOK'
    BY <1>0, <1>1, RequestUpdates, BecomesType DEF Refresh, TypeOK, StoreTypeOK
  <1>2. ASSUME Verify(r) PROVE TypeOK'
    <2>1. req' \in [Requests -> Request]
      BY <1>0, <1>2, RequestUpdates, BecomesType, EndType DEF Verify, Decided, Pending
    <2>2. shared' \in SUBSET Tokens
      BY <1>0, <1>2 DEF Verify, Formed, At, TypeOK
    <2>3. QED BY <1>0, <1>2, <2>1, <2>2 DEF Verify, TypeOK, StoreTypeOK
  <1>3. ASSUME FindById(r) PROVE TypeOK'
    BY <1>0, <1>3, GoType, EndType DEF FindById, TypeOK, StoreTypeOK
  <1>4. ASSUME RevokeOne(r) PROVE TypeOK'
    BY <1>0, <1>4, SignType DEF RevokeOne, Note, Hitches, TypeOK, StoreTypeOK
  <1>5. QED BY <1>1, <1>2, <1>3, <1>4 DEF Exchange

LEMMA LeaveTypes ==
    ASSUME SessionsAssumption, Typed, NEW r \in Requests, Leave(r)
    PROVE  TypeOK'
  <1> USE StepsAre DEF storeVars, rowVars, tokenHistory, csrfHistory, countHistory
  <1>0. TypeOK /\ req[r] \in Request /\ Formed(req[r]) /\ user \in UserRow /\ Idle \in Request
    BY IdleIsRequest DEF TypeOK, Typed
  <1>1. ASSUME Logout(r) PROVE TypeOK'
    BY <1>0, <1>1, SignOutType DEF Logout, TypeOK, StoreTypeOK
  <1>2. ASSUME CsrfToken(r) PROVE TypeOK'
    <2>1. csrf' \in [CsrfTokens -> {"new", "redis", "memory", "removed"}]
      BY <1>0, <1>2 DEF CsrfToken, SetCsrf, Reached, Current, TypeOK, StoreTypeOK
    <2>2. QED BY <1>0, <1>2, <2>1 DEF CsrfToken, NoteIf, Hitches, TypeOK, StoreTypeOK
  <1>3. ASSUME NEW p \in Passwords, NEW q \in Passwords, ChangePassword(r, p, q) PROVE TypeOK'
    BY <1>0, <1>3, RequestUpdates, BecomesType DEF ChangePassword, TypeOK, StoreTypeOK
  <1>4. ASSUME \/ RequireCsrf(r, "change_csrf", "change_find")
               \/ RequireCsrf(r, "delete_csrf", "delete_row")
        PROVE  TypeOK'
    BY <1>0, <1>4, GoType, EndType DEF RequireCsrf, TypeOK, StoreTypeOK
  <1>5. ASSUME ChangeFind(r) PROVE TypeOK'
    BY <1>0, <1>5, GoType, EndType DEF ChangeFind, TypeOK, StoreTypeOK
  <1>6. ASSUME ChangeUpdate(r) PROVE TypeOK'
    <2>1. [user EXCEPT !.password = req[r].wanted] \in UserRow
      BY <1>0, RowUpdates DEF Request
    <2>2. QED BY <1>0, <1>6, <2>1, SignOutType, EndType DEF ChangeUpdate, TypeOK, StoreTypeOK
  <1>7. ASSUME DeleteAccount(r) PROVE TypeOK'
    BY <1>0, <1>7, RequestUpdates, BecomesType DEF DeleteAccount, TypeOK, StoreTypeOK
  <1>8. ASSUME DeleteRow(r) PROVE TypeOK'
    <2>1. [user EXCEPT !.exists = FALSE] \in UserRow
      BY <1>0, RowUpdates
    <2>2. user' \in UserRow /\ tokens' \in [Tokens -> {"none", "valid", "revoked"}]
      BY <1>0, <1>8, <2>1 DEF DeleteRow, TypeOK
    <2>3. QED BY <1>0, <1>8, <2>2, SignOutType, EndType DEF DeleteRow, TypeOK, StoreTypeOK
  <1>9. ASSUME ForgotPassword(r) PROVE TypeOK'
    <2>1. user.lastLink + 1 \in Links
      BY <1>0, <1>9, SessionsAssumption DEF ForgotPassword, UserRow, Links, SessionsAssumption
    <2>2. [user EXCEPT !.lastLink = user.lastLink + 1] \in UserRow
      BY <1>0, <2>1, RowUpdates
    <2>3. [Idle EXCEPT !.at = "forgot_set", !.link = user.lastLink + 1] \in Request
      BY <1>0, <2>1, RequestUpdates
    <2>4. QED BY <1>0, <1>9, <2>2, <2>3, BecomesType DEF ForgotPassword, TypeOK, StoreTypeOK
  <1>10. ASSUME ForgotSet(r) PROVE TypeOK'
    <2>1. [user EXCEPT !.resetToken = req[r].link] \in UserRow
      BY <1>0, <1>10, RowUpdates DEF ForgotSet, Formed, At
    <2>2. QED BY <1>0, <1>10, <2>1, EndType DEF ForgotSet, TypeOK, StoreTypeOK
  <1>11. ASSUME NEW k \in Links, NEW q \in Passwords, ResetPassword(r, k, q) PROVE TypeOK'
    BY <1>0, <1>11, RequestUpdates, BecomesType DEF ResetPassword, TypeOK, StoreTypeOK
  <1>12. ASSUME ResetFind(r) PROVE TypeOK'
    <2>1. req' \in [Requests -> Request]
      BY <1>0, <1>12, GoType, EndType DEF ResetFind
    <2>2. hitches' \subseteq hitches \cup {"reset_race"}
      BY <1>12, NoteIfAdds DEF ResetFind
    <2>3. hitches' \in SUBSET Hitches
      BY <1>0, <2>2 DEF Hitches, TypeOK
    <2>4. QED BY <1>0, <1>12, <2>1, <2>3 DEF ResetFind, TypeOK, StoreTypeOK
  <1>13. ASSUME ResetUpdate(r) PROVE TypeOK'
    <2>1. [user EXCEPT !.password = req[r].wanted, !.resetToken = 0,
                       !.failedLoginCount = 0, !.locked = FALSE] \in UserRow
      BY <1>0, RowUpdates DEF Request
    <2>2. [uses EXCEPT ![req[r].link] = @ + 1] \in [Links -> Nat]
      BY <1>0, <1>13 DEF ResetUpdate, At, Formed, TypeOK
    <2>3. user' \in UserRow /\ uses' \in [Links -> Nat] /\ guesses' \in Nat /\ hitches' \in SUBSET Hitches
      BY <1>0, <1>13, <2>1, <2>2 DEF ResetUpdate, NoteIf, Hitches, TypeOK
    <2>4. QED BY <1>0, <1>13, <2>3, SignOutType, EndType DEF ResetUpdate, TypeOK, StoreTypeOK
  <1>14. QED
    BY <1>1, <1>2, <1>3, <1>4, <1>5, <1>6, <1>7, <1>8, <1>9, <1>10, <1>11, <1>12, <1>13
       DEF Leave

LEMMA OtherTypes ==
    ASSUME SessionsAssumption, Typed,
           \/ \E r \in Requests : Administer(r) \/ Settle(r)
           \/ Tick \/ LockExpires \/ WindowPasses \/ RedisChanges
    PROVE  TypeOK'
  <1> USE StepsAre DEF storeVars, rowVars, tokenHistory, csrfHistory, countHistory
  <1>0. TypeOK /\ user \in UserRow /\ Idle \in Request
    BY IdleIsRequest DEF TypeOK, Typed
  <1>1. ASSUME NEW r \in Requests, NEW active \in BOOLEAN, SetStatus(r, active) PROVE TypeOK'
    <2>1. user' \in UserRow /\ hitches' \in SUBSET Hitches
      BY <1>0, <1>1, RowUpdates DEF SetStatus, NoteIf, Hitches, TypeOK
    <2>2. QED BY <1>0, <1>1, <2>1, SignOutType DEF SetStatus, TypeOK, StoreTypeOK
  <1>2. ASSUME NEW r \in Requests, NEW active \in BOOLEAN, UpdateUser(r, active) PROVE TypeOK'
    <2>1. user' \in UserRow /\ hitches' \in SUBSET Hitches
      <3>1. /\ [user EXCEPT !.isActive = TRUE, !.locked = FALSE, !.failedLoginCount = 0] \in UserRow
            /\ [user EXCEPT !.isActive = FALSE] \in UserRow
        BY <1>0, RowUpdates
      <3>2. QED BY <1>0, <1>2, <3>1 DEF UpdateUser, NoteIf, Hitches, TypeOK
    <2>2. QED BY <1>0, <1>2, <2>1, SignOutType DEF UpdateUser, TypeOK, StoreTypeOK
  <1>3. ASSUME NEW r \in Requests, UnlockAccount(r) PROVE TypeOK'
    BY <1>0, <1>3, RowUpdates DEF UnlockAccount, NoteIf, Hitches, TypeOK, StoreTypeOK
  <1>4. ASSUME NEW r \in Requests, NEW active \in BOOLEAN, ImportUser(r, active) PROVE TypeOK'
    BY <1>0, <1>4, RowUpdates DEF ImportUser, TypeOK, StoreTypeOK
  <1>5. ASSUME NEW r \in Requests, NEW todo \in SUBSET {"revoke", "drop"},
               NEW keys \in SUBSET CsrfTokens, Remaining(r, todo, keys)
        PROVE  req' \in [Requests -> Request]
    <2>1. [req[r] EXCEPT !.todo = todo, !.keys = keys] \in Request
      BY <1>0, RequestUpdates DEF TypeOK
    <2>2. QED BY <1>0, <1>5, <2>1, BecomesType DEF Remaining
  <1>6. \A r \in Requests : req[r].todo \in SUBSET {"revoke", "drop"} /\ req[r].keys \in SUBSET CsrfTokens
    BY <1>0 DEF TypeOK, Request
  <1>7. ASSUME NEW r \in Requests, RevokeAll(r) PROVE TypeOK'
    <2>1. req' \in [Requests -> Request]
      BY <1>5, <1>6, <1>7 DEF RevokeAll
    <2>2. QED BY <1>0, <1>7, <2>1 DEF RevokeAll, Note, Hitches, TypeOK, StoreTypeOK
  <1>8. ASSUME NEW r \in Requests, DropCsrf(r) PROVE TypeOK'
    <2>1. req' \in [Requests -> Request]
      <3>1. /\ req[r].todo \ {"drop"} \in SUBSET {"revoke", "drop"}
            /\ KeysNow \in SUBSET CsrfTokens
            /\ {} \in SUBSET CsrfTokens
        BY <1>6 DEF KeysNow
      <3>2. \/ Remaining(r, req[r].todo \ {"drop"}, KeysNow)
            \/ Remaining(r, req[r].todo \ {"drop"}, {})
        BY <1>8 DEF DropCsrf
      <3>3. QED BY <1>5, <3>1, <3>2
    <2>2. csrf' \in [CsrfTokens -> {"new", "redis", "memory", "removed"}]
      BY <1>0, <1>8 DEF DropCsrf, RemoveAllInMemory, TypeOK, StoreTypeOK
    <2>3. UNCHANGED <<world, now, redisUp, attempts, rowVars, tokenHistory, csrfHistory,
                      countHistory, hitches>>
      BY <1>8 DEF DropCsrf
    <2>4. QED BY <1>0, <2>1, <2>2, <2>3 DEF TypeOK, StoreTypeOK
  <1>9. ASSUME NEW r \in Requests, DropKey(r) PROVE TypeOK'
    <2>1. req' \in [Requests -> Request]
      <3>1. PICK k \in req[r].keys : Remaining(r, req[r].todo, req[r].keys \ {k})
        BY <1>9 DEF DropKey
      <3>2. req[r].keys \ {k} \in SUBSET CsrfTokens
        BY <1>6
      <3>3. QED BY <1>5, <1>6, <3>1, <3>2
    <2>2. csrf' \in [CsrfTokens -> {"new", "redis", "memory", "removed"}]
      <3>1. PICK k \in req[r].keys : RemoveKey(k)
        BY <1>9 DEF DropKey
      <3>2. QED BY <1>0, <3>1 DEF RemoveKey, TypeOK, StoreTypeOK
    <2>3. QED BY <1>0, <1>9, <2>1, <2>2 DEF DropKey, TypeOK, StoreTypeOK
  <1>10. ASSUME Tick PROVE TypeOK'
    BY <1>0, <1>10, SessionsAssumption DEF Tick, Tokens, SessionsAssumption, TypeOK, StoreTypeOK
  <1>11. ASSUME LockExpires PROVE TypeOK'
    BY <1>0, <1>11, RowUpdates DEF LockExpires, TypeOK, StoreTypeOK
  <1>12. ASSUME WindowPasses PROVE TypeOK'
    BY <1>0, <1>12 DEF WindowPasses, TypeOK, StoreTypeOK
  <1>13. ASSUME RedisChanges PROVE TypeOK'
    BY <1>0, <1>13 DEF RedisChanges, Note, Hitches, TypeOK, StoreTypeOK
  <1>14. QED
    BY <1>1, <1>2, <1>3, <1>4, <1>7, <1>8, <1>9, <1>10, <1>11, <1>12, <1>13 DEF Administer, Settle

\* A well-formed request put in the place of that of r.
LEMMA OneFormed ==
    ASSUME Typed, NEW r \in Requests, NEW q \in Request, Becomes(r, q), Formed(q), world' = world
    PROVE  \A o \in Requests : Formed(req[o])'
  BY DEF Typed, TypeOK, Becomes, Formed, Tokens, Links

LEMMA EndFormed ==
    ASSUME SessionsAssumption, Typed, NEW r \in Requests, End(r), world' = world
    PROVE  \A o \in Requests : Formed(req[o])'
  <1>1. Formed(Idle)
    BY DEF Formed, Idle
  <1>2. QED BY <1>1, IdleIsRequest, OneFormed DEF End

\* r goes on to an await that asks nothing more of it.
LEMMA GoFormed ==
    ASSUME SessionsAssumption, Typed, NEW r \in Requests, NEW s \in Steps, Go(r, s), world' = world,
           req[r].at \notin {"after", "verify", "find_user", "revoke_one", "store"},
           s \notin {"store", "verify", "find_user", "revoke_one", "forgot_set", "reset_find",
                     "reset_update", "register_find", "register_create", "delete_csrf",
                     "delete_row"}
    PROVE  \A o \in Requests : Formed(req[o])'
  <1>1. req[r] \in Request /\ Formed(req[r])
    BY DEF Typed, TypeOK
  <1>2. [req[r] EXCEPT !.at = s] \in Request
    BY <1>1, RequestUpdates
  <1>3. Formed([req[r] EXCEPT !.at = s])
    BY <1>1 DEF Formed, Request
  <1>4. QED BY <1>2, <1>3, OneFormed DEF Go

LEMMA SignFormed ==
    ASSUME SessionsAssumption, Typed, NEW r \in Requests, Sign(r), world' = world, req[r].at # "after"
    PROVE  \A o \in Requests : Formed(req[o])'
  <1>1. req[r] \in Request /\ Formed(req[r]) /\ now \in Tokens
    BY DEF Typed, TypeOK
  <1>2. [req[r] EXCEPT !.at = "store", !.signed = now] \in Request
    BY <1>1, RequestUpdates, StepsAre
  <1>3. Formed([req[r] EXCEPT !.at = "store", !.signed = now])
    BY <1>1 DEF Formed, Request
  <1>4. QED BY <1>2, <1>3, OneFormed DEF Sign

LEMMA SignOutFormed ==
    ASSUME SessionsAssumption, Typed, NEW r \in Requests,
           NEW todo \in SUBSET {"revoke", "drop"}, SignOut(r, todo), world' = world
    PROVE  \A o \in Requests : Formed(req[o])'
  <1>1. Formed([Idle EXCEPT !.at = "after", !.todo = todo])
    BY DEF Formed, Idle
  <1>2. ASSUME NEW o \in Requests PROVE Formed([req[o] EXCEPT !.crossed = TRUE])
    BY DEF Typed, TypeOK, Formed, Request
  <1>3. \A o \in Requests : Formed(req'[o])
    BY <1>1, <1>2 DEF SignOut, Typed
  <1>4. QED BY <1>3 DEF Formed, Tokens, Links

LEMMA SignInFormed ==
    ASSUME SessionsAssumption, Typed, NEW r \in Requests, SignIn(r)
    PROVE  \A o \in Requests : Formed(req[o])'
  <1> USE StepsAre
  <1>0. TypeOK /\ req[r] \in Request /\ Formed(req[r]) /\ user \in UserRow /\ Idle \in Request
    BY IdleIsRequest DEF TypeOK, Typed
  <1>1. ASSUME NEW p \in Passwords, Register(r, p) PROVE \A o \in Requests : Formed(req[o])'
    <2> DEFINE q == [Idle EXCEPT !.at = "register_find", !.password = p]
    <2>1. q \in Request
      BY <1>0, RequestUpdates
    <2>2. Formed(q)
      BY <1>1 DEF Register, Free, Formed, Idle
    <2>3. QED BY <1>1, <2>1, <2>2, OneFormed DEF Register
  <1>2. ASSUME NEW p \in Passwords, Login(r, p) PROVE \A o \in Requests : Formed(req[o])'
    <2> DEFINE q == [Idle EXCEPT !.at = IF "limits" \in world THEN "limit_get" ELSE "find",
                                 !.password = p]
    <2>1. q \in Request
      BY <1>0, RequestUpdates
    <2>2. Formed(q)
      BY DEF Formed, Idle
    <2>3. QED BY <1>2, <2>1, <2>2, OneFormed DEF Login
  <1>3. ASSUME RegisterFind(r) PROVE \A o \in Requests : Formed(req[o])'
    <2> DEFINE q == [req[r] EXCEPT !.at = "register_create"]
    <2>1. q \in Request
      BY <1>0, RequestUpdates
    <2>2. Formed(q)
      BY <1>0, <1>3 DEF RegisterFind, At, Formed, Request
    <2>3. QED BY <1>3, <2>1, <2>2, OneFormed, EndFormed DEF RegisterFind, Go
  <1>4. ASSUME RegisterCreate(r) PROVE \A o \in Requests : Formed(req[o])'
    <2> DEFINE q == [req[r] EXCEPT !.at = "register_rows", !.crossed = Pending]
    <2>1. q \in Request
      BY <1>0, RequestUpdates DEF Pending
    <2>2. Formed(q)
      BY <1>0, <1>4 DEF RegisterCreate, At, Formed, Request
    <2>3. QED BY <1>4, <2>1, <2>2, OneFormed, EndFormed DEF RegisterCreate, Decided
  <1>5. ASSUME RegisterRows(r) \/ ClearAttempts(r) PROVE \A o \in Requests : Formed(req[o])'
    BY <1>5, SignFormed, EndFormed DEF RegisterRows, ClearAttempts, At
  <1>6. ASSUME NEW s \in {"limit_set", "find", "count_set", "lock"}, NEW n \in Nat,
               req[r].at \in {"limit_get", "limit_set", "count_get", "count_set"},
               Becomes(r, [req[r] EXCEPT !.at = s, !.seen = n]),
               world' = world
        PROVE  \A o \in Requests : Formed(req[o])'
    <2> DEFINE q == [req[r] EXCEPT !.at = s, !.seen = n]
    <2>1. q \in Request
      BY <1>0, RequestUpdates
    <2>2. Formed(q)
      BY <1>0, <1>6 DEF Formed, Request
    <2>3. QED BY <1>6, <2>1, <2>2, OneFormed
  <1>7. ASSUME LimitGet(r) PROVE \A o \in Requests : Formed(req[o])'
    <2>1. AttemptsNow \in Nat
      BY <1>0 DEF AttemptsNow, Current, TypeOK, StoreTypeOK, Stores
    <2>2. QED BY <1>6, <1>7, <2>1, EndFormed DEF LimitGet, At
  <1>8. ASSUME LimitSet(r) \/ CountSet(r) PROVE \A o \in Requests : Formed(req[o])'
    BY <1>6, <1>8, EndFormed DEF LimitSet, CountSet, At
  <1>9. ASSUME FindUser(r) PROVE \A o \in Requests : Formed(req[o])'
    <2> DEFINE q == [req[r] EXCEPT !.at = "compare", !.hash = user.password, !.crossed = Pending]
    <2>1. q \in Request
      <3>1. Pending \in BOOLEAN /\ user.password \in Passwords
        BY <1>0 DEF Pending, UserRow
      <3>2. "compare" \in Steps
        BY DEF Steps
      <3>3. QED BY <1>0, <3>1, <3>2, RequestUpdates
    <2>2. Formed(q)
      BY <1>0, <1>9 DEF FindUser, At, Formed, Request
    <2>3. QED BY <1>9, <2>1, <2>2, OneFormed, EndFormed DEF FindUser
  <1>10. ASSUME Compare(r) \/ UnlockUser(r) PROVE \A o \in Requests : Formed(req[o])'
    BY <1>10, GoFormed DEF Compare, UnlockUser, At
  <1>11. ASSUME CountGet(r) PROVE \A o \in Requests : Formed(req[o])'
    <2>1. user.failedLoginCount \in Nat
      BY <1>0 DEF UserRow
    <2>2. QED BY <1>6, <1>11, <2>1, EndFormed DEF CountGet, At
  <1>12. ASSUME LockUser(r) \/ StoreToken(r) PROVE \A o \in Requests : Formed(req[o])'
    BY <1>12, EndFormed DEF LockUser, StoreToken
  <1>13. QED
    BY <1>1, <1>2, <1>3, <1>4, <1>5, <1>7, <1>8, <1>9, <1>10, <1>11, <1>12 DEF SignIn

LEMMA ExchangeFormed ==
    ASSUME SessionsAssumption, Typed, NEW r \in Requests, Exchange(r)
    PROVE  \A o \in Requests : Formed(req[o])'
  <1> USE StepsAre
  <1>0. TypeOK /\ req[r] \in Request /\ Formed(req[r]) /\ Idle \in Request
    BY IdleIsRequest DEF TypeOK, Typed
  <1>1. ASSUME NEW t \in Tokens, Refresh(r, t) PROVE \A o \in Requests : Formed(req[o])'
    <2> DEFINE q == [Idle EXCEPT !.at = "verify", !.old = t]
    <2>1. q \in Request
      BY <1>0, RequestUpdates
    <2>2. Formed(q)
      BY DEF Formed, Idle
    <2>3. QED BY <1>1, <2>1, <2>2, OneFormed DEF Refresh
  <1>2. ASSUME Verify(r) PROVE \A o \in Requests : Formed(req[o])'
    <2> DEFINE q == [req[r] EXCEPT !.at = "find_user", !.crossed = Pending]
    <2>1. q \in Request
      BY <1>0, RequestUpdates DEF Pending
    <2>2. Formed(q)
      BY <1>0, <1>2 DEF Verify, At, Formed, Request
    <2>3. QED BY <1>2, <2>1, <2>2, OneFormed, EndFormed DEF Verify, Decided
  <1>3. ASSUME FindById(r) PROVE \A o \in Requests : Formed(req[o])'
    <2> DEFINE q == [req[r] EXCEPT !.at = "revoke_one"]
    <2>1. q \in Request
      BY <1>0, RequestUpdates
    <2>2. Formed(q)
      BY <1>0, <1>3 DEF FindById, At, Formed, Request
    <2>3. QED BY <1>3, <2>1, <2>2, OneFormed, EndFormed DEF FindById, Go
  <1>4. ASSUME RevokeOne(r) PROVE \A o \in Requests : Formed(req[o])'
    BY <1>4, SignFormed DEF RevokeOne, At
  <1>5. QED BY <1>1, <1>2, <1>3, <1>4 DEF Exchange

LEMMA LeaveFormed ==
    ASSUME SessionsAssumption, Typed, NEW r \in Requests, Leave(r)
    PROVE  \A o \in Requests : Formed(req[o])'
  <1> USE StepsAre
  <1>0. TypeOK /\ req[r] \in Request /\ Formed(req[r]) /\ Idle \in Request /\ user \in UserRow
    BY IdleIsRequest DEF TypeOK, Typed
  <1>1. ASSUME \/ Logout(r) \/ ChangeUpdate(r) \/ DeleteRow(r) \/ ResetUpdate(r) \/ ForgotSet(r)
        PROVE  \A o \in Requests : Formed(req[o])'
    BY <1>1, SignOutFormed, EndFormed DEF Logout, ChangeUpdate, DeleteRow, ResetUpdate, ForgotSet
  <1>2. ASSUME CsrfToken(r) PROVE \A o \in Requests : Formed(req[o])'
    BY <1>2 DEF CsrfToken, Typed, Formed, Tokens, Links
  <1>3. ASSUME NEW p \in Passwords, NEW q \in Passwords, ChangePassword(r, p, q)
        PROVE  \A o \in Requests : Formed(req[o])'
    <2> DEFINE c == [Idle EXCEPT !.at = "change_csrf", !.password = p, !.wanted = q]
    <2>1. c \in Request
      BY <1>0, RequestUpdates
    <2>2. Formed(c)
      BY DEF Formed, Idle
    <2>3. QED BY <1>3, <2>1, <2>2, OneFormed DEF ChangePassword
  <1>4. ASSUME RequireCsrf(r, "change_csrf", "change_find") \/ ChangeFind(r)
        PROVE  \A o \in Requests : Formed(req[o])'
    BY <1>4, GoFormed, EndFormed DEF RequireCsrf, ChangeFind, At
  <1>5. ASSUME RequireCsrf(r, "delete_csrf", "delete_row")
        PROVE  \A o \in Requests : Formed(req[o])'
    <2> DEFINE c == [req[r] EXCEPT !.at = "delete_row"]
    <2>1. c \in Request
      BY <1>0, RequestUpdates
    <2>2. Formed(c)
      BY <1>0, <1>5 DEF RequireCsrf, At, Formed, Request
    <2>3. QED BY <1>5, <2>1, <2>2, OneFormed, EndFormed DEF RequireCsrf, Go
  <1>6. ASSUME DeleteAccount(r) PROVE \A o \in Requests : Formed(req[o])'
    <2> DEFINE c == [Idle EXCEPT !.at = "delete_csrf"]
    <2>1. c \in Request
      BY <1>0, RequestUpdates
    <2>2. Formed(c)
      BY <1>6 DEF DeleteAccount, Free, Formed, Idle
    <2>3. QED BY <1>6, <2>1, <2>2, OneFormed DEF DeleteAccount
  <1>7. ASSUME ForgotPassword(r) PROVE \A o \in Requests : Formed(req[o])'
    <2> DEFINE c == [Idle EXCEPT !.at = "forgot_set", !.link = user.lastLink + 1]
    <2>1. user.lastLink + 1 \in Links
      BY <1>0, <1>7, SessionsAssumption DEF ForgotPassword, UserRow, Links, SessionsAssumption
    <2>2. c \in Request
      BY <1>0, <2>1, RequestUpdates
    <2>3. Formed(c)
      BY <2>1 DEF Formed, Idle
    <2>4. QED BY <1>7, <2>2, <2>3, OneFormed DEF ForgotPassword
  <1>8. ASSUME NEW k \in Links, NEW q \in Passwords, ResetPassword(r, k, q)
        PROVE  \A o \in Requests : Formed(req[o])'
    <2> DEFINE c == [Idle EXCEPT !.at = "reset_find", !.link = k, !.wanted = q]
    <2>1. c \in Request
      BY <1>0, RequestUpdates
    <2>2. Formed(c)
      BY DEF Formed, Idle
    <2>3. QED BY <1>8, <2>1, <2>2, OneFormed DEF ResetPassword
  <1>9. ASSUME ResetFind(r) PROVE \A o \in Requests : Formed(req[o])'
    <2> DEFINE c == [req[r] EXCEPT !.at = "reset_update"]
    <2>1. c \in Request
      BY <1>0, RequestUpdates
    <2>2. Formed(c)
      BY <1>0, <1>9 DEF ResetFind, At, Formed, Request
    <2>3. world' = world /\ (Becomes(r, c) \/ End(r))
      BY <1>9 DEF ResetFind, Go
    <2>4. QED BY <2>1, <2>2, <2>3, OneFormed, EndFormed
  <1>10. QED
    BY <1>1, <1>2, <1>3, <1>4, <1>5, <1>6, <1>7, <1>8, <1>9 DEF Leave

LEMMA OtherFormed ==
    ASSUME SessionsAssumption, Typed,
           \/ \E r \in Requests : Administer(r) \/ Settle(r)
           \/ Tick \/ LockExpires \/ WindowPasses \/ RedisChanges
    PROVE  \A o \in Requests : Formed(req[o])'
  <1>0. req' = req /\ world' = world => \A o \in Requests : Formed(req[o])'
    BY DEF Typed, Formed, Tokens, Links
  <1>1. ASSUME NEW r \in Requests, Administer(r) PROVE \A o \in Requests : Formed(req[o])'
    BY <1>0, <1>1, SignOutFormed DEF Administer, SetStatus, UpdateUser, UnlockAccount, ImportUser
  <1>2. ASSUME NEW r \in Requests, NEW todo \in SUBSET {"revoke", "drop"},
               NEW keys \in SUBSET CsrfTokens, Remaining(r, todo, keys), world' = world,
               req[r].at = "after"
        PROVE  \A o \in Requests : Formed(req[o])'
    <2> DEFINE q == [req[r] EXCEPT !.todo = todo, !.keys = keys]
    <2>1. q \in Request
      BY RequestUpdates DEF TypeOK, Typed
    <2>2. Formed(q)
      BY <1>2 DEF Formed, Typed, TypeOK, Request
    <2>3. QED BY <1>2, <2>1, <2>2, OneFormed, EndFormed DEF Remaining, End
  <1>3. \A r \in Requests : /\ req[r].todo \in SUBSET {"revoke", "drop"}
                            /\ req[r].keys \in SUBSET CsrfTokens
                            /\ req[r].todo # {} \/ req[r].keys # {} => req[r].at = "after"
    BY DEF Typed, TypeOK, Request, Formed
  <1>4. ASSUME NEW r \in Requests, Settle(r) PROVE \A o \in Requests : Formed(req[o])'
    <2>1. \E todo \in SUBSET {"revoke", "drop"}, keys \in SUBSET CsrfTokens : Remaining(r, todo, keys)
      <3>1. \A x : req[r].todo \ {x} \in SUBSET {"revoke", "drop"}
        BY <1>3
      <3>2. CASE RevokeAll(r)
        BY <1>3, <3>1, <3>2 DEF RevokeAll
      <3>3. CASE DropCsrf(r)
        BY <1>3, <3>1, <3>3 DEF DropCsrf, KeysNow
      <3>4. CASE DropKey(r)
        BY <1>3, <3>4 DEF DropKey
      <3>5. QED BY <1>4, <3>2, <3>3, <3>4 DEF Settle
    <2>2. req[r].at = "after"
      BY <1>3, <1>4 DEF Settle, RevokeAll, DropCsrf, DropKey
    <2>3. world' = world
      BY <1>4 DEF Settle, RevokeAll, DropCsrf, DropKey
    <2>4. QED BY <1>2, <2>1, <2>2, <2>3
  <1>5. QED
    BY <1>0, <1>1, <1>4 DEF Tick, LockExpires, WindowPasses, RedisChanges

LEMMA InitTyped == ASSUME SessionsAssumption, StoreAssumption, Init PROVE Typed
  <1>1. user \in UserRow
    BY DEF SessionsAssumption, Init, UserRow
  <1>2. TypeOK
    BY <1>1, IdleIsRequest DEF SessionsAssumption, StoreAssumption, Init, TypeOK, StoreTypeOK,
       StoreInit, Stores, Tokens
  <1>3. Formed(Idle)
    BY DEF Formed, Idle
  <1>4. QED BY <1>2, <1>3 DEF Typed, Init

LEMMA StepTyped ==
    ASSUME SessionsAssumption, StoreAssumption, Typed, [Next]_vars
    PROVE  Typed'
  <1>1. CASE UNCHANGED vars
    BY <1>1 DEF vars, Typed, TypeOK, StoreTypeOK, Formed, Tokens, Links, CsrfTokens, Stores
  <1>2. CASE Next
    BY <1>2, SignInTypes, ExchangeTypes, LeaveTypes, OtherTypes, SignInFormed, ExchangeFormed,
       LeaveFormed, OtherFormed DEF Next, Typed
  <1>3. QED BY <1>1, <1>2

(***************************************************************************)
(* The type invariant of the sessions, and what holds of a request at each *)
(* await, in every reachable state and for every set of constants.         *)
(***************************************************************************)
THEOREM AlwaysTyped == Spec => []Typed
  BY InitTyped, StepTyped, SessionsAssumption, StoreAssumption, PTL DEF Spec

\* Types of the row, the tokens, the counts and the requests (routes/auth.ts).
THEOREM TypeCorrect == Spec => []TypeOK
  BY AlwaysTyped, PTL DEF Typed

-----------------------------------------------------------------------------
(***************************************************************************)
(* What most steps leave alone in a request, a before and b after: the     *)
(* exchange of a refresh token, the count of the limiter, the reset link,  *)
(* the CSRF tokens it has yet to remove.                                   *)
(***************************************************************************)
CalmExchange(a, b) ==
    /\ b.old # 0 => /\ b.old = a.old
                    /\ b.crossed = a.crossed
                    /\ b.at = a.at \/ (a.at = "find_user" /\ b.at = "revoke_one")
    /\ a.at = "store" => b = a
    /\ "revoke" \in b.todo <=> "revoke" \in a.todo

CalmLimit(a, b) == b.at = "limit_set" => a.at = "limit_set" /\ b.seen = a.seen

CalmReset(a, b) ==
    b.at \in {"forgot_set", "reset_update"} => b.at = a.at /\ b.link = a.link

CalmDrop(a, b) == ("drop" \in b.todo <=> "drop" \in a.todo) /\ b.keys = a.keys

Calm(a, b) == CalmExchange(a, b) /\ CalmLimit(a, b) /\ CalmReset(a, b) /\ CalmDrop(a, b)

LEMMA SameIsCalm == \A a : Calm(a, a)
  BY DEF Calm, CalmExchange, CalmLimit, CalmReset, CalmDrop

LEMMA BecomesLemma ==
    ASSUME Typed, NEW r \in Requests, NEW q, Becomes(r, q)
    PROVE  req'[r] = q /\ \A o \in Requests \ {r} : req'[o] = req[o]
  BY DEF Typed, TypeOK, Becomes

\* A request that ends or goes on to an await that none of the four is about.
LEMMA EndIsCalm ==
    ASSUME Typed, NEW r \in Requests, req[r].at \notin {"after", "store"}, End(r)
    PROVE  \A o \in Requests : Calm(req[o], req'[o])
  <1>1. Calm(req[r], Idle)
    BY DEF Calm, CalmExchange, CalmLimit, CalmReset, CalmDrop, Idle, Typed, Formed
  <1>2. QED BY <1>1, BecomesLemma, SameIsCalm DEF End

Elsewhere == {"limit_get", "find", "compare", "count_get", "count_set", "lock", "unlock", "clear",
              "change_csrf", "change_find", "change_update", "delete_csrf", "delete_row",
              "reset_find", "register_find", "register_create", "register_rows", "idle"}

LEMMA MoveIsCalm ==
    ASSUME Typed, NEW r \in Requests, req[r].at \in Elsewhere \cup {"limit_set"},
           NEW q, Becomes(r, q),
           q.at \in Elsewhere \cup {"store"},
           q.old = req[r].old, q.todo = req[r].todo, q.keys = req[r].keys
    PROVE  \A o \in Requests : Calm(req[o], req'[o])
  <1>1. Calm(req[r], q)
    BY DEF Calm, CalmExchange, CalmLimit, CalmReset, CalmDrop, Typed, Formed, Elsewhere
  <1>2. QED BY <1>1, BecomesLemma, SameIsCalm

\* The forms these moves have.
LEMMA FormsAreCalm ==
    ASSUME Typed, NEW r \in Requests, req[r].at \in Elsewhere \cup {"limit_set"},
           NEW s \in Elsewhere, NEW b, NEW n, NEW p,
           \/ Go(r, s)
           \/ Sign(r)
           \/ Decided(r, s)
           \/ Becomes(r, [req[r] EXCEPT !.at = s, !.seen = n])
           \/ Becomes(r, [req[r] EXCEPT !.at = s, !.hash = p, !.crossed = b])
    PROVE  \A o \in Requests : Calm(req[o], req'[o])
  <1>0. req[r] \in Request
    BY DEF Typed, TypeOK
  <1>1. CASE Go(r, s)
    <2> DEFINE q == [req[r] EXCEPT !.at = s]
    <2>1. q.at = s /\ q.old = req[r].old /\ q.todo = req[r].todo /\ q.keys = req[r].keys
      BY <1>0 DEF Request
    <2>2. Becomes(r, q)
      BY <1>1 DEF Go
    <2> HIDE DEF q
    <2>3. QED BY <2>1, <2>2, MoveIsCalm
  <1>2. CASE Sign(r)
    <2> DEFINE q == [req[r] EXCEPT !.at = "store", !.signed = now]
    <2>1. q.at = "store" /\ q.old = req[r].old /\ q.todo = req[r].todo /\ q.keys = req[r].keys
      BY <1>0 DEF Request
    <2>2. Becomes(r, q)
      BY <1>2 DEF Sign
    <2> HIDE DEF q
    <2>3. QED BY <2>1, <2>2, MoveIsCalm
  <1>3. CASE Decided(r, s)
    <2> DEFINE q == [req[r] EXCEPT !.at = s, !.crossed = Pending]
    <2>1. q.at = s /\ q.old = req[r].old /\ q.todo = req[r].todo /\ q.keys = req[r].keys
      BY <1>0 DEF Request
    <2>2. Becomes(r, q)
      BY <1>3 DEF Decided
    <2> HIDE DEF q
    <2>3. QED BY <2>1, <2>2, MoveIsCalm
  <1>4. CASE Becomes(r, [req[r] EXCEPT !.at = s, !.seen = n])
    <2> DEFINE q == [req[r] EXCEPT !.at = s, !.seen = n]
    <2>1. q.at = s /\ q.old = req[r].old /\ q.todo = req[r].todo /\ q.keys = req[r].keys
      BY <1>0 DEF Request
    <2>2. Becomes(r, q)
      BY <1>4
    <2> HIDE DEF q
    <2>3. QED BY <2>1, <2>2, MoveIsCalm
  <1>5. CASE Becomes(r, [req[r] EXCEPT !.at = s, !.hash = p, !.crossed = b])
    <2> DEFINE q == [req[r] EXCEPT !.at = s, !.hash = p, !.crossed = b]
    <2>1. q.at = s /\ q.old = req[r].old /\ q.todo = req[r].todo /\ q.keys = req[r].keys
      BY <1>0 DEF Request
    <2>2. Becomes(r, q)
      BY <1>5
    <2> HIDE DEF q
    <2>3. QED BY <2>1, <2>2, MoveIsCalm
  <1>6. QED BY <1>1, <1>2, <1>3, <1>4, <1>5

\* A request that comes to a free slot.
LEMMA NewIsCalm ==
    ASSUME Typed, NEW r \in Requests, req[r].at = "idle",
           NEW q, Becomes(r, q),
           q.at \in Elsewhere, q.old = 0, q.todo = {}, q.keys = {}
    PROVE  \A o \in Requests : Calm(req[o], req'[o])
  BY MoveIsCalm DEF Typed, Formed, Elsewhere

LEMMA SignInMoves ==
    ASSUME SessionsAssumption, Typed, NEW r \in Requests, SignIn(r), NEW o \in Requests
    PROVE  /\ CalmReset(req[o], req'[o])
           /\ CalmDrop(req[o], req'[o])
           /\ LimitGet(r) \/ CalmLimit(req[o], req'[o])
           /\ StoreToken(r) \/ CalmExchange(req[o], req'[o])
  <1>0. TypeOK /\ req[r] \in Request /\ Formed(req[r]) /\ Idle \in Request
    BY IdleIsRequest DEF TypeOK, Typed
  <1>1. ASSUME NEW p \in Passwords, Register(r, p) PROVE Calm(req[o], req'[o])
    <2> DEFINE q == [Idle EXCEPT !.at = "register_find", !.password = p]
    <2>1. q.at = "register_find" /\ q.old = 0 /\ q.todo = {} /\ q.keys = {}
      BY DEF Idle
    <2>2. Becomes(r, q) /\ req[r].at = "idle"
      BY <1>1 DEF Register, Free, At
    <2> HIDE DEF q
    <2>3. QED BY <2>1, <2>2, NewIsCalm DEF Elsewhere
  <1>2. ASSUME NEW p \in Passwords, Login(r, p) PROVE Calm(req[o], req'[o])
    <2> DEFINE q == [Idle EXCEPT !.at = IF "limits" \in world THEN "limit_get" ELSE "find",
                                 !.password = p]
    <2>1. q.at \in {"limit_get", "find"} /\ q.old = 0 /\ q.todo = {} /\ q.keys = {}
      BY DEF Idle
    <2>2. Becomes(r, q) /\ req[r].at = "idle"
      BY <1>2 DEF Login, Free, At
    <2> HIDE DEF q
    <2>3. QED BY <2>1, <2>2, NewIsCalm DEF Elsewhere
  <1>3. ASSUME RegisterFind(r) PROVE Calm(req[o], req'[o])
    BY <1>3, FormsAreCalm, EndIsCalm DEF RegisterFind, At, Elsewhere
  <1>31. ASSUME Compare(r) PROVE Calm(req[o], req'[o])
    BY <1>31, FormsAreCalm, EndIsCalm DEF Compare, At, Elsewhere
  <1>32. ASSUME UnlockUser(r) PROVE Calm(req[o], req'[o])
    BY <1>32, FormsAreCalm, EndIsCalm DEF UnlockUser, At, Elsewhere
  <1>33. ASSUME LockUser(r) PROVE Calm(req[o], req'[o])
    BY <1>33, EndIsCalm DEF LockUser, At
  <1>34. ASSUME RegisterCreate(r) PROVE Calm(req[o], req'[o])
    BY <1>34, FormsAreCalm, EndIsCalm DEF RegisterCreate, At, Elsewhere
  <1>4. ASSUME RegisterRows(r) PROVE Calm(req[o], req'[o])
    BY <1>4, FormsAreCalm, EndIsCalm DEF RegisterRows, At, Elsewhere
  <1>41. ASSUME ClearAttempts(r) PROVE Calm(req[o], req'[o])
    BY <1>41, FormsAreCalm DEF ClearAttempts, At, Elsewhere
  <1>5. ASSUME FindUser(r) PROVE Calm(req[o], req'[o])
    BY <1>5, FormsAreCalm, EndIsCalm DEF FindUser, At, Elsewhere
  <1>6. ASSUME CountGet(r) PROVE Calm(req[o], req'[o])
    BY <1>6, FormsAreCalm, EndIsCalm DEF CountGet, At, Elsewhere
  <1>61. ASSUME CountSet(r) PROVE Calm(req[o], req'[o])
    BY <1>61, FormsAreCalm, EndIsCalm DEF CountSet, At, Elsewhere
  <1>7. ASSUME LimitSet(r) PROVE Calm(req[o], req'[o])
    BY <1>7, FormsAreCalm, EndIsCalm DEF LimitSet, At, Elsewhere
  <1>8. ASSUME LimitGet(r)
        PROVE  CalmReset(req[o], req'[o]) /\ CalmDrop(req[o], req'[o]) /\ CalmExchange(req[o], req'[o])
    <2> DEFINE q == [req[r] EXCEPT !.at = "limit_set", !.seen = AttemptsNow]
    <2>1. CalmReset(req[r], q) /\ CalmDrop(req[r], q) /\ CalmExchange(req[r], q)
      BY <1>0, <1>8 DEF LimitGet, At, Request, Formed, CalmReset, CalmDrop, CalmExchange
    <2>2. CASE Becomes(r, q)
      BY <2>1, <2>2, BecomesLemma, SameIsCalm DEF Calm
    <2>3. CASE End(r)
      BY <1>8, <2>3, EndIsCalm DEF LimitGet, At, Calm
    <2>4. QED BY <1>8, <2>2, <2>3 DEF LimitGet
  <1>9. ASSUME StoreToken(r)
        PROVE  CalmReset(req[o], req'[o]) /\ CalmDrop(req[o], req'[o]) /\ CalmLimit(req[o], req'[o])
    <2>1. CalmReset(req[r], Idle) /\ CalmDrop(req[r], Idle) /\ CalmLimit(req[r], Idle)
      BY <1>0, <1>9 DEF StoreToken, At, Formed, Idle, CalmReset, CalmDrop, CalmLimit
    <2>2. End(r)
      BY <1>9 DEF StoreToken
    <2>3. QED BY <2>1, <2>2, BecomesLemma, SameIsCalm DEF End, Calm
  <1>10. QED
    BY <1>1, <1>2, <1>3, <1>31, <1>32, <1>33, <1>34, <1>4, <1>41, <1>5, <1>6, <1>61, <1>7,
       <1>8, <1>9 DEF SignIn, Calm

\* The sign-out of r leaves the others where they are.
LEMMA SignOutMoves ==
    ASSUME SessionsAssumption, Typed, NEW r \in Requests, req[r].at # "after",
           NEW todo \in SUBSET {"revoke", "drop"}, SignOut(r, todo), NEW o \in Requests
    PROVE  /\ CalmReset(req[o], req'[o])
           /\ CalmLimit(req[o], req'[o])
           /\ "drop" \notin todo => CalmDrop(req[o], req'[o])
           /\ IF o = r
              THEN req'[o] = [Idle EXCEPT !.at = "after", !.todo = todo]
              ELSE /\ CalmDrop(req[o], req'[o])
                   /\ req'[o].at = req[o].at
                   /\ req'[o].old = req[o].old
                   /\ req'[o].todo = req[o].todo
                   /\ req'[o].crossed \/ req[o].at \in {"idle", "after"}
  <1>0. req[o] \in Request /\ req[r] \in Request /\ Formed(req[r])
    BY DEF Typed, TypeOK
  <1>1. CASE o = r
    <2>1. req'[o] = [Idle EXCEPT !.at = "after", !.todo = todo]
      BY <1>1 DEF SignOut
    <2>2. QED BY <1>0, <1>1, <2>1 DEF Idle, CalmReset, CalmLimit, CalmDrop, Formed
  <1>2. CASE o # r /\ req[o].at \in {"idle", "after"}
    BY <1>2, SameIsCalm DEF SignOut, Calm
  <1>3. CASE o # r /\ req[o].at \notin {"idle", "after"}
    <2>1. req'[o] = [req[o] EXCEPT !.crossed = TRUE]
      BY <1>3 DEF SignOut
    <2>2. QED BY <1>0, <1>3, <2>1 DEF Request, CalmReset, CalmLimit, CalmDrop
  <1>4. QED BY <1>1, <1>2, <1>3

LEMMA ExchangeMoves ==
    ASSUME SessionsAssumption, Typed, NEW r \in Requests, Exchange(r), NEW o \in Requests
    PROVE  /\ CalmReset(req[o], req'[o])
           /\ CalmDrop(req[o], req'[o])
           /\ CalmLimit(req[o], req'[o])
  <1>0. req[r] \in Request /\ Formed(req[r])
    BY DEF TypeOK, Typed
  <1>1. ASSUME NEW q, Becomes(r, q), req[r].at # "after", q.todo = {}, q.keys = {},
               q.at \notin {"limit_set", "forgot_set", "reset_update"}
        PROVE  /\ CalmReset(req[o], req'[o])
               /\ CalmDrop(req[o], req'[o])
               /\ CalmLimit(req[o], req'[o])
    <2>1. CalmReset(req[r], q) /\ CalmDrop(req[r], q) /\ CalmLimit(req[r], q)
      BY <1>0, <1>1 DEF CalmReset, CalmDrop, CalmLimit, Formed
    <2>2. QED BY <1>1, <2>1, BecomesLemma, SameIsCalm DEF Calm
  <1>2. CASE \E t \in Tokens : Refresh(r, t)
    <2>1. PICK t \in Tokens : Refresh(r, t)
      BY <1>2
    <2> DEFINE q == [Idle EXCEPT !.at = "verify", !.old = t]
    <2>2. q.at = "verify" /\ q.todo = {} /\ q.keys = {}
      BY DEF Idle
    <2>3. Becomes(r, q) /\ req[r].at = "idle"
      BY <2>1 DEF Refresh, Free, At
    <2> HIDE DEF q
    <2>4. QED BY <1>1, <2>2, <2>3
  <1>3. CASE Verify(r)
    <2> DEFINE q == [req[r] EXCEPT !.at = "find_user", !.crossed = Pending]
    <2>1. q.at = "find_user" /\ q.todo = {} /\ q.keys = {}
      BY <1>0, <1>3 DEF Request, Formed, Verify, At
    <2>2. (Becomes(r, q) \/ End(r)) /\ req[r].at = "verify"
      BY <1>3 DEF Verify, Decided, At
    <2> HIDE DEF q
    <2>3. QED BY <1>1, <2>1, <2>2, EndIsCalm DEF Calm
  <1>4. CASE FindById(r)
    <2> DEFINE q == [req[r] EXCEPT !.at = "revoke_one"]
    <2>1. q.at = "revoke_one" /\ q.todo = {} /\ q.keys = {}
      BY <1>0, <1>4 DEF Request, Formed, FindById, At
    <2>2. (Becomes(r, q) \/ End(r)) /\ req[r].at = "find_user"
      BY <1>4 DEF FindById, Go, At
    <2> HIDE DEF q
    <2>3. QED BY <1>1, <2>1, <2>2, EndIsCalm DEF Calm
  <1>5. CASE RevokeOne(r)
    <2> DEFINE q == [req[r] EXCEPT !.at = "store", !.signed = now]
    <2>1. q.at = "store" /\ q.todo = {} /\ q.keys = {}
      BY <1>0, <1>5 DEF Request, Formed, RevokeOne, At
    <2>2. Becomes(r, q) /\ req[r].at = "revoke_one"
      BY <1>5 DEF RevokeOne, Sign, At
    <2> HIDE DEF q
    <2>3. QED BY <1>1, <2>1, <2>2
  <1>6. QED BY <1>2, <1>3, <1>4, <1>5 DEF Exchange

\* r leaves the revocation, and the removal of the CSRF tokens, for later.
Leaves(r, todo) ==
    /\ todo \in {{"revoke"}, {"revoke", "drop"}}
    /\ req[r].at # "after"
    /\ SignOut(r, todo)

LEMMA LeaveMoves ==
    ASSUME SessionsAssumption, Typed, NEW r \in Requests, Leave(r)
    PROVE  \/ \E todo \in SUBSET {"revoke", "drop"} : Leaves(r, todo)
           \/ /\ CsrfToken(r) \/ csrfHistory' = csrfHistory
              /\ tokenHistory' = tokenHistory
              /\ tokens' = tokens /\ user'.exists = user.exists
              /\ \A o \in Requests :
                    /\ CalmExchange(req[o], req'[o])
                    /\ CalmDrop(req[o], req'[o])
                    /\ CalmLimit(req[o], req'[o])
                    /\ ForgotPassword(r) \/ ResetFind(r) \/ CalmReset(req[o], req'[o])
  <1> USE DEF rowVars, tokenHistory, csrfHistory
  <1>0. req[r] \in Request /\ Formed(req[r]) /\ user \in UserRow
    BY DEF TypeOK, Typed
  <1>1. CASE Logout(r) \/ ChangeUpdate(r) \/ ResetUpdate(r) \/ DeleteRow(r)
    <2> DEFINE Out == \E todo \in {{"revoke"}, {"revoke", "drop"}} :
                         req[r].at # "after" /\ SignOut(r, todo)
               Over == /\ req[r].at \notin {"after", "store"}
                       /\ End(r)
                       /\ UNCHANGED <<csrfHistory, tokenHistory, tokens, user>>
    <2>1. Logout(r) => Out \/ Over
      BY DEF Logout, Free, At
    <2>2. ChangeUpdate(r) => Out \/ Over
      BY DEF ChangeUpdate, At
    <2>3. ResetUpdate(r) => Out \/ Over
      BY DEF ResetUpdate, At
    <2>4. DeleteRow(r) => Out \/ Over
      BY DEF DeleteRow, At
    <2>5. CASE Out
      BY <2>5 DEF Leaves
    <2>6. CASE Over
      BY <2>6, EndIsCalm DEF Calm
    <2> HIDE DEF Out, Over
    <2>7. Out \/ Over
      BY <1>1, <2>1, <2>2, <2>3, <2>4
    <2>8. QED BY <2>5, <2>6, <2>7
  <1>2. CASE CsrfToken(r)
    BY <1>2, SameIsCalm DEF CsrfToken, Calm
  <1>3. CASE \E p, q \in Passwords : ChangePassword(r, p, q)
    <2>1. PICK p \in Passwords, w \in Passwords : ChangePassword(r, p, w)
      BY <1>3
    <2> DEFINE q == [Idle EXCEPT !.at = "change_csrf", !.password = p, !.wanted = w]
    <2>2. q.at = "change_csrf" /\ q.old = 0 /\ q.todo = {} /\ q.keys = {}
      BY DEF Idle
    <2>3. Becomes(r, q) /\ req[r].at = "idle"
      BY <2>1 DEF ChangePassword, Free, At
    <2>4. UNCHANGED <<csrfHistory, tokenHistory, tokens, user>>
      BY <2>1 DEF ChangePassword
    <2> HIDE DEF q
    <2>5. QED BY <2>2, <2>3, <2>4, NewIsCalm DEF Elsewhere, Calm
  <1>4. CASE RequireCsrf(r, "change_csrf", "change_find")
    <2>1. UNCHANGED <<csrfHistory, tokenHistory, tokens, user>>
      BY <1>4 DEF RequireCsrf
    <2>2. QED BY <1>4, <2>1, FormsAreCalm, EndIsCalm DEF RequireCsrf, At, Elsewhere, Calm
  <1>5. CASE RequireCsrf(r, "delete_csrf", "delete_row")
    <2>1. UNCHANGED <<csrfHistory, tokenHistory, tokens, user>>
      BY <1>5 DEF RequireCsrf
    <2>2. QED BY <1>5, <2>1, FormsAreCalm, EndIsCalm DEF RequireCsrf, At, Elsewhere, Calm
  <1>6. CASE ChangeFind(r)
    <2>1. UNCHANGED <<csrfHistory, tokenHistory, tokens, user>>
      BY <1>6 DEF ChangeFind
    <2>2. QED BY <1>6, <2>1, FormsAreCalm, EndIsCalm DEF ChangeFind, At, Elsewhere, Calm
  <1>7. CASE DeleteAccount(r)
    <2> DEFINE q == [Idle EXCEPT !.at = "delete_csrf"]
    <2>2. q.at = "delete_csrf" /\ q.old = 0 /\ q.todo = {} /\ q.keys = {}
      BY DEF Idle
    <2>3. Becomes(r, q) /\ req[r].at = "idle"
      BY <1>7 DEF DeleteAccount, Free, At
    <2>4. UNCHANGED <<csrfHistory, tokenHistory, tokens, user>>
      BY <1>7 DEF DeleteAccount
    <2> HIDE DEF q
    <2>5. QED BY <2>2, <2>3, <2>4, NewIsCalm DEF Elsewhere, Calm
  <1>8. CASE ForgotPassword(r)
    <2> DEFINE q == [Idle EXCEPT !.at = "forgot_set", !.link = user.lastLink + 1]
    <2>2. q.at = "forgot_set" /\ q.old = 0 /\ q.todo = {} /\ q.keys = {}
      BY DEF Idle
    <2>3. Becomes(r, q) /\ req[r].at = "idle"
      BY <1>8 DEF ForgotPassword, Free, At
    <2>4. UNCHANGED <<csrfHistory, tokenHistory, tokens>> /\ user'.exists = user.exists
      BY <1>0, <1>8 DEF ForgotPassword, UserRow
    <2>5. CalmExchange(req[r], q) /\ CalmDrop(req[r], q) /\ CalmLimit(req[r], q)
      BY <1>0, <2>2, <2>3 DEF CalmExchange, CalmDrop, CalmLimit, Formed
    <2> HIDE DEF q
    <2>6. QED BY <1>8, <2>3, <2>4, <2>5, BecomesLemma, SameIsCalm DEF Calm
  <1>9. CASE ForgotSet(r)
    <2>1. UNCHANGED <<csrfHistory, tokenHistory, tokens>> /\ user'.exists = user.exists
      BY <1>0, <1>9 DEF ForgotSet, UserRow
    <2>2. QED BY <1>9, <2>1, EndIsCalm DEF ForgotSet, At, Calm
  <1>10. CASE \E k \in Links, q \in Passwords : ResetPassword(r, k, q)
    <2>1. PICK k \in Links, w \in Passwords : ResetPassword(r, k, w)
      BY <1>10
    <2> DEFINE q == [Idle EXCEPT !.at = "reset_find", !.link = k, !.wanted = w]
    <2>2. q.at = "reset_find" /\ q.old = 0 /\ q.todo = {} /\ q.keys = {}
      BY DEF Idle
    <2>3. Becomes(r, q) /\ req[r].at = "idle"
      BY <2>1 DEF ResetPassword, Free, At
    <2>4. UNCHANGED <<csrfHistory, tokenHistory, tokens, user>>
      BY <2>1 DEF ResetPassword
    <2> HIDE DEF q
    <2>5. QED BY <2>2, <2>3, <2>4, NewIsCalm DEF Elsewhere, Calm
  <1>11. CASE ResetFind(r)
    <2>1. UNCHANGED <<csrfHistory, tokenHistory, tokens, user>>
      BY <1>11 DEF ResetFind
    <2>2. (Go(r, "reset_update") \/ End(r)) /\ req[r].at = "reset_find"
      BY <1>11 DEF ResetFind, At
    <2>3. CASE End(r)
      BY <2>1, <2>2, <2>3, EndIsCalm DEF Calm
    <2>4. CASE Go(r, "reset_update")
      <3> DEFINE q == [req[r] EXCEPT !.at = "reset_update"]
      <3>1. q.at = "reset_update" /\ q.old = 0 /\ q.todo = {} /\ q.keys = {}
        BY <1>0, <2>2 DEF Request, Formed
      <3>2. CalmExchange(req[r], q) /\ CalmDrop(req[r], q) /\ CalmLimit(req[r], q)
        BY <1>0, <2>2, <3>1 DEF CalmExchange, CalmDrop, CalmLimit, Formed
      <3>3. Becomes(r, q)
        BY <2>4 DEF Go
      <3> HIDE DEF q
      <3>4. QED BY <1>11, <2>1, <3>2, <3>3, BecomesLemma, SameIsCalm DEF Calm
    <2>5. QED BY <2>2, <2>3, <2>4
  <1>12. QED
    BY <1>1, <1>2, <1>3, <1>4, <1>5, <1>6, <1>7, <1>8, <1>9, <1>10, <1>11 DEF Leave

-----------------------------------------------------------------------------
\* The variables the steps leave alone.
LEMMA SignInFrame ==
    ASSUME Typed, NEW r \in Requests, SignIn(r)
    PROVE  /\ world' = world /\ hitches \subseteq hitches'
           /\ UNCHANGED <<redisUp, csrf, csrfHistory, uses, shared>>
           /\ user'.resetToken = user.resetToken /\ user'.lastLink = user.lastLink
           /\ LimitSet(r) \/ ClearAttempts(r) \/ UNCHANGED <<attempts, admitted>>
           /\ StoreToken(r) \/ UNCHANGED <<tokens, tokenHistory>>
           /\ RegisterCreate(r) \/ user'.exists = user.exists
  <1> USE DEF storeVars, rowVars, tokenHistory, csrfHistory, countHistory
  <1>0. user \in UserRow
    BY DEF Typed, TypeOK
  <1>1. ASSUME \E p \in Passwords : Register(r, p) \/ Login(r, p)
        PROVE  UNCHANGED <<world, hitches, storeVars, rowVars, tokenHistory, csrfHistory, countHistory>>
    BY <1>1 DEF Register, Login
  <1>2. ASSUME RegisterFind(r) \/ LimitGet(r) \/ FindUser(r) \/ CountGet(r)
        PROVE  UNCHANGED <<world, hitches, storeVars, rowVars, tokenHistory, csrfHistory, countHistory>>
    BY <1>2 DEF RegisterFind, LimitGet, FindUser, CountGet
  <1>3. ASSUME RegisterCreate(r)
        PROVE  /\ UNCHANGED <<world, hitches, storeVars, tokens, tokenHistory, csrfHistory, countHistory>>
               /\ user'.resetToken = user.resetToken /\ user'.lastLink = user.lastLink
    BY <1>0, <1>3 DEF RegisterCreate, UserRow
  <1>4. ASSUME RegisterRows(r)
        PROVE  /\ UNCHANGED <<world, storeVars, rowVars, tokenHistory, csrfHistory, countHistory>>
               /\ hitches \subseteq hitches'
    BY <1>4 DEF RegisterRows, Note
  <1>5. ASSUME LimitSet(r)
        PROVE  /\ UNCHANGED <<world, redisUp, csrf, rowVars, tokenHistory, csrfHistory, uses>>
               /\ hitches \subseteq hitches'
    BY <1>5 DEF LimitSet
  <1>6. ASSUME Compare(r)
        PROVE  UNCHANGED <<world, hitches, storeVars, rowVars, tokenHistory, csrfHistory, admitted, uses>>
    BY <1>6 DEF Compare
  <1>7. ASSUME CountSet(r)
        PROVE  /\ UNCHANGED <<world, storeVars, tokens, tokenHistory, csrfHistory, countHistory>>
               /\ hitches \subseteq hitches'
               /\ user'.resetToken = user.resetToken /\ user'.lastLink = user.lastLink
               /\ user'.exists = user.exists
    BY <1>0, <1>7 DEF CountSet, Note, NoteIf, UserRow
  <1>8. ASSUME LockUser(r)
        PROVE  /\ UNCHANGED <<world, hitches, storeVars, tokens, tokenHistory, csrfHistory, countHistory>>
               /\ user'.resetToken = user.resetToken /\ user'.lastLink = user.lastLink
               /\ user'.exists = user.exists
    BY <1>0, <1>8 DEF LockUser, UserRow
  <1>9. ASSUME UnlockUser(r)
        PROVE  /\ UNCHANGED <<world, storeVars, tokens, tokenHistory, csrfHistory, admitted, uses>>
               /\ hitches \subseteq hitches'
               /\ user'.resetToken = user.resetToken /\ user'.lastLink = user.lastLink
               /\ user'.exists = user.exists
    BY <1>0, <1>9 DEF UnlockUser, Note, NoteIf, UserRow
  <1>10. ASSUME ClearAttempts(r)
        PROVE  /\ UNCHANGED <<world, redisUp, csrf, rowVars, tokenHistory, csrfHistory, uses>>
               /\ hitches \subseteq hitches'
    BY <1>10 DEF ClearAttempts, NoteIf
  <1>11. ASSUME StoreToken(r)
        PROVE  /\ UNCHANGED <<world, storeVars, user, shared, csrfHistory, countHistory>>
               /\ hitches \subseteq hitches'
    BY <1>11 DEF StoreToken, Note, NoteIf
  <1>12. QED
    BY <1>1, <1>2, <1>3, <1>4, <1>5, <1>6, <1>7, <1>8, <1>9, <1>10, <1>11 DEF SignIn

LEMMA ExchangeFrame ==
    ASSUME Typed, NEW r \in Requests, Exchange(r)
    PROVE  /\ UNCHANGED <<world, user, storeVars, csrfHistory, countHistory>>
           /\ UNCHANGED <<parent, stale, raced>>
           /\ hitches \subseteq hitches'
  BY DEF Exchange, Refresh, Verify, FindById, RevokeOne, Note, tokenHistory, rowVars

LEMMA LeaveFrame ==
    ASSUME Typed, NEW r \in Requests, Leave(r)
    PROVE  /\ UNCHANGED <<world, redisUp, attempts, admitted>>
           /\ hitches \subseteq hitches'
           /\ CsrfToken(r) \/ csrf' = csrf
           /\ ResetUpdate(r) \/ uses' = uses
           /\ \/ ForgotPassword(r) \/ ForgotSet(r) \/ ResetUpdate(r)
              \/ user'.resetToken = user.resetToken /\ user'.lastLink = user.lastLink
  <1> USE DEF storeVars, rowVars, countHistory
  <1>0. user \in UserRow
    BY DEF Typed, TypeOK
  <1>1. ASSUME \/ Logout(r) \/ RequireCsrf(r, "change_csrf", "change_find") \/ ChangeFind(r)
               \/ DeleteAccount(r) \/ RequireCsrf(r, "delete_csrf", "delete_row")
               \/ \E p, q \in Passwords : ChangePassword(r, p, q)
               \/ \E k \in Links, q \in Passwords : ResetPassword(r, k, q)
        PROVE  UNCHANGED <<world, storeVars, user, countHistory, hitches>>
    BY <1>1 DEF Logout, RequireCsrf, ChangeFind, DeleteAccount, ChangePassword, ResetPassword
  <1>2. ASSUME CsrfToken(r)
        PROVE  UNCHANGED <<world, redisUp, attempts, user, countHistory>> /\ hitches \subseteq hitches'
    BY <1>2 DEF CsrfToken, NoteIf
  <1>3. ASSUME ChangeUpdate(r) \/ DeleteRow(r)
        PROVE  /\ UNCHANGED <<world, storeVars, countHistory, hitches>>
               /\ user'.resetToken = user.resetToken /\ user'.lastLink = user.lastLink
    BY <1>0, <1>3 DEF ChangeUpdate, DeleteRow, UserRow
  <1>4. ASSUME ForgotPassword(r) \/ ForgotSet(r)
        PROVE  UNCHANGED <<world, storeVars, countHistory, hitches>>
    BY <1>4 DEF ForgotPassword, ForgotSet
  <1>5. ASSUME ResetFind(r)
        PROVE  UNCHANGED <<world, storeVars, user, countHistory>> /\ hitches \subseteq hitches'
    BY <1>5 DEF ResetFind, NoteIf
  <1>6. ASSUME ResetUpdate(r)
        PROVE  UNCHANGED <<world, storeVars, admitted>> /\ hitches \subseteq hitches'
    BY <1>6 DEF ResetUpdate, NoteIf
  <1>7. QED
    BY <1>1, <1>2, <1>3, <1>4, <1>5, <1>6 DEF Leave

\* An administrator's request signs out, or touches neither tokens nor requests.
LEMMA AdministerFrame ==
    ASSUME Typed, NEW r \in Requests, Administer(r)
    PROVE  /\ UNCHANGED <<world, storeVars, tokens, admitted, uses>>
           /\ hitches \subseteq hitches'
           /\ user'.resetToken = user.resetToken /\ user'.lastLink = user.lastLink
           /\ user'.exists = user.exists /\ ("delete" \notin world => user.exists \/ req' = req)
           /\ \/ Leaves(r, {"revoke", "drop"})
              \/ UNCHANGED <<req, tokenHistory, csrfHistory>>
  <1> USE DEF storeVars, rowVars, countHistory, tokenHistory, csrfHistory
  <1>0. user \in UserRow
    BY DEF Typed, TypeOK
  <1>1. ASSUME NEW active \in BOOLEAN, SetStatus(r, active) \/ UpdateUser(r, active)
        PROVE  /\ UNCHANGED <<world, storeVars, tokens, admitted, uses>>
               /\ hitches \subseteq hitches'
               /\ user'.resetToken = user.resetToken /\ user'.lastLink = user.lastLink
               /\ user'.exists = user.exists /\ user.exists
               /\ \/ Leaves(r, {"revoke", "drop"})
                  \/ UNCHANGED <<req, tokenHistory, csrfHistory>>
    BY <1>0, <1>1 DEF SetStatus, UpdateUser, NoteIf, UserRow, Leaves, Free, At
  <1>2. ASSUME NEW active \in BOOLEAN, UnlockAccount(r) \/ ImportUser(r, active)
        PROVE  /\ UNCHANGED <<world, storeVars, tokens, admitted, uses>>
               /\ hitches \subseteq hitches'
               /\ user'.resetToken = user.resetToken /\ user'.lastLink = user.lastLink
               /\ user'.exists = user.exists /\ user.exists
               /\ UNCHANGED <<req, tokenHistory, csrfHistory>>
    BY <1>0, <1>2 DEF UnlockAccount, ImportUser, NoteIf, UserRow
  <1>3. QED
    BY <1>1, <1>2 DEF Administer

\* What Remaining makes of the request of r.
LEMMA RemainingLemma ==
    ASSUME Typed, NEW r \in Requests, NEW todo, NEW keys, Remaining(r, todo, keys),
           req[r].todo # {} \/ req[r].keys # {}
    PROVE  /\ \A o \in Requests \ {r} : req'[o] = req[o]
           /\ req'[r].old = 0 /\ req'[r].at \in {"after", "idle"}
           /\ req'[r].todo = todo /\ req'[r].keys = keys
  <1>0. /\ req[r] \in Request /\ req[r].at = "after" /\ req[r].old = 0
        /\ Idle.old = 0 /\ Idle.at = "idle" /\ Idle.todo = {} /\ Idle.keys = {}
    BY DEF Typed, TypeOK, Formed, Idle
  <1>1. CASE todo = {} /\ keys = {}
    BY <1>0, <1>1, BecomesLemma DEF Remaining
  <1>2. CASE ~(todo = {} /\ keys = {})
    <2> DEFINE q == [req[r] EXCEPT !.todo = todo, !.keys = keys]
    <2>1. q.at = "after" /\ q.old = 0 /\ q.todo = todo /\ q.keys = keys
      BY <1>0 DEF Request
    <2>2. Becomes(r, q)
      BY <1>2 DEF Remaining
    <2> HIDE DEF q
    <2>3. QED BY <2>1, <2>2, BecomesLemma
  <1>3. QED BY <1>1, <1>2

\* The settling of r: only what it has yet to do changes of it.
LEMMA SettleFrame ==
    ASSUME Typed, NEW r \in Requests, Settle(r)
    PROVE  /\ UNCHANGED <<world, redisUp, attempts, user, tokenHistory, csrfHistory, countHistory>>
           /\ hitches \subseteq hitches'
           /\ req[r].at = "after"
           /\ \A o \in Requests \ {r} : req'[o] = req[o]
           /\ req'[r].old = 0 /\ req'[r].at \in {"after", "idle"}
           /\ \/ /\ RevokeAll(r)
                 /\ req'[r].todo = req[r].todo \ {"revoke"} /\ req'[r].keys = req[r].keys
                 /\ csrf' = csrf
              \/ /\ DropCsrf(r)
                 /\ req'[r].todo = req[r].todo \ {"drop"}
                 /\ req'[r].keys = IF redisUp THEN KeysNow ELSE {}
                 /\ tokens' = tokens
              \/ /\ DropKey(r)
                 /\ req'[r].todo = req[r].todo
                 /\ tokens' = tokens
  <1>0. /\ TypeOK /\ req[r] \in Request /\ Formed(req[r])
        /\ Idle.old = 0 /\ Idle.at = "idle" /\ Idle.todo = {} /\ Idle.keys = {}
    BY DEF Typed, TypeOK, Idle
  <1>1. /\ req[r].at = "after" /\ req[r].old = 0
        /\ req[r].todo # {} \/ req[r].keys # {}
    BY <1>0 DEF Formed, Settle, RevokeAll, DropCsrf, DropKey
  <1>3. CASE RevokeAll(r)
    <2>1. /\ UNCHANGED <<world, redisUp, attempts, user, tokenHistory, csrfHistory, countHistory>>
          /\ csrf' = csrf /\ hitches \subseteq hitches'
      BY <1>3 DEF RevokeAll, Note, storeVars
    <2>2. Remaining(r, req[r].todo \ {"revoke"}, req[r].keys)
      BY <1>3 DEF RevokeAll
    <2>3. QED BY <1>1, <1>3, <2>1, <2>2, RemainingLemma
  <1>4. CASE DropCsrf(r)
    <2>1. /\ UNCHANGED <<world, redisUp, attempts, user, tokenHistory, csrfHistory, countHistory>>
          /\ tokens' = tokens /\ hitches \subseteq hitches'
      BY <1>4 DEF DropCsrf, rowVars
    <2>2. Remaining(r, req[r].todo \ {"drop"}, IF redisUp THEN KeysNow ELSE {})
      BY <1>4 DEF DropCsrf
    <2>3. QED BY <1>1, <1>4, <2>1, <2>2, RemainingLemma
  <1>5. CASE DropKey(r)
    <2>1. /\ UNCHANGED <<world, redisUp, attempts, user, tokenHistory, csrfHistory, countHistory>>
          /\ tokens' = tokens /\ hitches \subseteq hitches'
      BY <1>5 DEF DropKey, rowVars
    <2>2. PICK k : Remaining(r, req[r].todo, req[r].keys \ {k})
      BY <1>5 DEF DropKey
    <2>3. QED BY <1>1, <1>5, <2>1, <2>2, RemainingLemma
  <1>6. QED BY <1>3, <1>4, <1>5 DEF Settle

LEMMA ClockFrame ==
    ASSUME Typed, Tick \/ LockExpires \/ WindowPasses \/ RedisChanges
    PROVE  /\ UNCHANGED <<world, csrf, tokens, req, tokenHistory, csrfHistory, uses>>
           /\ hitches \subseteq hitches'
           /\ user'.resetToken = user.resetToken /\ user'.lastLink = user.lastLink
           /\ user'.exists = user.exists
           /\ WindowPasses \/ UNCHANGED <<attempts, admitted>>
           /\ RedisChanges \/ redisUp' = redisUp
  <1>0. user \in UserRow
    BY DEF Typed, TypeOK
  <1>1. CASE Tick
    BY <1>1 DEF Tick, storeVars, rowVars, countHistory
  <1>2. CASE LockExpires
    BY <1>0, <1>2 DEF LockExpires, storeVars, UserRow
  <1>3. CASE WindowPasses
    BY <1>3 DEF WindowPasses, rowVars
  <1>4. CASE RedisChanges
    BY <1>4 DEF RedisChanges, rowVars, countHistory, Note
  <1>5. QED BY <1>1, <1>2, <1>3, <1>4

-----------------------------------------------------------------------------
(***************************************************************************)
(* The limiter: the entry in Redis counts at least the sign-ins admitted,  *)
(* and so does what a request about to write it has read.                  *)
(***************************************************************************)
LimitInv ==
    hitches \cap {"limiter_race", "redis_trouble"} = {} =>
        /\ redisUp
        /\ admitted < MAX_AUTH_ATTEMPTS
        /\ admitted <= attempts["redis"]
        /\ \A r \in Requests : req[r].at = "limit_set" => admitted <= req[r].seen

LEMMA LimitFrame ==
    ASSUME Typed, LimitInv, \A o \in Requests : CalmLimit(req[o], req'[o]),
           UNCHANGED <<redisUp, attempts, admitted>>, hitches \subseteq hitches'
    PROVE  LimitInv'
  BY DEF LimitInv, CalmLimit

LEMMA StepLimit ==
    ASSUME SessionsAssumption, Typed, LimitInv, [Next]_vars
    PROVE  LimitInv'
  <1>0. /\ TypeOK /\ attempts["redis"] \in Nat /\ admitted \in Nat /\ MAX_AUTH_ATTEMPTS \in Nat
        /\ MAX_AUTH_ATTEMPTS > 1
        /\ \A o \in Requests : req[o].seen \in Nat
    BY DEF Typed, TypeOK, StoreTypeOK, Stores, SessionsAssumption, Request
  <1>1. ASSUME NEW r \in Requests, LimitGet(r) PROVE LimitInv'
    <2>1. /\ UNCHANGED <<redisUp, attempts, admitted, hitches>> /\ req[r].at = "limit_get"
          /\ End(r) \/ Becomes(r, [req[r] EXCEPT !.at = "limit_set", !.seen = AttemptsNow])
      BY <1>1 DEF LimitGet, storeVars, countHistory, At
    <2>2. CASE End(r)
      BY <2>1, <2>2, EndIsCalm, LimitFrame DEF Calm
    <2>3. CASE Becomes(r, [req[r] EXCEPT !.at = "limit_set", !.seen = AttemptsNow])
      <3> DEFINE q == [req[r] EXCEPT !.at = "limit_set", !.seen = AttemptsNow]
      <3>a. req[r] \in Request
        BY <1>0 DEF TypeOK
      <3>b. q.seen = AttemptsNow
        BY <3>a DEF Request
      <3> HIDE DEF q
      <3>1. req'[r].seen = AttemptsNow /\ \A o \in Requests \ {r} : req'[o] = req[o]
        BY <2>3, <3>b, BecomesLemma DEF q
      <3>2. redisUp => AttemptsNow = attempts["redis"]
        BY DEF AttemptsNow, Current
      <3>3. QED BY <1>0, <2>1, <3>1, <3>2 DEF LimitInv
    <2>4. QED BY <2>1, <2>2, <2>3
  <1>2. ASSUME NEW r \in Requests, LimitSet(r) PROVE LimitInv'
    <2>1. /\ req[r].at = "limit_set" /\ redisUp' = redisUp /\ hitches \subseteq hitches'
          /\ \A o \in Requests : CalmLimit(req[o], req'[o])
      BY <1>2, SignInMoves, SignInFrame DEF SignIn, LimitSet, LimitGet, At
    <2>2. SUFFICES ASSUME hitches' \cap {"limiter_race", "redis_trouble"} = {}
                   PROVE  /\ admitted' < MAX_AUTH_ATTEMPTS
                          /\ admitted' <= attempts'["redis"]
                          /\ \A o \in Requests : req'[o].at = "limit_set" => admitted' <= req'[o].seen
      BY <2>1 DEF LimitInv
    <2>3. /\ redisUp /\ admitted < MAX_AUTH_ATTEMPTS /\ admitted <= req[r].seen
      BY <2>1, <2>2 DEF LimitInv
    <2>4. \A o \in Requests \ {r} : req[o].at # "limit_set"
      BY <1>2, <2>2 DEF LimitSet, At
    <2>5. attempts'["redis"] = req[r].seen + 1
      <3>1. PICK s \in Reached("redis_fails" \in world) :
                /\ SetAttempts(s, req[r].seen + 1)
                /\ s # Current => "redis_trouble" \in hitches'
        BY <1>2 DEF LimitSet
      <3>2. s = Current /\ Current = "redis"
        BY <2>2, <2>3, <3>1 DEF Current
      <3>3. QED BY <1>0, <3>1, <3>2 DEF SetAttempts, TypeOK, StoreTypeOK, Stores
    <2>6. req'[r].at # "limit_set"
      <3>1. CASE End(r)
        BY <3>1, BecomesLemma DEF End, Idle
      <3>2. CASE Becomes(r, [req[r] EXCEPT !.at = "find", !.seen = 0])
        <4> DEFINE q == [req[r] EXCEPT !.at = "find", !.seen = 0]
        <4>1. req[r] \in Request
          BY <1>0 DEF TypeOK
        <4>2. q.at = "find"
          BY <4>1 DEF Request
        <4> HIDE DEF q
        <4>3. QED BY <3>2, <4>2, BecomesLemma DEF q
      <3>3. QED BY <1>2, <3>1, <3>2 DEF LimitSet
    <2>7. \A o \in Requests : req'[o].at # "limit_set"
      BY <2>1, <2>4, <2>6 DEF CalmLimit
    <2>8. \/ req[r].seen + 1 >= MAX_AUTH_ATTEMPTS /\ admitted' = admitted
          \/ req[r].seen + 1 < MAX_AUTH_ATTEMPTS /\ admitted' = admitted + 1
      BY <1>0, <1>2, <2>3 DEF LimitSet, OneMore
    <2>9. QED BY <1>0, <2>3, <2>5, <2>7, <2>8
  <1>3. ASSUME NEW r \in Requests, ClearAttempts(r) PROVE LimitInv'
    <2>1. /\ redisUp' = redisUp /\ hitches \subseteq hitches' /\ admitted' = 0
          /\ \A o \in Requests : CalmLimit(req[o], req'[o])
      BY <1>3, SignInMoves, SignInFrame DEF SignIn, ClearAttempts, LimitGet, At
    <2>2. attempts'["redis"] \in Nat
      BY <1>0, <1>3 DEF ClearAttempts, RemoveAttempts, TypeOK, StoreTypeOK, Stores
    <2>3. QED BY <1>0, <2>1, <2>2 DEF LimitInv, CalmLimit
  <1>4. ASSUME WindowPasses PROVE LimitInv'
    BY <1>0, <1>4 DEF WindowPasses, LimitInv, Stores
  <1>5. ASSUME RedisChanges PROVE LimitInv'
    BY <1>5 DEF RedisChanges, Note, LimitInv
  <1>6. ASSUME NEW r \in Requests, SignIn(r) PROVE LimitInv'
    <2>1. CASE LimitGet(r) \/ LimitSet(r) \/ ClearAttempts(r)
      BY <1>1, <1>2, <1>3, <2>1
    <2>2. CASE ~(LimitGet(r) \/ LimitSet(r) \/ ClearAttempts(r))
      BY <1>6, <2>2, SignInMoves, SignInFrame, LimitFrame
    <2>3. QED BY <2>1, <2>2
  <1>7. ASSUME NEW r \in Requests, Exchange(r) PROVE LimitInv'
    BY <1>7, ExchangeMoves, ExchangeFrame, LimitFrame DEF storeVars, countHistory
  <1>8. ASSUME NEW r \in Requests, Leave(r) PROVE LimitInv'
    BY <1>8, LeaveMoves, LeaveFrame, SignOutMoves, LimitFrame DEF Leaves
  <1>9. ASSUME NEW r \in Requests, Administer(r) PROVE LimitInv'
    BY <1>9, AdministerFrame, SignOutMoves, SameIsCalm, LimitFrame DEF Leaves, storeVars, Calm
  <1>10. ASSUME NEW r \in Requests, Settle(r) PROVE LimitInv'
    <2>1. \A o \in Requests : CalmLimit(req[o], req'[o])
      BY <1>10, SettleFrame, SameIsCalm DEF CalmLimit, Calm
    <2>2. QED BY <1>10, <2>1, SettleFrame, LimitFrame DEF countHistory
  <1>11. ASSUME Tick \/ LockExpires PROVE LimitInv'
    BY <1>11, SameIsCalm, LimitFrame DEF Tick, LockExpires, storeVars, countHistory, Calm
  <1>12. CASE UNCHANGED vars
    BY <1>12, SameIsCalm, LimitFrame DEF vars, Calm
  <1>13. QED
    BY <1>4, <1>5, <1>6, <1>7, <1>8, <1>9, <1>10, <1>11, <1>12 DEF Next

(***************************************************************************)
(* The limiter of sign-ins admits fewer than its maximum in a window, for  *)
(* any number of requests at once and any maximum (middleware/auth.ts:466). *)
(***************************************************************************)
THEOREM LimiterCounts == Spec => []LimiterCountsEverySignIn
  <1>1. Init => LimitInv
    BY SessionsAssumption DEF Init, StoreInit, LimitInv, Stores, Idle, SessionsAssumption
  <1>2. Typed /\ LimitInv /\ [Next]_vars => LimitInv'
    BY StepLimit, SessionsAssumption
  <1>3. LimitInv => LimiterCountsEverySignIn
    BY DEF LimitInv, LimiterCountsEverySignIn
  <1>4. QED
    BY <1>1, <1>2, <1>3, AlwaysTyped, PTL DEF Spec

-----------------------------------------------------------------------------
(***************************************************************************)
(* The reset links: each is stored once, by the request that made it, and  *)
(* one that has been used is neither stored nor held by a request that is  *)
(* about to use it.                                                        *)
(***************************************************************************)
Holding(r, k) == req[r].at = "reset_update" /\ req[r].link = k
Storing(r, k) == req[r].at = "forgot_set" /\ req[r].link = k

LinksMade ==
    /\ user.resetToken <= user.lastLink
    /\ \A r \in Requests, k \in Links : Storing(r, k) \/ Holding(r, k) => k <= user.lastLink
    /\ \A k \in Links : k > user.lastLink => uses[k] = 0

LinksStoredOnce ==
    \A r \in Requests, k \in Links :
        Storing(r, k) => /\ uses[k] = 0
                         /\ user.resetToken # k
                         /\ \A o \in Requests : ~Holding(o, k)
                         /\ \A o \in Requests \ {r} : ~Storing(o, k)

LinksUsedOnce ==
    "reset_race" \notin hitches =>
        \A k \in Links :
            /\ uses[k] <= 1
            /\ uses[k] > 0 => user.resetToken # k /\ \A r \in Requests : ~Holding(r, k)
            /\ \A r \in Requests : \A o \in Requests \ {r} : ~(Holding(r, k) /\ Holding(o, k))

ResetInv == LinksMade /\ LinksStoredOnce /\ LinksUsedOnce

LEMMA ResetFrame ==
    ASSUME Typed, ResetInv, \A o \in Requests : CalmReset(req[o], req'[o]),
           user'.resetToken = user.resetToken, user'.lastLink = user.lastLink,
           uses' = uses, hitches \subseteq hitches'
    PROVE  ResetInv'
  <1>1. \A o \in Requests, k \in Links :
            /\ Holding(o, k)' => Holding(o, k)
            /\ Storing(o, k)' => Storing(o, k)
    BY DEF Holding, Storing, CalmReset
  <1>2. QED
    BY <1>1 DEF ResetInv, LinksMade, LinksStoredOnce, LinksUsedOnce, Links

LEMMA StepReset ==
    ASSUME SessionsAssumption, Typed, ResetInv, [Next]_vars
    PROVE  ResetInv'
  <1>0. /\ TypeOK /\ user \in UserRow /\ uses \in [Links -> Nat]
        /\ user.lastLink \in Nat /\ user.resetToken \in Nat /\ MaxLinks \in Nat
    BY DEF Typed, TypeOK, SessionsAssumption, UserRow, Links
  <1>1. ASSUME NEW r \in Requests, ForgotPassword(r) PROVE ResetInv'
    <2> DEFINE n == user.lastLink + 1
               q == [Idle EXCEPT !.at = "forgot_set", !.link = n]
    <2>1. q.at = "forgot_set" /\ q.link = n
      BY DEF Idle
    <2>2. Becomes(r, q) /\ n \in Links
      BY <1>0, <1>1 DEF ForgotPassword, Links
    <2>3. /\ user'.lastLink = n /\ user'.resetToken = user.resetToken
          /\ uses' = uses /\ hitches' = hitches
      BY <1>0, <1>1 DEF ForgotPassword, UserRow, countHistory
    <2> HIDE DEF q
    <2>4. \A o \in Requests, k \in Links :
             /\ Holding(o, k)' => Holding(o, k)
             /\ Storing(o, k)' => (o = r /\ k = n) \/ (o # r /\ Storing(o, k))
      BY <2>1, <2>2, BecomesLemma DEF Holding, Storing
    <2>5. n > user.lastLink /\ uses[n] = 0 /\ user.resetToken # n /\ \A k \in Links : k > n => k > user.lastLink
      BY <1>0, <2>2 DEF ResetInv, LinksMade, Links
    <2>6. \A o \in Requests : ~Holding(o, n) /\ ~Storing(o, n)
      BY <1>0, <2>2, <2>5 DEF ResetInv, LinksMade
    <2>7. \A k \in Links : k <= user.lastLink => k <= n
      BY <1>0 DEF Links
    <2> HIDE DEF n
    <2>8. LinksMade'
      <3>1. n \in Nat /\ user.resetToken <= n /\ \A k \in Links : k <= n \/ k > n
        BY <1>0, <2>2, <2>5 DEF ResetInv, LinksMade, Links, n
      <3>2. \A o \in Requests, k \in Links : Storing(o, k)' \/ Holding(o, k)' => k <= n
        BY <2>4, <2>7, <3>1 DEF ResetInv, LinksMade, Links
      <3>3. QED BY <2>3, <2>5, <3>1, <3>2 DEF ResetInv, LinksMade, Links
    <2>9. LinksStoredOnce'
      BY <2>3, <2>4, <2>5, <2>6 DEF ResetInv, LinksStoredOnce, Links
    <2>10. LinksUsedOnce'
      BY <2>3, <2>4 DEF ResetInv, LinksUsedOnce, Links
    <2>11. QED BY <2>8, <2>9, <2>10 DEF ResetInv
  <1>2. ASSUME NEW r \in Requests, ForgotSet(r) PROVE ResetInv'
    <2>1. req[r].at = "forgot_set" /\ req[r].link \in Links
      BY <1>2 DEF ForgotSet, At, Typed, Formed
    <2>2. /\ user'.lastLink = user.lastLink
          /\ user'.resetToken \in {user.resetToken, req[r].link}
          /\ uses' = uses /\ hitches' = hitches /\ End(r)
      BY <1>0, <1>2 DEF ForgotSet, UserRow, countHistory
    <2>3. \A o \in Requests, k \in Links :
             /\ Holding(o, k)' => Holding(o, k)
             /\ Storing(o, k)' => o # r /\ Storing(o, k)
      BY <2>2, BecomesLemma DEF End, Idle, Holding, Storing
    <2>4. Storing(r, req[r].link)
      BY <2>1 DEF Storing
    <2>5. LinksMade'
      BY <2>1, <2>2, <2>3, <2>4 DEF ResetInv, LinksMade, Links
    <2>6. LinksStoredOnce'
      BY <2>1, <2>2, <2>3, <2>4 DEF ResetInv, LinksStoredOnce, Links
    <2>7. LinksUsedOnce'
      <3>1. uses[req[r].link] = 0
        BY <2>1, <2>4 DEF ResetInv, LinksStoredOnce
      <3>2. QED BY <2>1, <2>2, <2>3, <3>1 DEF ResetInv, LinksUsedOnce, Links
    <2>8. QED BY <2>5, <2>6, <2>7 DEF ResetInv
  <1>3. ASSUME NEW r \in Requests, ResetFind(r) PROVE ResetInv'
    <2>1. /\ user' = user /\ uses' = uses /\ hitches \subseteq hitches' /\ req[r].at = "reset_find"
          /\ (Go(r, "reset_update") /\ user.resetToken = req[r].link) \/ End(r)
      BY <1>3 DEF ResetFind, rowVars, countHistory, NoteIf, At
    <2>2. CASE End(r)
      BY <2>1, <2>2, EndIsCalm, ResetFrame DEF Calm
    <2>3. CASE ~End(r)
      <3> DEFINE q == [req[r] EXCEPT !.at = "reset_update"]
                 n == req[r].link
      <3>1. q.at = "reset_update" /\ q.link = n /\ n \in Links
        <4>1. req[r] \in Request
          BY <1>0 DEF TypeOK
        <4>2. QED BY <2>1, <4>1 DEF Request, Typed, Formed
      <3>2. Becomes(r, q) /\ user.resetToken = n
        BY <2>1, <2>3 DEF Go
      <3> HIDE DEF q, n
      <3>3. \A o \in Requests, k \in Links :
               /\ Holding(o, k)' => (o = r /\ k = n) \/ (o # r /\ Holding(o, k))
               /\ Storing(o, k)' => o # r /\ Storing(o, k)
        BY <3>1, <3>2, BecomesLemma DEF Holding, Storing
      <3>4. LinksMade'
        <4>1. n <= user.lastLink
          BY <3>2 DEF ResetInv, LinksMade
        <4>2. QED BY <2>1, <3>3, <4>1 DEF ResetInv, LinksMade, Links
      <3>5. LinksStoredOnce'
        BY <2>1, <3>2, <3>3 DEF ResetInv, LinksStoredOnce, Links
      <3>6. ASSUME "reset_race" \notin hitches' PROVE \A o \in Requests \ {r} : ~Holding(o, n)
        BY <1>3, <2>1, <2>3, <3>6 DEF ResetFind, NoteIf, Holding, At, n
      <3>7. LinksUsedOnce'
        <4>1. "reset_race" \notin hitches' => uses[n] = 0
          BY <1>0, <2>1, <3>1, <3>2 DEF ResetInv, LinksUsedOnce
        <4>2. QED BY <2>1, <3>3, <3>6, <4>1 DEF ResetInv, LinksUsedOnce, Links
      <3>8. QED BY <3>4, <3>5, <3>7 DEF ResetInv
    <2>4. QED BY <2>2, <2>3
  <1>4. ASSUME NEW r \in Requests, ResetUpdate(r) PROVE ResetInv'
    <2> DEFINE n == req[r].link
    <2>1. /\ req[r].at = "reset_update" /\ n \in Links /\ Holding(r, n)
          /\ hitches \subseteq hitches'
      BY <1>4 DEF ResetUpdate, At, Typed, Formed, NoteIf, Holding
    <2>2. CASE ~user.exists
      BY <1>4, <2>1, <2>2, EndIsCalm, ResetFrame DEF ResetUpdate, Calm
    <2>3. CASE user.exists
      <3>1. /\ user'.resetToken = 0 /\ user'.lastLink = user.lastLink
            /\ SignOut(r, {"revoke", "drop"})
        <4>1. /\ user' = [user EXCEPT !.password = req[r].wanted, !.resetToken = 0,
                                       !.failedLoginCount = 0, !.locked = FALSE]
              /\ SignOut(r, {"revoke", "drop"})
          BY <1>4, <2>3 DEF ResetUpdate
        <4>2. user \in UserRow
          BY <1>0
        <4>3. QED BY <4>1, <4>2 DEF UserRow
      <3>2. uses' = [uses EXCEPT ![n] = @ + 1]
        BY <1>4, <2>3 DEF ResetUpdate
      <3>3. req'[r].at = "after"
        <4>1. req'[r] = [Idle EXCEPT !.at = "after", !.todo = {"revoke", "drop"}]
          BY <3>1 DEF SignOut
        <4>2. QED BY <4>1 DEF Idle
      <3>4. \A o \in Requests : CalmReset(req[o], req'[o])
        BY <2>1, <3>1, SignOutMoves
      <3>5. \A o \in Requests, k \in Links :
               /\ Holding(o, k)' => o # r /\ Holding(o, k)
               /\ Storing(o, k)' => Storing(o, k)
        BY <3>3, <3>4 DEF Holding, Storing, CalmReset
      <3>6. n <= user.lastLink /\ (\A o \in Requests : ~Storing(o, n))
        BY <2>1 DEF ResetInv, LinksMade, LinksStoredOnce
      <3> HIDE DEF n
      <3>7. \A k \in Links : IF k = n THEN uses'[k] = uses[k] + 1 ELSE uses'[k] = uses[k]
        BY <1>0, <3>2
      <3>8. LinksMade'
        <4>1. ASSUME NEW k \in Links, k > user.lastLink PROVE uses'[k] = 0
          <5>1. k # n /\ uses[k] = 0
            BY <1>0, <3>6, <4>1 DEF ResetInv, LinksMade, Links
          <5>2. QED BY <3>7, <5>1
        <4>2. ASSUME NEW o \in Requests, NEW k \in Links, Storing(o, k)' \/ Holding(o, k)'
              PROVE  k <= user.lastLink
          BY <3>5, <4>2 DEF ResetInv, LinksMade
        <4>3. QED BY <1>0, <3>1, <4>1, <4>2 DEF LinksMade, Links
      <3>9. LinksStoredOnce'
        BY <3>1, <3>5, <3>6, <3>7 DEF ResetInv, LinksStoredOnce, Links
      <3>10. LinksUsedOnce'
        <4>1. "reset_race" \notin hitches' =>
                 uses[n] = 0 /\ \A o \in Requests \ {r} : ~Holding(o, n)
          BY <1>0, <2>1 DEF ResetInv, LinksUsedOnce
        <4>2. QED BY <1>0, <2>1, <3>1, <3>5, <3>7, <4>1 DEF ResetInv, LinksUsedOnce, Links
      <3>11. QED BY <3>8, <3>9, <3>10 DEF ResetInv
    <2>4. QED BY <2>2, <2>3
  <1>5. ASSUME NEW r \in Requests, SignIn(r) PROVE ResetInv'
    BY <1>5, SignInMoves, SignInFrame, ResetFrame
  <1>6. ASSUME NEW r \in Requests, Exchange(r) PROVE ResetInv'
    BY <1>6, ExchangeMoves, ExchangeFrame, ResetFrame DEF countHistory
  <1>7. ASSUME NEW r \in Requests, Leave(r) PROVE ResetInv'
    <2>1. CASE ForgotPassword(r) \/ ForgotSet(r) \/ ResetFind(r) \/ ResetUpdate(r)
      BY <1>1, <1>2, <1>3, <1>4, <2>1
    <2>2. CASE ~(ForgotPassword(r) \/ ForgotSet(r) \/ ResetFind(r) \/ ResetUpdate(r))
      <3>1. \A o \in Requests : CalmReset(req[o], req'[o])
        BY <1>7, <2>2, LeaveMoves, SignOutMoves DEF Leaves
      <3>2. QED BY <1>7, <2>2, <3>1, LeaveFrame, ResetFrame
    <2>3. QED BY <2>1, <2>2
  <1>8. ASSUME NEW r \in Requests, Administer(r) PROVE ResetInv'
    <2>1. \A o \in Requests : CalmReset(req[o], req'[o])
      BY <1>8, AdministerFrame, SignOutMoves, SameIsCalm DEF Leaves, Calm
    <2>2. QED BY <1>8, <2>1, AdministerFrame, ResetFrame
  <1>9. ASSUME NEW r \in Requests, Settle(r) PROVE ResetInv'
    <2>1. \A o \in Requests : CalmReset(req[o], req'[o])
      BY <1>9, SettleFrame, SameIsCalm DEF CalmReset, Calm
    <2>2. QED BY <1>9, <2>1, SettleFrame, ResetFrame DEF countHistory
  <1>10. ASSUME Tick \/ LockExpires \/ WindowPasses \/ RedisChanges PROVE ResetInv'
    BY <1>10, ClockFrame, SameIsCalm, ResetFrame DEF Calm
  <1>11. CASE UNCHANGED vars
    BY <1>11, SameIsCalm, ResetFrame DEF vars, Calm
  <1>12. QED
    BY <1>5, <1>6, <1>7, <1>8, <1>9, <1>10, <1>11 DEF Next

(***************************************************************************)
(* A reset link changes the password once, for any number of links and of  *)
(* requests (routes/auth.ts:659-680).                                      *)
(***************************************************************************)
THEOREM ResetLinks == Spec => []ResetLinkWorksOnce
  <1>1. Init => ResetInv
    BY DEF Init, ResetInv, LinksMade, LinksStoredOnce, LinksUsedOnce, Holding, Storing, Idle, Links
  <1>2. Typed /\ ResetInv /\ [Next]_vars => ResetInv'
    BY StepReset, SessionsAssumption
  <1>3. ResetInv => ResetLinkWorksOnce
    BY DEF ResetInv, LinksUsedOnce, ResetLinkWorksOnce
  <1>4. QED
    BY <1>1, <1>2, <1>3, AlwaysTyped, PTL DEF Spec

-----------------------------------------------------------------------------
(***************************************************************************)
(* The CSRF tokens, while Redis stays: all are in Redis or removed; what a *)
(* sign-out is to remove is removed, or still to be gone through.          *)
(***************************************************************************)
ToRemove(k) == \E r \in Requests : "drop" \in req[r].todo \/ k \in req[r].keys

CsrfKept ==
    /\ redisUp
    /\ \A k \in CsrfTokens : csrf[k] # "memory"
    /\ oldCsrf \subseteq Generated
    /\ \A r \in Requests : req[r].keys \subseteq Generated
    /\ Dropping => Generated \subseteq oldCsrf \cup newCsrf
    /\ \A k \in CsrfTokens :
          /\ csrf[k] = "removed" => k \in oldCsrf \cup newCsrf
          /\ csrf[k] = "redis" /\ k \in oldCsrf \ newCsrf => ToRemove(k)

CsrfInv == "redis_trouble" \notin hitches => CsrfKept

LEMMA CsrfFrame ==
    ASSUME Typed, CsrfInv, \A o \in Requests : CalmDrop(req[o], req'[o]),
           UNCHANGED <<redisUp, csrf, csrfHistory>>, hitches \subseteq hitches'
    PROVE  CsrfInv'
  <1>1. \A k \in CsrfTokens : ToRemove(k) => ToRemove(k)'
    BY DEF ToRemove, CalmDrop
  <1>2. Generated' = Generated
    BY DEF Generated, CsrfTokens
  <1>3. Dropping' => Dropping
    BY DEF Dropping, CalmDrop
  <1>4. QED
    BY <1>1, <1>2, <1>3 DEF CsrfInv, CsrfKept, CalmDrop, csrfHistory, CsrfTokens

\* A sign-out that drops leaves every token generated so far to be removed.
LEMMA CsrfSignOut ==
    ASSUME SessionsAssumption, Typed, CsrfInv, NEW r \in Requests,
           NEW todo \in SUBSET {"revoke", "drop"}, Leaves(r, todo),
           UNCHANGED <<redisUp, csrf>>, hitches \subseteq hitches'
    PROVE  CsrfInv'
  <1>1. SignOut(r, todo) /\ req[r].at # "after"
    BY DEF Leaves
  <1>2. CASE "drop" \notin todo
    <2>1. \A o \in Requests : CalmDrop(req[o], req'[o])
      BY <1>1, <1>2, SignOutMoves
    <2>2. csrfHistory' = csrfHistory
      BY <1>1, <1>2 DEF SignOut, csrfHistory
    <2>3. QED BY <2>1, <2>2, CsrfFrame
  <1>3. CASE "drop" \in todo
    <2>1. oldCsrf' = Generated /\ newCsrf' = {}
      BY <1>1, <1>3 DEF SignOut
    <2>2. Generated' = Generated
      BY DEF Generated, CsrfTokens
    <2>3. req'[r] = [Idle EXCEPT !.at = "after", !.todo = todo]
      BY <1>1 DEF SignOut
    <2>4. req'[r].todo = todo /\ req'[r].keys = {}
      BY <2>3 DEF Idle
    <2>5. \A o \in Requests : o # r => req'[o].keys = req[o].keys
      BY <1>1, SignOutMoves DEF CalmDrop
    <2>6. \A k \in CsrfTokens : ToRemove(k)'
      BY <1>3, <2>4 DEF ToRemove
    <2>7. \A k \in CsrfTokens : csrf[k] # "new" => k \in Generated
      BY DEF Generated
    <2>8. CsrfKept => CsrfKept'
      <3>1. CsrfKept => \A o \in Requests : req'[o].keys \subseteq Generated
        BY <2>4, <2>5 DEF CsrfKept
      <3>2. \A k \in CsrfTokens : csrf'[k] = "removed" => k \in oldCsrf' \cup newCsrf'
        BY <2>1, <2>7
      <3>3. QED BY <2>1, <2>2, <2>6, <3>1, <3>2 DEF CsrfKept, CsrfTokens
    <2>9. QED BY <2>8 DEF CsrfInv
  <1>4. QED BY <1>2, <1>3

LEMMA StepCsrf ==
    ASSUME SessionsAssumption, Typed, CsrfInv, [Next]_vars
    PROVE  CsrfInv'
  <1>0. /\ TypeOK /\ csrf \in [CsrfTokens -> {"new", "redis", "memory", "removed"}]
        /\ oldCsrf \subseteq CsrfTokens /\ newCsrf \subseteq CsrfTokens
    BY DEF Typed, TypeOK, StoreTypeOK
  <1>1. ASSUME NEW r \in Requests, CsrfToken(r) PROVE CsrfInv'
    <2>1. /\ redisUp' = redisUp /\ req' = req /\ oldCsrf' = oldCsrf /\ hitches \subseteq hitches'
          /\ newCsrf' = IF Dropping THEN newCsrf \cup {k \in CsrfTokens : csrf[k] # csrf'[k]} ELSE newCsrf
      BY <1>1 DEF CsrfToken, NoteIf
    <2>2. SUFFICES ASSUME "redis_trouble" \notin hitches' PROVE CsrfKept'
      BY DEF CsrfInv
    <2>3. CsrfKept
      BY <2>1, <2>2 DEF CsrfInv
    <2>4. PICK n \in CsrfTokens : csrf[n] = "new" /\ csrf' = [csrf EXCEPT ![n] = "redis"]
      <3>1. PICK s \in Reached("redis_fails" \in world) : SetCsrf(s) /\ NoteIf(s # Current, "redis_trouble")
        BY <1>1 DEF CsrfToken
      <3>2. s = "redis"
        BY <2>2, <2>3, <3>1 DEF NoteIf, Current, CsrfKept
      <3>3. QED BY <3>1, <3>2 DEF SetCsrf
    <2>5. /\ csrf'[n] = "redis" /\ \A k \in CsrfTokens \ {n} : csrf'[k] = csrf[k]
      BY <1>0, <2>4
    <2>6. Generated' = Generated \cup {n} /\ n \notin Generated
      BY <2>4, <2>5 DEF Generated, CsrfTokens
    <2>7. Dropping' = Dropping /\ \A k \in CsrfTokens : ToRemove(k)' = ToRemove(k)
      BY <2>1 DEF Dropping, ToRemove
    <2>8. Dropping => newCsrf' = newCsrf \cup {n}
      BY <2>1, <2>4, <2>5
    <2>9. newCsrf \subseteq newCsrf'
      BY <2>1
    <2>10. n \notin oldCsrf
      BY <2>3, <2>6 DEF CsrfKept
    <2>11. ASSUME NEW k \in CsrfTokens
           PROVE  /\ csrf'[k] # "memory"
                  /\ csrf'[k] = "removed" => k \in oldCsrf' \cup newCsrf'
                  /\ csrf'[k] = "redis" /\ k \in oldCsrf' \ newCsrf' => ToRemove(k)'
      BY <2>1, <2>3, <2>5, <2>7, <2>9, <2>10 DEF CsrfKept
    <2>12. QED
      BY <2>1, <2>3, <2>6, <2>7, <2>8, <2>11 DEF CsrfKept, CsrfTokens
  <1>2. ASSUME NEW r \in Requests, DropCsrf(r), Settle(r) PROVE CsrfInv'
    <2>1. /\ redisUp' = redisUp /\ csrfHistory' = csrfHistory /\ hitches' = hitches
          /\ "drop" \in req[r].todo /\ (redisUp => csrf' = csrf)
          /\ redisUp => Remaining(r, req[r].todo \ {"drop"}, KeysNow)
      BY <1>2 DEF DropCsrf
    <2>2. SUFFICES ASSUME "redis_trouble" \notin hitches' PROVE CsrfKept'
      BY DEF CsrfInv
    <2>3. CsrfKept
      BY <2>1, <2>2 DEF CsrfInv
    <2>4. /\ \A o \in Requests \ {r} : req'[o] = req[o]
          /\ req'[r].todo = req[r].todo \ {"drop"} /\ req'[r].keys = KeysNow
      <3>1. Remaining(r, req[r].todo \ {"drop"}, KeysNow) /\ redisUp
        BY <2>1, <2>3 DEF CsrfKept
      <3>2. /\ \A o \in Requests \ {r} : req'[o] = req[o]
            /\ req'[r].todo = req[r].todo \ {"drop"} /\ req'[r].keys = KeysNow
        BY <2>1, <3>1, RemainingLemma
      <3>3. QED BY <3>2
    <2>5. Generated' = Generated /\ csrf' = csrf /\ redisUp
      BY <2>1, <2>3 DEF Generated, CsrfTokens, CsrfKept
    <2>6. KeysNow = {k \in CsrfTokens : csrf[k] = "redis"} /\ KeysNow \subseteq Generated
      BY <2>5 DEF KeysNow, Found, Current, Generated
    <2>7. Dropping
      BY <2>1 DEF Dropping
    <2>8. \A k \in CsrfTokens : csrf[k] = "redis" => ToRemove(k)'
      BY <2>4, <2>6 DEF ToRemove
    <2>9. \A o \in Requests : req'[o].keys \subseteq Generated
      BY <2>3, <2>4, <2>6 DEF CsrfKept
    <2>10. QED
      BY <2>1, <2>3, <2>5, <2>7, <2>8, <2>9 DEF CsrfKept, csrfHistory, CsrfTokens
  <1>3. ASSUME NEW r \in Requests, DropKey(r), Settle(r) PROVE CsrfInv'
    <2>1. /\ redisUp' = redisUp /\ csrfHistory' = csrfHistory /\ hitches' = hitches
      BY <1>3 DEF DropKey
    <2>2. SUFFICES ASSUME "redis_trouble" \notin hitches' PROVE CsrfKept'
      BY DEF CsrfInv
    <2>3. CsrfKept
      BY <2>1, <2>2 DEF CsrfInv
    <2>4. PICK n \in req[r].keys : RemoveKey(n) /\ Remaining(r, req[r].todo, req[r].keys \ {n})
      BY <1>3 DEF DropKey
    <2>5. /\ \A o \in Requests \ {r} : req'[o] = req[o]
          /\ req'[r].todo = req[r].todo /\ req'[r].keys = req[r].keys \ {n}
      BY <2>4, RemainingLemma
    <2>6. n \in CsrfTokens /\ n \in Generated /\ Dropping
      BY <2>3, <2>4 DEF CsrfKept, Generated, Dropping
    <2>7. /\ csrf'[n] \in {csrf[n], "removed"} /\ csrf'[n] # "redis"
          /\ \A k \in CsrfTokens \ {n} : csrf'[k] = csrf[k]
      BY <1>0, <2>3, <2>4, <2>6 DEF RemoveKey, CsrfKept
    <2>8. Generated' = Generated
      BY <2>6, <2>7 DEF Generated, CsrfTokens
    <2>9. \A k \in CsrfTokens \ {n} : ToRemove(k) => ToRemove(k)'
      BY <2>5 DEF ToRemove
    <2>10. n \in oldCsrf \cup newCsrf
      BY <2>3, <2>6 DEF CsrfKept
    <2>11. Dropping' => Generated \subseteq oldCsrf \cup newCsrf
      BY <2>3, <2>6 DEF CsrfKept
    <2>12. \A o \in Requests : req'[o].keys \subseteq Generated
      BY <2>3, <2>5 DEF CsrfKept
    <2>13. ASSUME NEW k \in CsrfTokens
           PROVE  /\ csrf'[k] # "memory"
                  /\ csrf'[k] = "removed" => k \in oldCsrf \cup newCsrf
                  /\ csrf'[k] = "redis" /\ k \in oldCsrf \ newCsrf => ToRemove(k)'
      BY <2>3, <2>7, <2>9, <2>10 DEF CsrfKept
    <2>14. QED
      BY <2>1, <2>3, <2>8, <2>11, <2>12, <2>13 DEF CsrfKept, csrfHistory, CsrfTokens
  <1>4. ASSUME NEW r \in Requests, RevokeAll(r), Settle(r) PROVE CsrfInv'
    <2>1. /\ UNCHANGED <<redisUp, csrf, csrfHistory>> /\ hitches \subseteq hitches'
          /\ Remaining(r, req[r].todo \ {"revoke"}, req[r].keys)
      BY <1>4, SettleFrame DEF RevokeAll, storeVars
    <2>2. /\ \A o \in Requests \ {r} : req'[o] = req[o]
          /\ req'[r].todo = req[r].todo \ {"revoke"} /\ req'[r].keys = req[r].keys
      BY <1>4, <2>1, RemainingLemma DEF RevokeAll
    <2>3. \A o \in Requests : CalmDrop(req[o], req'[o])
      BY <2>2 DEF CalmDrop
    <2>4. QED BY <2>1, <2>3, CsrfFrame
  <1>5. ASSUME NEW r \in Requests, SignIn(r) PROVE CsrfInv'
    BY <1>5, SignInMoves, SignInFrame, CsrfFrame
  <1>6. ASSUME NEW r \in Requests, Exchange(r) PROVE CsrfInv'
    BY <1>6, ExchangeMoves, ExchangeFrame, CsrfFrame DEF storeVars
  <1>7. ASSUME NEW r \in Requests, Leave(r) PROVE CsrfInv'
    <2>1. CASE CsrfToken(r)
      BY <1>1, <2>1
    <2>2. CASE ~CsrfToken(r)
      BY <1>7, <2>2, LeaveMoves, LeaveFrame, CsrfFrame, CsrfSignOut
    <2>3. QED BY <2>1, <2>2
  <1>8. ASSUME NEW r \in Requests, Administer(r) PROVE CsrfInv'
    <2>1. CASE Leaves(r, {"revoke", "drop"})
      BY <1>8, <2>1, AdministerFrame, CsrfSignOut DEF storeVars
    <2>2. CASE UNCHANGED <<req, csrfHistory>>
      BY <1>8, <2>2, AdministerFrame, SameIsCalm, CsrfFrame DEF storeVars, Calm
    <2>3. QED BY <1>8, <2>1, <2>2, AdministerFrame
  <1>9. ASSUME NEW r \in Requests, Settle(r) PROVE CsrfInv'
    BY <1>2, <1>3, <1>4, <1>9 DEF Settle
  <1>10. ASSUME Tick \/ LockExpires \/ WindowPasses \/ RedisChanges PROVE CsrfInv'
    <2>1. CASE RedisChanges
      BY <2>1 DEF RedisChanges, Note, CsrfInv
    <2>2. CASE ~RedisChanges
      BY <1>10, <2>2, ClockFrame, SameIsCalm, CsrfFrame DEF Calm
    <2>3. QED BY <2>1, <2>2
  <1>11. CASE UNCHANGED vars
    BY <1>11, SameIsCalm, CsrfFrame DEF vars, csrfHistory, Calm
  <1>12. QED
    BY <1>5, <1>6, <1>7, <1>8, <1>9, <1>10, <1>11 DEF Next

(***************************************************************************)
(* While Redis stays, the CSRF tokens found are those generated since the  *)
(* last sign-out that removes them (tokenStore.ts:280-359).                *)
(***************************************************************************)
THEOREM CsrfTokensFollow == Spec => []CsrfFollowsSignOut
  <1>1. Init => CsrfInv
    BY DEF Init, StoreInit, CsrfInv, CsrfKept, Dropping, Idle, Generated, CsrfTokens
  <1>2. Typed /\ CsrfInv /\ [Next]_vars => CsrfInv'
    BY StepCsrf, SessionsAssumption
  <1>3. Typed /\ CsrfInv => CsrfFollowsSignOut
    <2>1. SUFFICES ASSUME Typed, CsrfInv, "redis_trouble" \notin hitches, ~Dropping,
                          NEW k \in Generated \ newCsrf
                   PROVE  Found(k) <=> k \notin oldCsrf
      BY DEF CsrfFollowsSignOut
    <2>2. CsrfKept
      BY <2>1 DEF CsrfInv
    <2>3. k \in CsrfTokens /\ csrf[k] \in {"redis", "removed"}
      BY <2>1, <2>2 DEF Generated, CsrfKept, Typed, TypeOK, StoreTypeOK
    <2>4. ~ToRemove(k)
      BY <2>1 DEF Dropping, ToRemove
    <2>5. Found(k) <=> csrf[k] = "redis"
      BY <2>2 DEF Found, Current, CsrfKept
    <2>6. QED BY <2>1, <2>2, <2>3, <2>4, <2>5 DEF CsrfKept
  <1>4. QED
    BY <1>1, <1>2, <1>3, AlwaysTyped, PTL DEF Spec

-----------------------------------------------------------------------------
(***************************************************************************)
(* Tokens.  A request holds token t from the verification on to the row of *)
(* the next one.  What the account knows of a token is that a request was  *)
(* sent it, or that it has taken the place of one or given way to one, or  *)
(* that a sign-out was to end it.                                          *)
(***************************************************************************)
Holds(r, t) == req[r].old = t /\ req[r].at \in {"find_user", "revoke_one", "store"}
StoringFor(r, t) == req[r].old = t /\ req[r].at = "store"
Known(t) ==
    \/ \E r \in Requests : req[r].old = t
    \/ \E u \in Tokens : parent[u] = t
    \/ t \in stale
    \/ parent[t] # 0

\* The account is there, or yet to be registered.
Living == user.exists \/ "delete" \notin world

\* A token that is known has a row, as long as the account has.
TokensKept ==
    /\ ~user.exists => \A t \in Tokens : tokens[t] = "none"
    /\ Living => \A t \in Tokens : Known(t) => tokens[t] # "none"

\* Two that hold or have taken the place of one token had verified it together.
TokensSpent ==
    \A t \in Tokens :
        /\ \A r \in Requests : StoringFor(r, t) => tokens[t] # "valid"
        /\ \A u \in Tokens : parent[u] = t => tokens[t] # "valid"
        /\ \A r, o \in Requests : r # o /\ Holds(r, t) /\ Holds(o, t) => t \in shared
        /\ \A r \in Requests, u \in Tokens : Holds(r, t) /\ parent[u] = t => t \in shared
        /\ \A u, v \in Tokens : u # v /\ parent[u] = t /\ parent[v] = t => t \in shared

\* A token a sign-out was to end is good no longer than the revocation takes.
TokensEnded ==
    \A t \in stale \ raced :
        /\ tokens[t] = "valid" => Pending
        /\ \A r \in Requests : Holds(r, t) => req[r].crossed

\* A token is revoked for a reason, and a revocation finds only those it was for.
Accounted(t) ==
    \/ t \in stale \cup raced
    \/ \E u \in Tokens : parent[u] = t
    \/ \E r \in Requests : StoringFor(r, t)
TokensAccounted ==
    /\ \A t \in Tokens : tokens[t] = "revoked" => Accounted(t)
    /\ Pending => \A t \in Tokens : tokens[t] = "valid" => t \in stale \cup raced

TokenInv ==
    /\ TokensKept
    /\ "db_failure" \notin hitches => TokensSpent /\ TokensEnded
    /\ hitches \cap {"db_failure", "same_second"} = {} => TokensAccounted

\* What most steps do to the tokens: nothing.
LEMMA TokenFrame ==
    ASSUME Typed, TokenInv, \A o \in Requests : CalmExchange(req[o], req'[o]),
           UNCHANGED <<tokens, tokenHistory>>, hitches \subseteq hitches',
           user.exists => user'.exists, Living' => Living
    PROVE  TokenInv'
  <1> USE DEF tokenHistory
  <1>1. \A o \in Requests, t \in Tokens :
            /\ Holds(o, t)' => Holds(o, t) /\ req'[o].crossed = req[o].crossed
            /\ StoringFor(o, t)' => StoringFor(o, t)
            /\ StoringFor(o, t) => StoringFor(o, t)'
            /\ req'[o].old = t => req[o].old = t
    BY DEF CalmExchange, Holds, StoringFor, Tokens
  <1>2. Pending' <=> Pending
    BY DEF Pending, CalmExchange
  <1>3. \A t \in Tokens : Known(t)' => Known(t)
    BY <1>1 DEF Known
  <1>4. TokensKept'
    BY <1>3 DEF TokenInv, TokensKept, Tokens
  <1>5. TokensSpent => TokensSpent'
    BY <1>1 DEF TokensSpent, Tokens
  <1>6. TokensEnded => TokensEnded'
    BY <1>1, <1>2 DEF TokensEnded, Typed, TypeOK
  <1>7. TokensAccounted => TokensAccounted'
    <2>1. \A t \in Tokens : Accounted(t) => Accounted(t)'
      BY <1>1 DEF Accounted, Tokens
    <2>2. QED BY <1>2, <2>1 DEF TokensAccounted, Tokens
  <1>8. QED BY <1>4, <1>5, <1>6, <1>7 DEF TokenInv

\* A sign-out: every token with a row is to end, and nothing is half done before it.
LEMMA TokenSignOut ==
    ASSUME SessionsAssumption, Typed, TokenInv, NEW r \in Requests,
           NEW todo \in SUBSET {"revoke", "drop"}, Leaves(r, todo),
           hitches \subseteq hitches', world' = world,
           \/ tokens' = tokens /\ user'.exists = user.exists
           \/ /\ ~user'.exists /\ "delete" \in world
              /\ tokens' = [t \in Tokens |-> "none"]
    PROVE  TokenInv'
  <1>1. /\ SignOut(r, todo) /\ "revoke" \in todo /\ req[r].at # "after"
        /\ parent' = parent /\ shared' = shared /\ stale' = Issued /\ raced' = {}
    BY DEF Leaves, SignOut
  <1>2. /\ req'[r].old = 0 /\ req'[r].at = "after" /\ "revoke" \in req'[r].todo
        /\ \A o \in Requests \ {r} :
              /\ req'[o].at = req[o].at /\ req'[o].old = req[o].old
              /\ req'[o].crossed \/ req[o].at \in {"idle", "after"}
    <2>1. req'[r] = [Idle EXCEPT !.at = "after", !.todo = todo]
      BY <1>1, SignOutMoves
    <2>2. req'[r].old = 0 /\ req'[r].at = "after" /\ req'[r].todo = todo
      BY <2>1 DEF Idle
    <2>3. ASSUME NEW o \in Requests, o # r
          PROVE  /\ req'[o].at = req[o].at /\ req'[o].old = req[o].old
                 /\ req'[o].crossed \/ req[o].at \in {"idle", "after"}
      BY <1>1, <2>3, SignOutMoves
    <2>4. QED BY <1>1, <2>2, <2>3
  <1>3. \A o \in Requests, t \in Tokens :
            /\ Holds(o, t)' => Holds(o, t) /\ req'[o].crossed
            /\ StoringFor(o, t)' => StoringFor(o, t)
            /\ req'[o].old = t => req[o].old = t
    BY <1>2 DEF Holds, StoringFor, Tokens
  <1>4. Pending'
    BY <1>2 DEF Pending
  <1>5. \A t \in Tokens : tokens[t] = "none" => tokens'[t] = "none"
    OBVIOUS
  <1>6. \A t \in Tokens : tokens'[t] # "none" => t \in stale' \cup raced'
    BY <1>1, <1>5 DEF Issued
  <1>7. TokensKept'
    <2>1. CASE tokens' = tokens /\ user'.exists = user.exists
      <3>1. \A t \in Tokens : t \in stale' => tokens'[t] # "none"
        BY <1>1, <2>1 DEF Issued
      <3>2. Living' = Living
        BY <2>1 DEF Living
      <3>3. QED BY <1>1, <1>3, <2>1, <3>1, <3>2 DEF TokenInv, TokensKept, Known, Tokens
    <2>2. CASE ~user'.exists /\ "delete" \in world /\ tokens' = [t \in Tokens |-> "none"]
      BY <2>2 DEF TokensKept, Living, Tokens
    <2>3. QED BY <2>1, <2>2
  <1>8. TokensSpent => TokensSpent'
    <2>1. \A t \in Tokens : tokens'[t] = "valid" => tokens[t] = "valid"
      OBVIOUS
    <2>2. QED BY <1>1, <1>3, <2>1 DEF TokensSpent, Tokens
  <1>9. TokensEnded'
    BY <1>3, <1>4, <1>1 DEF TokensEnded, Issued, Tokens
  <1>10. TokensAccounted'
    BY <1>6 DEF TokensAccounted, Accounted, Tokens
  <1>11. QED BY <1>7, <1>8, <1>9, <1>10 DEF TokenInv

\* A refresh comes with a token that has a row.
LEMMA TokenRefresh ==
    ASSUME SessionsAssumption, Typed, TokenInv, NEW r \in Requests, NEW t \in Tokens, Refresh(r, t)
    PROVE  TokenInv'
  <1> DEFINE q == [Idle EXCEPT !.at = "verify", !.old = t]
  <1>1. q.at = "verify" /\ q.old = t /\ q.todo = {}
    BY DEF Idle
  <1>2. Becomes(r, q) /\ req[r].at = "idle" /\ req[r].todo = {} /\ tokens[t] # "none"
    BY DEF Refresh, Free, At, Issued, Typed, Formed
  <1>3. UNCHANGED <<world, user, tokens, parent, stale, raced, shared, hitches>>
    BY DEF Refresh, rowVars, tokenHistory
  <1> HIDE DEF q
  <1>4. req'[r] = q /\ \A o \in Requests : o # r => req'[o] = req[o]
    BY <1>2, BecomesLemma
  <1>5. \A o \in Requests, s \in Tokens :
            /\ Holds(o, s)' => Holds(o, s) /\ req'[o] = req[o]
            /\ StoringFor(o, s)' <=> StoringFor(o, s)
            /\ req'[o].old = s => req[o].old = s \/ s = t
    BY <1>1, <1>2, <1>4 DEF Holds, StoringFor
  <1>6. Pending' <=> Pending
    BY <1>1, <1>2, <1>4 DEF Pending
  <1>7. TokensKept'
    BY <1>2, <1>3, <1>5 DEF TokenInv, TokensKept, Living, Known, Tokens
  <1>8. TokensSpent => TokensSpent'
    BY <1>3, <1>5 DEF TokensSpent, Tokens
  <1>9. TokensEnded => TokensEnded'
    BY <1>3, <1>5, <1>6 DEF TokensEnded, Typed, TypeOK
  <1>10. TokensAccounted => TokensAccounted'
    BY <1>3, <1>5, <1>6 DEF TokensAccounted, Accounted, Tokens
  <1>11. QED BY <1>3, <1>7, <1>8, <1>9, <1>10 DEF TokenInv

\* A verification finds the token good, so nobody has exchanged it yet.
LEMMA TokenVerify ==
    ASSUME SessionsAssumption, Typed, TokenInv, NEW r \in Requests, Verify(r)
    PROVE  TokenInv'
  <1> USE DEF tokenHistory
  <1>0. /\ req[r] \in Request /\ req[r].at = "verify" /\ req[r].old \in Tokens
        /\ req[r].todo = {} /\ shared \subseteq Tokens /\ Pending \in BOOLEAN
    BY DEF Verify, At, Typed, TypeOK, Formed, Pending
  <1> DEFINE t == req[r].old
             q == [req[r] EXCEPT !.at = "find_user", !.crossed = Pending]
  <1>1. UNCHANGED <<world, user, tokens, parent, stale, raced, hitches>>
    BY DEF Verify, rowVars
  <1>2. CASE End(r) /\ shared' = shared
    <2>1. \A o \in Requests : CalmExchange(req[o], req'[o])
      BY <1>0, <1>2, EndIsCalm DEF Calm
    <2>2. QED BY <1>1, <1>2, <2>1, TokenFrame DEF Living
  <1>3. CASE tokens[t] = "valid" /\ Becomes(r, q)
    <2>1. q.at = "find_user" /\ q.old = t /\ q.todo = {} /\ q.crossed = Pending
      BY <1>0 DEF Request
    <2>2. \/ shared' = shared \cup {t}
          \/ /\ shared' = shared
             /\ ~ \E o \in Requests \ {r} : req[o].old = t /\ req[o].at \in {"find_user", "revoke_one"}
      BY <1>3 DEF Verify
    <2> HIDE DEF q
    <2>3. req'[r] = q /\ \A o \in Requests : o # r => req'[o] = req[o]
      BY <1>3, BecomesLemma
    <2> HIDE DEF t
    <2>4. /\ \A o \in Requests, s \in Tokens :
                /\ StoringFor(o, s)' <=> StoringFor(o, s)
                /\ req'[o].old = s <=> req[o].old = s
                /\ Holds(o, s)' <=> Holds(o, s) \/ (o = r /\ s = t)
                /\ o # r => req'[o] = req[o]
          /\ \A s \in Tokens : ~Holds(r, s)
      BY <1>0, <2>1, <2>3 DEF Holds, StoringFor, t
    <2>5. Pending' <=> Pending
      BY <1>0, <2>1, <2>3 DEF Pending
    <2>6. TokensKept'
      BY <1>1, <2>4 DEF TokenInv, TokensKept, Living, Known, Tokens
    <2>7. ASSUME TokensSpent PROVE TokensSpent'
      <3>1. \A o \in Requests : o # r /\ Holds(o, t) => t \in shared'
        <4>1. SUFFICES ASSUME NEW o \in Requests, o # r, Holds(o, t) PROVE t \in shared'
          OBVIOUS
        <4>2. ~StoringFor(o, t) /\ t \in Tokens
          BY <1>0, <1>3, <2>7 DEF TokensSpent, t
        <4>3. QED BY <2>2, <4>1, <4>2 DEF Holds, StoringFor
      <3>2. \A u \in Tokens : parent[u] # t
        BY <1>0, <1>3, <2>7 DEF TokensSpent, t
      <3>3. shared \subseteq shared'
        BY <2>2
      <3>4. QED BY <1>1, <2>4, <2>7, <3>1, <3>2, <3>3 DEF TokensSpent, Tokens
    <2>8. ASSUME TokensEnded PROVE TokensEnded'
      <3>1. t \in stale \ raced => req'[r].crossed
        BY <1>0, <1>3, <2>1, <2>3, <2>8 DEF TokensEnded, t
      <3>2. QED BY <1>1, <2>4, <2>5, <2>8, <3>1 DEF TokensEnded, Typed, TypeOK
    <2>9. TokensAccounted => TokensAccounted'
      BY <1>1, <2>4, <2>5 DEF TokensAccounted, Accounted, Tokens
    <2>10. QED BY <1>1, <2>6, <2>7, <2>8, <2>9 DEF TokenInv
  <1>4. QED BY <1>2, <1>3 DEF Verify, Decided

\* The token is revoked, and its successor signed, before any other await.
LEMMA TokenRevokeOne ==
    ASSUME SessionsAssumption, Typed, TokenInv, NEW r \in Requests, RevokeOne(r)
    PROVE  TokenInv'
  <1>0. /\ req[r] \in Request /\ req[r].at = "revoke_one" /\ req[r].old \in Tokens
        /\ req[r].todo = {} /\ tokens \in [Tokens -> {"none", "valid", "revoked"}]
    BY DEF RevokeOne, At, Typed, TypeOK, Formed
  <1> DEFINE t == req[r].old
             q == [req[r] EXCEPT !.at = "store", !.signed = now]
  <1>1. UNCHANGED <<world, user, parent, stale, raced, shared>> /\ hitches \subseteq hitches'
    BY DEF RevokeOne, tokenHistory, Note
  <1>2. \/ "db_failure" \in hitches' /\ tokens' = tokens
        \/ /\ hitches' = hitches
           /\ tokens' = IF tokens[t] # "none" THEN [tokens EXCEPT ![t] = "revoked"] ELSE tokens
    BY DEF RevokeOne, Note
  <1>3. q.at = "store" /\ q.old = t /\ q.todo = {} /\ q.crossed = req[r].crossed
    BY <1>0 DEF Request
  <1> HIDE DEF q
  <1>4. req'[r] = q /\ \A o \in Requests : o # r => req'[o] = req[o]
    <2>1. Becomes(r, q)
      BY DEF RevokeOne, Sign, q
    <2>2. QED BY <2>1, BecomesLemma
  <1> HIDE DEF t
  <1>5. \A o \in Requests, s \in Tokens :
            /\ StoringFor(o, s)' <=> StoringFor(o, s) \/ (o = r /\ s = t)
            /\ req'[o].old = s <=> req[o].old = s
            /\ Holds(o, s)' <=> Holds(o, s)
            /\ req'[o].crossed = req[o].crossed
    BY <1>0, <1>3, <1>4 DEF Holds, StoringFor, t
  <1>6. Pending' <=> Pending
    BY <1>0, <1>3, <1>4 DEF Pending
  <1>7. \A s \in Tokens : /\ tokens'[s] = "none" <=> tokens[s] = "none"
                          /\ tokens'[s] = "valid" => tokens[s] = "valid"
                          /\ tokens'[s] # tokens[s] => s = t
    BY <1>0, <1>2
  <1>8. TokensKept'
    BY <1>1, <1>5, <1>7 DEF TokenInv, TokensKept, Living, Known, Tokens
  <1>9. ASSUME "db_failure" \notin hitches' PROVE tokens'[t] # "valid"
    BY <1>0, <1>2, <1>9 DEF t
  <1>10. ASSUME "db_failure" \notin hitches', TokensSpent PROVE TokensSpent'
    BY <1>1, <1>5, <1>7, <1>9, <1>10 DEF TokensSpent, Tokens
  <1>11. TokensEnded => TokensEnded'
    BY <1>1, <1>5, <1>6, <1>7 DEF TokensEnded, Typed, TypeOK
  <1>12. TokensAccounted => TokensAccounted'
    <2>1. \A s \in Tokens : s = t => Accounted(s)'
      BY <1>0, <1>5 DEF Accounted
    <2>2. \A s \in Tokens : Accounted(s) => Accounted(s)'
      BY <1>1, <1>5 DEF Accounted, Tokens
    <2>3. ASSUME TokensAccounted, NEW s \in Tokens, tokens'[s] = "revoked" PROVE Accounted(s)'
      BY <1>7, <2>1, <2>2, <2>3 DEF TokensAccounted
    <2>4. ASSUME TokensAccounted, Pending', NEW s \in Tokens, tokens'[s] = "valid"
          PROVE  s \in (stale \cup raced)'
      BY <1>1, <1>6, <1>7, <2>4 DEF TokensAccounted
    <2>5. QED BY <2>3, <2>4 DEF TokensAccounted, Tokens
  <1>13. QED BY <1>1, <1>8, <1>10, <1>11, <1>12 DEF TokenInv

\* revokeAllUserTokens leaves no token good.
LEMMA TokenRevokeAll ==
    ASSUME SessionsAssumption, Typed, TokenInv, NEW r \in Requests, RevokeAll(r)
    PROVE  TokenInv'
  <1>0. /\ req[r].at = "after" /\ tokens \in [Tokens -> {"none", "valid", "revoked"}]
        /\ "revoke" \in req[r].todo
    BY DEF RevokeAll, Typed, TypeOK, Formed
  <1>1. UNCHANGED <<world, user, parent, stale, raced, shared>> /\ hitches \subseteq hitches'
    BY DEF RevokeAll, tokenHistory, Note
  <1>2. \/ "db_failure" \in hitches' /\ tokens' = tokens
        \/ /\ hitches' = hitches
           /\ tokens' = [s \in Tokens |-> IF tokens[s] = "valid" THEN "revoked" ELSE tokens[s]]
    BY DEF RevokeAll, Note
  <1>3. /\ \A o \in Requests : o # r => req'[o] = req[o]
        /\ req'[r].old = 0 /\ req'[r].at \in {"after", "idle"}
    BY <1>0, RemainingLemma DEF RevokeAll
  <1>4. \A o \in Requests, s \in Tokens :
            /\ Holds(o, s)' => Holds(o, s) /\ req'[o] = req[o]
            /\ StoringFor(o, s)' <=> StoringFor(o, s)
            /\ req'[o].old = s => req[o].old = s
    BY <1>0, <1>3 DEF Holds, StoringFor, Tokens
  <1>5. Pending
    BY <1>0 DEF Pending
  <1>6. \A s \in Tokens : /\ tokens'[s] = "none" <=> tokens[s] = "none"
                          /\ tokens'[s] = "valid" => tokens[s] = "valid"
    BY <1>0, <1>2
  <1>7. TokensKept'
    BY <1>1, <1>4, <1>6 DEF TokenInv, TokensKept, Living, Known, Tokens
  <1>8. TokensSpent => TokensSpent'
    BY <1>1, <1>4, <1>6 DEF TokensSpent, Tokens
  <1>9. ASSUME "db_failure" \notin hitches' PROVE \A s \in Tokens : tokens'[s] # "valid"
    BY <1>0, <1>2, <1>9
  <1>10. ASSUME "db_failure" \notin hitches', TokensEnded PROVE TokensEnded'
    BY <1>1, <1>4, <1>9, <1>10 DEF TokensEnded, Typed, TypeOK
  <1>11. ASSUME "db_failure" \notin hitches', TokensAccounted PROVE TokensAccounted'
    <2>1. \A s \in Tokens : tokens'[s] = "revoked" => tokens[s] \in {"revoked", "valid"}
      BY <1>0, <1>2
    <2>2. \A s \in Tokens : Accounted(s) => Accounted(s)'
      BY <1>1, <1>4 DEF Accounted, Tokens
    <2>3. \A s \in Tokens : tokens[s] = "valid" => Accounted(s)
      BY <1>5, <1>11 DEF TokensAccounted, Accounted
    <2>4. QED BY <1>9, <1>11, <2>1, <2>2, <2>3 DEF TokensAccounted, Tokens
  <1>12. QED BY <1>1, <1>7, <1>8, <1>10, <1>11 DEF TokenInv

\* The row of the signed token.  Nobody knows the token before it is stored.
LEMMA TokenStored ==
    ASSUME SessionsAssumption, Typed, TokenInv, NEW r \in Requests, StoreToken(r)
    PROVE  TokenInv'
  <1> DEFINE t == req[r].signed
             old == req[r].old
  <1>0. /\ req[r] \in Request /\ req[r].at = "store" /\ t \in Tokens /\ req[r].todo = {}
        /\ tokens \in [Tokens -> {"none", "valid", "revoked"}]
        /\ parent \in [Tokens -> Tokens \cup {0}]
        /\ stale \subseteq Tokens /\ raced \subseteq Tokens
    BY DEF StoreToken, At, Typed, TypeOK, Formed
  <1>1. /\ UNCHANGED <<world, user, shared>> /\ hitches \subseteq hitches' /\ Living' = Living
    BY DEF StoreToken, Note, NoteIf, Living
  <1>2. /\ req'[r] = Idle /\ Idle.old = 0 /\ Idle.at = "idle" /\ Idle.todo = {}
        /\ \A o \in Requests : o # r => req'[o] = req[o]
    BY BecomesLemma DEF StoreToken, End, Idle
  <1>3. \A o \in Requests, s \in Tokens :
            /\ Holds(o, s)' => Holds(o, s) /\ o # r /\ req'[o] = req[o]
            /\ StoringFor(o, s)' => StoringFor(o, s)
            /\ StoringFor(o, s) /\ o # r => StoringFor(o, s)'
            /\ req'[o].old = s => req[o].old = s
    BY <1>2 DEF Holds, StoringFor, Tokens
  <1>4. Pending' <=> Pending
    BY <1>0, <1>2 DEF Pending
  <1>5. old \in Tokens => StoringFor(r, old) /\ Holds(r, old)
    BY <1>0 DEF StoringFor, Holds
  <1>6. CASE UNCHANGED <<tokens, parent, raced, stale>>
    <2>1. TokensKept'
      BY <1>1, <1>3, <1>6 DEF TokenInv, TokensKept, Known, Tokens
    <2>2. TokensSpent => TokensSpent'
      BY <1>1, <1>3, <1>6 DEF TokensSpent, Tokens
    <2>3. TokensEnded => TokensEnded'
      BY <1>3, <1>4, <1>6 DEF TokensEnded, Typed, TypeOK
    <2>4. ASSUME hitches' \cap {"db_failure", "same_second"} = {} PROVE \A s \in Tokens : tokens[s] = "none"
      <3>1. ~user.exists
        <4>1. CASE "db_failure" \in hitches'
          BY <2>4, <4>1
        <4>2. CASE tokens[t] = "none" /\ user.exists /\ tokens' = [tokens EXCEPT ![t] = "valid"]
          BY <1>0, <1>6, <4>2
        <4>3. CASE NoteIf(user.exists, "same_second")
          BY <2>4, <4>3 DEF NoteIf
        <4>4. QED BY <4>1, <4>2, <4>3 DEF StoreToken, Note
      <3>2. QED BY <3>1 DEF TokenInv, TokensKept
    <2>5. ASSUME hitches' \cap {"db_failure", "same_second"} = {} PROVE TokensAccounted'
      BY <1>6, <2>4, <2>5 DEF TokensAccounted, Tokens
    <2>6. QED BY <1>1, <2>1, <2>2, <2>3, <2>5 DEF TokenInv
  <1>7. CASE /\ tokens[t] = "none" /\ user.exists /\ hitches' = hitches
             /\ tokens' = [tokens EXCEPT ![t] = "valid"]
             /\ parent' = [parent EXCEPT ![t] = old]
             /\ raced' = IF req[r].crossed \/ Pending \/ old \in raced
                         THEN raced \cup {t} ELSE raced
             /\ stale' = IF old \in stale THEN stale \cup {t} ELSE stale
    <2>1. ~Known(t) /\ Living
      BY <1>0, <1>7 DEF TokenInv, TokensKept, Living
    <2>2. /\ parent[t] = 0 /\ t \notin stale /\ old # t
          /\ \A o \in Requests : ~Holds(o, t) /\ ~StoringFor(o, t) /\ req[o].old # t
          /\ \A u \in Tokens : parent[u] # t
      BY <2>1 DEF Known, Holds, StoringFor
    <2>3. /\ tokens'[t] = "valid" /\ \A s \in Tokens : s # t => tokens'[s] = tokens[s]
          /\ parent'[t] = old /\ \A s \in Tokens : s # t => parent'[s] = parent[s]
          /\ raced \subseteq raced' /\ raced' \subseteq raced \cup {t}
          /\ stale \subseteq stale' /\ stale' \subseteq stale \cup {t}
          /\ t \in stale' => old \in stale
      BY <1>0, <1>7, <2>2
    <2> HIDE DEF t, old
    <2>4. TokensKept'
      <3>1. old \in Tokens => tokens[old] # "none"
        BY <2>1, <1>5 DEF TokenInv, TokensKept, Known, StoringFor
      <3>2. ASSUME NEW s \in Tokens, Known(s)' PROVE s = t \/ s = old \/ Known(s)
        BY <1>0, <1>3, <2>3, <3>2 DEF Known
      <3>3. ASSUME NEW s \in Tokens, Known(s)' PROVE tokens'[s] # "none"
        <4>1. tokens[s] # "none" => tokens'[s] # "none"
          BY <2>3
        <4>2. QED BY <2>1, <2>3, <3>1, <3>2, <3>3, <4>1 DEF TokenInv, TokensKept
      <3>4. QED BY <1>1, <1>7, <3>3 DEF TokensKept, Tokens
    <2>5. ASSUME TokensSpent PROVE TokensSpent'
      <3>1. ASSUME NEW s \in Tokens, NEW o \in Requests, StoringFor(o, s)' PROVE tokens'[s] # "valid"
        <4>1. StoringFor(o, s) /\ s # t
          BY <1>3, <2>2, <3>1
        <4>2. QED BY <2>3, <2>5, <4>1 DEF TokensSpent
      <3>2. ASSUME NEW s \in Tokens, NEW u \in Tokens, parent'[u] = s PROVE tokens'[s] # "valid" /\ s # t
        <4>1. CASE u = t
          BY <1>5, <2>2, <2>3, <2>5, <3>2, <4>1 DEF TokensSpent
        <4>2. CASE u # t
          BY <2>2, <2>3, <2>5, <3>2, <4>2 DEF TokensSpent
        <4>3. QED BY <4>1, <4>2
      <3>3. ASSUME NEW s \in Tokens, NEW p \in Requests, NEW o \in Requests,
                   p # o, Holds(p, s)', Holds(o, s)'
            PROVE  s \in shared'
        BY <1>1, <1>3, <2>5, <3>3 DEF TokensSpent
      <3>4. ASSUME NEW s \in Tokens, NEW p \in Requests, NEW u \in Tokens,
                   Holds(p, s)', parent'[u] = s
            PROVE  s \in shared'
        <4>1. Holds(p, s) /\ p # r
          BY <1>3, <3>4
        <4>2. CASE u = t
          BY <1>1, <1>5, <2>3, <2>5, <3>4, <4>1, <4>2 DEF TokensSpent
        <4>3. CASE u # t
          BY <1>1, <2>3, <2>5, <3>4, <4>1, <4>3 DEF TokensSpent
        <4>4. QED BY <4>2, <4>3
      <3>5. ASSUME NEW s \in Tokens, NEW u \in Tokens, NEW v \in Tokens, u # v,
                   parent'[u] = s, parent'[v] = s
            PROVE  s \in shared'
        <4>1. ASSUME NEW w \in Tokens, w # t, parent'[w] = s, parent'[t] = s PROVE s \in shared'
          BY <1>1, <1>5, <2>3, <2>5, <4>1 DEF TokensSpent
        <4>2. CASE u # t /\ v # t
          BY <1>1, <2>3, <2>5, <3>5, <4>2 DEF TokensSpent
        <4>3. QED BY <3>5, <4>1, <4>2
      <3>6. QED BY <3>1, <3>2, <3>3, <3>4, <3>5 DEF TokensSpent, Tokens
    <2>6. ASSUME TokensEnded PROVE TokensEnded'
      <3>1. t \in stale' /\ t \notin raced' => Pending'
        <4>1. SUFFICES ASSUME t \in stale', t \notin raced' PROVE FALSE
          OBVIOUS
        <4>2. old \in stale /\ old \in Tokens /\ Holds(r, old)
          BY <1>0, <1>5, <2>3, <4>1
        <4>3. ~req[r].crossed /\ old \notin raced
          BY <1>7, <4>1
        <4>4. QED BY <2>6, <4>2, <4>3 DEF TokensEnded
      <3>2. ASSUME NEW s \in stale' \ raced' PROVE tokens'[s] = "valid" => Pending'
        <4>1. CASE s = t
          BY <3>1, <3>2, <4>1
        <4>2. CASE s # t
          <5>1. s \in stale \ raced /\ s \in Tokens
            BY <1>0, <2>3, <3>2, <4>2
          <5>2. QED BY <1>4, <2>3, <2>6, <4>2, <5>1 DEF TokensEnded
        <4>3. QED BY <4>1, <4>2
      <3>3. ASSUME NEW s \in stale' \ raced', NEW o \in Requests, Holds(o, s)' PROVE req'[o].crossed
        <4>1. s \in Tokens
          BY <1>0, <2>3
        <4>2. Holds(o, s) /\ req'[o] = req[o] /\ s # t
          BY <1>3, <2>2, <3>3, <4>1
        <4>3. s \in stale \ raced
          BY <2>3, <4>2
        <4>4. QED BY <2>6, <4>2, <4>3 DEF TokensEnded
      <3>4. QED BY <3>2, <3>3 DEF TokensEnded
    <2>7. ASSUME TokensAccounted PROVE TokensAccounted'
      <3>1. ASSUME NEW s \in Tokens, tokens'[s] = "revoked" PROVE Accounted(s)'
        <4>1. s # t /\ Accounted(s)
          BY <2>3, <2>7, <3>1 DEF TokensAccounted
        <4>2. CASE s \in stale \cup raced
          BY <2>3, <4>2 DEF Accounted
        <4>3. CASE \E u \in Tokens : parent[u] = s
          <5>1. PICK u \in Tokens : parent[u] = s
            BY <4>3
          <5>2. u # t
            BY <2>2, <5>1 DEF Tokens
          <5>3. QED BY <2>3, <5>1, <5>2 DEF Accounted, Tokens
        <4>4. CASE \E o \in Requests : StoringFor(o, s)
          <5>1. PICK o \in Requests : StoringFor(o, s)
            BY <4>4
          <5>2. CASE o = r
            BY <1>0, <2>3, <5>1, <5>2 DEF Accounted, StoringFor, old, Tokens
          <5>3. CASE o # r
            BY <1>3, <5>1, <5>3 DEF Accounted
          <5>4. QED BY <5>2, <5>3
        <4>5. QED BY <4>1, <4>2, <4>3, <4>4 DEF Accounted
      <3>2. ASSUME Pending', NEW s \in Tokens, tokens'[s] = "valid" PROVE s \in (stale \cup raced)'
        <4>1. CASE s = t
          BY <1>4, <1>7, <3>2, <4>1
        <4>2. CASE s # t
          BY <1>4, <2>3, <2>7, <3>2, <4>2 DEF TokensAccounted
        <4>3. QED BY <4>1, <4>2
      <3>3. QED BY <3>1, <3>2 DEF TokensAccounted, Tokens
    <2>8. QED BY <1>7, <2>4, <2>5, <2>6, <2>7 DEF TokenInv
  <1>8. QED BY <1>6, <1>7 DEF StoreToken

\* Of the tokens, what the steps of Leave that sign nobody out and the others do.
LEMMA LeaveTokens ==
    ASSUME Typed, NEW r \in Requests, Leave(r)
    PROVE  \/ tokens' = tokens /\ user'.exists = user.exists
           \/ /\ ~user'.exists /\ "delete" \in world
              /\ tokens' = [t \in Tokens |-> "none"]
  <1> USE DEF rowVars
  <1>0. user \in UserRow /\ Formed(req[r])
    BY DEF Typed, TypeOK
  <1>1. CASE DeleteRow(r)
    <2>1. "delete" \in world
      BY <1>0, <1>1 DEF DeleteRow, At, Formed
    <2>2. user.exists => ~user'.exists
      BY <1>0, <1>1 DEF DeleteRow, UserRow
    <2>3. QED BY <1>1, <2>1, <2>2 DEF DeleteRow
  <1>2. CASE ForgotPassword(r) \/ ForgotSet(r)
    BY <1>0, <1>2 DEF ForgotPassword, ForgotSet, UserRow
  <1>3. CASE ChangeUpdate(r) \/ ResetUpdate(r)
    BY <1>0, <1>3 DEF ChangeUpdate, ResetUpdate, UserRow
  <1>4. CASE \/ Logout(r) \/ CsrfToken(r)
             \/ RequireCsrf(r, "change_csrf", "change_find") \/ ChangeFind(r)
             \/ DeleteAccount(r) \/ RequireCsrf(r, "delete_csrf", "delete_row") \/ ResetFind(r)
             \/ \E p, q \in Passwords : ChangePassword(r, p, q)
             \/ \E k \in Links, q \in Passwords : ResetPassword(r, k, q)
    BY <1>4 DEF Logout, CsrfToken, RequireCsrf, ChangeFind, DeleteAccount, ResetFind,
                ChangePassword, ResetPassword
  <1>5. QED BY <1>1, <1>2, <1>3, <1>4 DEF Leave

LEMMA StepTokens ==
    ASSUME SessionsAssumption, Typed, TokenInv, [Next]_vars
    PROVE  TokenInv'
  <1>1. ASSUME NEW r \in Requests, SignIn(r) PROVE TokenInv'
    <2>1. CASE StoreToken(r)
      BY <2>1, TokenStored
    <2>2. CASE ~StoreToken(r)
      <3>1. /\ \A o \in Requests : CalmExchange(req[o], req'[o])
            /\ UNCHANGED <<tokens, tokenHistory>> /\ hitches \subseteq hitches' /\ world' = world
        BY <1>1, <2>2, SignInMoves, SignInFrame
      <3>2. user.exists => user'.exists
        <4>1. user \in UserRow
          BY DEF Typed, TypeOK
        <4>2. CASE RegisterCreate(r)
          BY <4>1, <4>2 DEF RegisterCreate, UserRow
        <4>3. QED BY <1>1, <4>2, SignInFrame
      <3>3. Living' => Living
        <4>1. CASE RegisterCreate(r)
          <5>1. "register" \in world /\ world \in Worlds
            BY <4>1 DEF RegisterCreate, At, Typed, TypeOK, Formed
          <5>2. QED BY <5>1 DEF SessionsAssumption, Living
        <4>2. QED BY <1>1, <3>1, <4>1, SignInFrame DEF Living
      <3>4. QED BY <3>1, <3>2, <3>3, TokenFrame
    <2>3. QED BY <2>1, <2>2
  <1>2. ASSUME NEW r \in Requests, Exchange(r) PROVE TokenInv'
    <2>1. CASE FindById(r)
      <3>1. UNCHANGED <<world, user, tokens, tokenHistory, hitches>> /\ req[r].at = "find_user"
        BY <2>1 DEF FindById, At, rowVars
      <3>2. \A o \in Requests : CalmExchange(req[o], req'[o])
        <4>1. CASE End(r)
          BY <3>1, <4>1, EndIsCalm DEF Calm
        <4>2. CASE Go(r, "revoke_one")
          <5> DEFINE q == [req[r] EXCEPT !.at = "revoke_one"]
          <5>1. req[r] \in Request
            BY DEF Typed, TypeOK
          <5>2. CalmExchange(req[r], q)
            BY <3>1, <5>1 DEF CalmExchange, Request
          <5>3. Becomes(r, q)
            BY <4>2 DEF Go
          <5> HIDE DEF q
          <5>4. QED BY <5>2, <5>3, BecomesLemma, SameIsCalm DEF Calm
        <4>3. QED BY <2>1, <4>1, <4>2 DEF FindById
      <3>3. QED BY <3>1, <3>2, TokenFrame DEF Living
    <2>2. QED BY <1>2, <2>1, TokenRefresh, TokenVerify, TokenRevokeOne DEF Exchange
  <1>3. ASSUME NEW r \in Requests, Leave(r) PROVE TokenInv'
    <2>1. world' = world /\ hitches \subseteq hitches'
      BY <1>3, LeaveFrame
    <2>2. CASE \E todo \in SUBSET {"revoke", "drop"} : Leaves(r, todo)
      <3>1. PICK todo \in SUBSET {"revoke", "drop"} : Leaves(r, todo)
        BY <2>2
      <3>2. QED BY <1>3, <2>1, <3>1, LeaveTokens, TokenSignOut
    <2>3. CASE ~ \E todo \in SUBSET {"revoke", "drop"} : Leaves(r, todo)
      <3>1. /\ tokenHistory' = tokenHistory /\ tokens' = tokens /\ user'.exists = user.exists
            /\ \A o \in Requests : CalmExchange(req[o], req'[o])
        BY <1>3, <2>3, LeaveMoves
      <3>2. QED BY <2>1, <3>1, TokenFrame DEF Living
    <2>4. QED BY <2>2, <2>3
  <1>4. ASSUME NEW r \in Requests, Administer(r) PROVE TokenInv'
    <2>1. /\ world' = world /\ tokens' = tokens /\ hitches \subseteq hitches'
          /\ user'.exists = user.exists
          /\ Leaves(r, {"revoke", "drop"}) \/ (req' = req /\ tokenHistory' = tokenHistory)
      BY <1>4, AdministerFrame
    <2>2. CASE Leaves(r, {"revoke", "drop"})
      BY <2>1, <2>2, TokenSignOut
    <2>3. CASE req' = req /\ tokenHistory' = tokenHistory
      BY <2>1, <2>3, TokenFrame, SameIsCalm DEF Living, Calm
    <2>4. QED BY <2>1, <2>2, <2>3
  <1>5. ASSUME NEW r \in Requests, Settle(r) PROVE TokenInv'
    <2>1. CASE RevokeAll(r)
      BY <2>1, TokenRevokeAll
    <2>2. CASE ~RevokeAll(r)
      <3>1. /\ UNCHANGED <<world, user, tokenHistory>> /\ hitches \subseteq hitches'
            /\ req[r].at = "after" /\ req'[r].old = 0 /\ tokens' = tokens
            /\ "revoke" \in req'[r].todo <=> "revoke" \in req[r].todo
            /\ \A o \in Requests \ {r} : req'[o] = req[o]
        BY <1>5, <2>2, SettleFrame
      <3>2. \A o \in Requests : CalmExchange(req[o], req'[o])
        BY <3>1, SameIsCalm DEF CalmExchange
      <3>3. QED BY <3>1, <3>2, TokenFrame DEF Living
    <2>3. QED BY <2>1, <2>2
  <1>6. ASSUME Tick \/ LockExpires \/ WindowPasses \/ RedisChanges PROVE TokenInv'
    BY <1>6, ClockFrame, TokenFrame, SameIsCalm DEF Living, Calm
  <1>7. CASE UNCHANGED vars
    BY <1>7, TokenFrame, SameIsCalm DEF Living, Calm, vars, tokenHistory
  <1>8. QED BY <1>1, <1>2, <1>3, <1>4, <1>5, <1>6, <1>7 DEF Next

\* The three tokens properties follow from it.
LEMMA TokensAreSafe ==
    ASSUME SessionsAssumption, Typed, TokenInv
    PROVE  SignOutReachesEveryToken /\ NoSessionLost /\ OneSuccessorPerToken
  <1>1. SignOutReachesEveryToken
    BY DEF TokenInv, TokensEnded, SignOutReachesEveryToken
  <1>2. NoSessionLost
    BY DEF TokenInv, TokensAccounted, Accounted, StoringFor, At, NoSessionLost
  <1>3. OneSuccessorPerToken
    <2>1. SUFFICES ASSUME "db_failure" \notin hitches, NEW t \in Tokens, t \notin shared
                   PROVE  ~ (Cardinality({u \in Tokens : parent[u] = t}) > 1)
      BY DEF OneSuccessorPerToken
    <2> DEFINE S == {u \in Tokens : parent[u] = t}
    <2>2. \A u, v \in S : u = v
      BY <2>1 DEF TokenInv, TokensSpent
    <2>3. ASSUME S = {} PROVE ~ (Cardinality(S) > 1)
      <3>1. Cardinality({}) = 0
        BY FS_EmptySet
      <3> HIDE DEF S
      <3>2. Cardinality(S) = 0
        BY <2>3, <3>1
      <3>3. QED BY <3>2
    <2>4. ASSUME S # {} PROVE ~ (Cardinality(S) > 1)
      <3>1. PICK u \in S : S = {u}
        BY <2>2, <2>4
      <3>2. Cardinality({u}) = 1
        BY FS_Singleton
      <3> HIDE DEF S
      <3>3. Cardinality(S) = 1
        BY <3>1, <3>2
      <3>4. QED BY <3>3
    <2>5. QED BY <2>3, <2>4
  <1>4. QED BY <1>1, <1>2, <1>3

LEMMA InitTokens == SessionsAssumption /\ Init => TokenInv
  <1>1. SUFFICES ASSUME SessionsAssumption, Init PROVE TokenInv
    OBVIOUS
  <1>2. /\ user.exists <=> "register" \notin world
        /\ world \in Worlds
        /\ parent = [t \in Tokens |-> 0] /\ stale = {} /\ raced = {}
        /\ tokens = [t \in Tokens |-> IF t = 1 /\ "register" \notin world THEN "valid" ELSE "none"]
    BY <1>1 DEF Init
  <1>3. \A r \in Requests : req[r].old = 0 /\ req[r].todo = {}
    BY <1>1 DEF Init, Idle
  <1>4. \A t \in Tokens : ~Known(t) /\ \A r \in Requests : ~Holds(r, t) /\ ~StoringFor(r, t)
    BY <1>2, <1>3 DEF Known, Holds, StoringFor, Tokens
  <1>5. ~Pending
    BY <1>3 DEF Pending
  <1>6. TokensKept
    BY <1>2, <1>4 DEF TokensKept
  <1>7. TokensSpent
    BY <1>2, <1>4 DEF TokensSpent, Tokens
  <1>8. TokensEnded
    BY <1>2 DEF TokensEnded
  <1>9. TokensAccounted
    BY <1>2, <1>5 DEF TokensAccounted
  <1>10. QED BY <1>6, <1>7, <1>8, <1>9 DEF TokenInv

LEMMA AlwaysTokens == Spec => [](Typed /\ TokenInv)
  <1>1. Init => TokenInv
    BY InitTokens, SessionsAssumption
  <1>2. Typed /\ TokenInv /\ [Next]_vars => TokenInv'
    BY StepTokens, SessionsAssumption
  <1>3. QED
    BY <1>1, <1>2, AlwaysTyped, PTL DEF Spec

(***************************************************************************)
(* A sign-out reaches every token it was to end: /logout, /change-password,*)
(* /reset-password and the deactivations, with revokeAllUserTokens of      *)
(* middleware/auth.ts happening after the answer.                          *)
(***************************************************************************)
THEOREM SignOutsReach == Spec => []SignOutReachesEveryToken
  BY AlwaysTokens, TokensAreSafe, SessionsAssumption, PTL

(***************************************************************************)
(* No session is lost: a token is revoked by a sign-out it was there for,  *)
(* or exchanged for one that takes its place (routes/auth.ts:408).         *)
(***************************************************************************)
THEOREM SessionsKept == Spec => []NoSessionLost
  BY AlwaysTokens, TokensAreSafe, SessionsAssumption, PTL

(***************************************************************************)
(* A refresh token is exchanged once, unless two refreshes verified it     *)
(* before either revoked it (routes/auth.ts:394-410).                      *)
(***************************************************************************)
THEOREM OneSuccessor == Spec => []OneSuccessorPerToken
  BY AlwaysTokens, TokensAreSafe, SessionsAssumption, PTL
=============================================================================
