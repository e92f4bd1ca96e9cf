\* Requests at once, passwords, reset links and CSRF tokens: two of each, three seconds.
SPECIFICATION Spec
CONSTANTS
    r1 = r1
    r2 = r2
    p1 = p1
    p2 = p2
    Requests = {r1, r2}
    Passwords = {p1, p2}
    FirstPassword = p1
    MAX_LOGIN_ATTEMPTS = 2
    MAX_AUTH_ATTEMPTS = 3
    LastSecond = 3
    MaxLinks = 2
    MaxFailures = 3
    MaxCsrf = 2
    Worlds <- MCWorlds
SYMMETRY MCSymmetry
CHECK_DEADLOCK FALSE
INVARIANTS
    TypeOK
    SignOutReachesEveryToken
    NoSessionLost
    OneSuccessorPerToken
    LockFollowsGuesses
    LimiterCountsEverySignIn
    ResetLinkWorksOnce
    CsrfFollowsSignOut
