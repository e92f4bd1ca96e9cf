----------------------------- MODULE MCSessions -----------------------------
(***************************************************************************)
(* Instances of Sessions for TLC.                                          *)
(***************************************************************************)
EXTENDS Sessions, TLC

CONSTANTS r1, r2, p1, p2

MCWorlds ==
    {{"refresh", "login", "logout"},
     {"refresh", "change", "csrf"},
     {"refresh", "forgot", "reset"},
     {"guess", "forgot", "reset"},
     {"guess", "login"},
     {"guess", "unlock", "status"},
     {"guess", "login", "limits"},
     {"guess", "limits", "redis_fails"},
     {"csrf", "change", "redis_fails"},
     {"refresh", "logout", "db_fails"},
     {"guess", "login", "db_fails"},
     {"refresh", "login", "status", "import"},
     {"refresh", "login", "update"},
     {"refresh", "login", "csrf", "delete"},
     {"guess", "csrf", "delete"},
     {"register", "login", "db_fails"}}

MCSymmetry == Permutations(Requests)
=============================================================================
