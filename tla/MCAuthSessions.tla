--------------------------- MODULE MCAuthSessions ---------------------------
(* The kinds of operation that meet in one behaviour of AuthSessions.        *)
EXTENDS AuthSessions, TLC

MCMixes ==
    {{"login", "change", "reset"},
     {"login", "logoutAll", "change"},
     {"login", "setup", "verify", "disable"}}

Symmetry == Permutations(Workers) \union Permutations(Sessions) \union Permutations(Codes)
=============================================================================
