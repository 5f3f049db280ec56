SPECIFICATION Spec
CONSTANTS
    Workers = {w1, w2}
    Passwords = {p1, p2}
    First = p1
    Codes = {c1, c2}
    NoCode = NoCode
    Totp = Totp
    Sessions = {s1, s2}
    Tokens = {t1}
    Limit = 2
    Mixes <- MCMixes
    MaxFailures = 3
    MaxSetups = 2
    MaxFaults = 1
SYMMETRY Symmetry
INVARIANTS
    TypeOK
    AttemptsJustified
    CodesAccounted
    SessionsFollowPassword
CHECK_DEADLOCK FALSE
