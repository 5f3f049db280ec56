---------------------------- MODULE AuthSessions ----------------------------
(***************************************************************************)
(* One user's password, lockout, second factor and sessions                *)
(* (src/src/services/auth/auth.service.ts, src/src/models/Session.ts,      *)
(* src/src/repositories/UserRepository.ts).  Users share no row, so one is *)
(* enough.                                                                 *)
(*                                                                         *)
(* A worker is one request in flight, cut at the awaits that reach         *)
(* PostgreSQL or Redis; every UPDATE is by id and writes whole columns.    *)
(* Handlers behind the authenticate middleware are entry points here,      *)
(* although the middleware, which looks for the session in Redis where     *)
(* login never puts it, admits none.                                       *)
(*                                                                         *)
(* opened, late, issued, spent, doubled, streak and cut are history: no    *)
(* action reads them.  Definitions marked Slip are not part of the         *)
(* specification: each is a plausible mistake a property has to notice.    *)
(***************************************************************************)
EXTENDS Integers, FiniteSets

CONSTANTS
    Workers,        \* requests in flight
    Passwords,
    First,          \* the password the user was created with
    Codes,          \* backup codes of one setup
    NoCode,         \* a login without an MFA code, or a code that is wrong
    Totp,           \* the current code of the authenticator
    Sessions,       \* rows of sessions; an ended row's name is used again
    Tokens,         \* password reset tokens
    Limit,          \* failed logins that lock the account
    Mixes,          \* bound: the kinds of operation that meet in one behaviour
    MaxFailures,    \* bound on login_attempts
    MaxSetups,      \* bound on MFA setups
    MaxFaults       \* bound on requests that die

Operations == {"login", "verify", "setup", "disable", "change", "reset", "logoutAll"}

ASSUME AuthAssumption ==
    /\ First \in Passwords
    /\ Codes \cap {NoCode, Totp} = {} /\ NoCode # Totp
    /\ Mixes \in SUBSET SUBSET Operations
    /\ Limit \in Nat \ {0}
    /\ MaxFailures \in Nat /\ MaxFailures >= Limit
    /\ MaxSetups \in Nat /\ MaxFaults \in Nat

VARIABLES
    mix,            \* the kinds of operation of this behaviour
    hash,           \* users.password_hash: the password and how often it was hashed
    history,        \* users.password_history
    attempts,       \* users.login_attempts
    locked,         \* users.locked_until > NOW()
    mfa,            \* users.mfa_enabled, and mfa_secret is set
    codes,          \* users.mfa_backup_codes
    setups,         \* MFA setups so far; names the codes
    active,         \* rows of sessions with is_active
    resetToken,     \* password_reset:<token> in Redis
    pc, op,         \* what each worker is at, and its operation
    given,          \* the password it was given
    code,           \* the code it was given
    token,          \* the reset token it was given
    count,          \* the login_attempts it read
    list,           \* the codes, the history or the sessions it read
    faults,
    opened,         \* the password each session was opened with
    late,           \* sessions opened after that password had been replaced
    issued, spent,  \* codes of the current setup, and those accepted since
    doubled,        \* codes were written from a list that was no longer current
    streak,         \* wrong passwords since the last good login that raced with none
    cut             \* a request that replaced the password died before its end

userVars    == <<hash, history, attempts, locked, mfa, codes, setups>>
sessionVars == <<active, resetToken>>
localVars   == <<op, given, code, token, count, list>>
pastVars    == <<opened, late, issued, spent, doubled, streak, cut>>
vars        == <<mix, userVars, sessionVars, pc, localVars, faults, pastVars>>

Issue(n) == {n} \X Codes

\* A code as a client sends it: of some setup or of none, of the authenticator, or missing.
Presented == (UNION {Issue(n) : n \in 0..MaxSetups}) \union {Totp, NoCode}

Labels == {"idle", "fail", "count", "mfa", "codes", "spend", "enter", "session", "disable",
           "history", "password", "remember", "write", "list", "deactivate", "token", "sweep"}

UserTypeOK ==
    /\ hash \in [of : Passwords, times : 1..2]
    /\ history \subseteq Passwords
    /\ attempts \in 0..MaxFailures
    /\ locked \in BOOLEAN /\ mfa \in BOOLEAN
    /\ codes \subseteq Presented
    /\ setups \in 0..MaxSetups

SessionTypeOK ==
    /\ active \subseteq Sessions
    /\ resetToken \in [Tokens -> {"none", "live", "gone"}]

WorkerTypeOK ==
    /\ pc \in [Workers -> Labels]
    /\ op \in [Workers -> Operations]
    /\ given \in [Workers -> Passwords]
    /\ code \in [Workers -> Presented]
    /\ count \in [Workers -> 0..MaxFailures]
    /\ list \in [Workers -> SUBSET (Presented \union Passwords \union Sessions)]

PastTypeOK ==
    /\ opened \in [Sessions -> Passwords]
    /\ late \subseteq Sessions
    /\ issued \subseteq Presented /\ spent \subseteq Presented
    /\ doubled \in BOOLEAN /\ cut \in BOOLEAN
    /\ streak \in 0..MaxFailures

\* Every variable ranges over the values the code can give it.
TypeOK ==
    /\ mix \in Mixes
    /\ UserTypeOK /\ SessionTypeOK /\ WorkerTypeOK /\ PastTypeOK
    /\ faults \in 0..MaxFaults

Init ==
    /\ mix \in Mixes
    /\ hash = [of |-> First, times |-> 1]
    /\ history = {First}
    /\ attempts = 0 /\ locked = FALSE
    /\ mfa = FALSE /\ codes = {} /\ setups = 0
    /\ active = {}
    /\ resetToken = [t \in Tokens |-> "none"]
    /\ pc = [w \in Workers |-> "idle"]
    /\ op = [w \in Workers |-> "login"]
    /\ given = [w \in Workers |-> First]
    /\ code = [w \in Workers |-> NoCode]
    /\ token = [w \in Workers |-> CHOOSE t \in Tokens : TRUE]
    /\ count = [w \in Workers |-> 0]
    /\ list = [w \in Workers |-> {}]
    /\ faults = 0
    /\ opened = [s \in Sessions |-> First]
    /\ late = {} /\ issued = {} /\ spent = {} /\ doubled = FALSE
    /\ streak = 0 /\ cut = FALSE

-----------------------------------------------------------------------------
\* Requests

Goto(w, label) == pc' = [pc EXCEPT ![w] = label]

\* A request ends and forgets what it carried.
Return(w) ==
    /\ Goto(w, "idle")
    /\ count' = [count EXCEPT ![w] = 0]
    /\ list' = [list EXCEPT ![w] = {}]
    /\ code' = [code EXCEPT ![w] = NoCode]
    /\ op' = [op EXCEPT ![w] = "login"]
    /\ given' = [given EXCEPT ![w] = First]

Starts(w, kind, label) ==
    /\ pc[w] = "idle" /\ kind \in mix
    /\ op' = [op EXCEPT ![w] = kind]
    /\ Goto(w, label)

\* bcrypt.compare with the stored hash.  updatePassword hashes what its callers have
\* hashed already, so a replaced password matches nothing a client can send.
Matches(p) == hash = [of |-> p, times |-> 1]

\* login reads the user and compares.  A user with MFA and no code is told to send
\* one; a code nobody looks at is left out.
StartLogin(w, p, c) ==
    /\ ~locked
    /\ IF Matches(p)
       THEN /\ mfa <=> c # NoCode
            /\ Starts(w, "login", IF mfa THEN "mfa" ELSE "enter")
       ELSE c = NoCode /\ Starts(w, "login", "fail")
    /\ given' = [given EXCEPT ![w] = p]
    /\ code' = [code EXCEPT ![w] = c]
    /\ UNCHANGED <<mix, userVars, sessionVars, token, count, list, faults, pastVars>>

\* incrementLoginAttempts reads the count ...
ReadAttempts(w) ==
    /\ pc[w] = "fail"
    /\ attempts < MaxFailures
    /\ count' = [count EXCEPT ![w] = attempts]
    /\ Goto(w, "count")
    /\ UNCHANGED <<mix, userVars, sessionVars, op, given, code, token, list, faults, pastVars>>

\* ... and writes it back, with the lock.
IncrementLoginAttempts(w) ==
    /\ pc[w] = "count"
    /\ attempts' = count[w] + 1
    /\ locked' = (locked \/ count[w] + 1 >= Limit)
    /\ streak' = IF streak < MaxFailures THEN streak + 1 ELSE streak
    /\ Return(w)
    /\ UNCHANGED <<mix, hash, history, mfa, codes, setups, sessionVars, token, faults,
                   opened, late, issued, spent, doubled, cut>>

\* Slip: a good login lifts the lock and leaves the count.
UnlockOnly(w) ==
    /\ pc[w] = "enter"
    /\ locked' = FALSE
    /\ streak' = IF \E v \in Workers : pc[v] = "count" THEN streak ELSE 0
    /\ Goto(w, "session")
    /\ UNCHANGED <<mix, hash, history, attempts, mfa, codes, setups, sessionVars, localVars, faults,
                   opened, late, issued, spent, doubled, cut>>

\* resetLoginAttempts.
ResetLoginAttempts(w) ==
    /\ pc[w] = "enter"
    /\ attempts' = 0 /\ locked' = FALSE
    /\ streak' = IF \E v \in Workers : pc[v] = "count" THEN streak ELSE 0
    /\ Goto(w, "session")
    /\ UNCHANGED <<mix, hash, history, mfa, codes, setups, sessionVars, localVars, faults,
                   opened, late, issued, spent, doubled, cut>>

\* createSession: the row, whose name no request still has in a list.
CreateSession(w, s) ==
    /\ pc[w] = "session"
    /\ s \notin active /\ \A v \in Workers : s \notin list[v]
    /\ active' = active \union {s}
    /\ opened' = [opened EXCEPT ![s] = given[w]]
    /\ late' = IF Matches(given[w]) THEN late ELSE late \union {s}
    /\ Return(w)
    /\ UNCHANGED <<mix, userVars, resetToken, token, faults, issued, spent, doubled, streak, cut>>

-----------------------------------------------------------------------------
\* The second factor

StartSecond(w, kind, c) ==
    /\ kind \in {"verify", "disable"}
    /\ c # NoCode
    /\ Starts(w, kind, "mfa")
    /\ code' = [code EXCEPT ![w] = c]
    /\ UNCHANGED <<mix, userVars, sessionVars, given, token, count, list, faults, pastVars>>

\* Where a request goes once its code was accepted.
Accepted(w) == CASE op[w] = "login" -> "enter" [] op[w] = "disable" -> "disable"
                 [] op[w] = "verify" -> "idle"

\* verifyMFA reads the user: without a secret nothing is accepted.
ReadSecret(w) ==
    /\ pc[w] = "mfa"
    /\ IF mfa THEN Goto(w, "codes") /\ UNCHANGED localVars ELSE Return(w)
    /\ UNCHANGED <<mix, userVars, sessionVars, token, faults, pastVars>>

\* verifyBackupCode reads the user again and compares; then the authenticator's code.
ReadCodes(w) ==
    /\ pc[w] = "codes"
    /\ \/ /\ code[w] \in codes
          /\ list' = [list EXCEPT ![w] = codes]
          /\ Goto(w, "spend")
          /\ UNCHANGED <<op, given, code, count>>
       \/ /\ code[w] = Totp
          /\ Goto(w, Accepted(w))
          /\ UNCHANGED localVars
       \/ code[w] \notin codes \union {Totp} /\ Return(w)
    /\ UNCHANGED <<mix, userVars, sessionVars, token, faults, pastVars>>

\* The whole column is written back without the code.
SpendCode(w) ==
    /\ pc[w] = "spend"
    /\ codes' = list[w] \ {code[w]}
    /\ doubled' = (doubled \/ codes # list[w])
    /\ spent' = spent \union {code[w]}
    /\ list' = [list EXCEPT ![w] = {}]
    /\ Goto(w, Accepted(w))
    /\ UNCHANGED <<mix, hash, history, attempts, locked, mfa, setups, sessionVars, op, given, code,
                   token, count, faults, opened, late, issued, streak, cut>>

\* setupMFA: whatever was set up before is replaced by one UPDATE.
SetupMFA(w) ==
    /\ pc[w] = "idle" /\ "setup" \in mix
    /\ setups < MaxSetups
    /\ setups' = setups + 1
    /\ mfa' = TRUE
    /\ codes' = Issue(setups')
    /\ issued' = codes' /\ spent' = {}
    /\ UNCHANGED <<mix, hash, history, attempts, locked, sessionVars, pc, localVars, faults,
                   opened, late, doubled, streak, cut>>

\* Slip: the second factor is switched off and its codes stay.
DisableSecretOnly(w) ==
    /\ pc[w] = "disable"
    /\ mfa' = FALSE
    /\ issued' = {} /\ spent' = {}
    /\ Return(w)
    /\ UNCHANGED <<mix, hash, history, attempts, locked, codes, setups, sessionVars,
                   token, faults, opened, late, doubled, streak, cut>>

\* disableMFA.
DisableMFA(w) ==
    /\ pc[w] = "disable"
    /\ mfa' = FALSE /\ codes' = {}
    /\ issued' = {} /\ spent' = {}
    /\ Return(w)
    /\ UNCHANGED <<mix, hash, history, attempts, locked, setups, sessionVars,
                   token, faults, opened, late, doubled, streak, cut>>

-----------------------------------------------------------------------------
\* Replacing the password

\* changePassword: the old password must match.
StartChange(w, p, new) ==
    /\ Matches(p)
    /\ Starts(w, "change", "history")
    /\ given' = [given EXCEPT ![w] = new]
    /\ UNCHANGED <<mix, userVars, sessionVars, code, token, count, list, faults, pastVars>>

\* isPasswordReused.
CheckHistory(w) ==
    /\ pc[w] = "history"
    /\ IF given[w] \in history THEN Return(w) ELSE Goto(w, "password") /\ UNCHANGED localVars
    /\ UNCHANGED <<mix, userVars, sessionVars, token, faults, pastVars>>

\* requestPasswordReset.
RequestReset(t) ==
    /\ "reset" \in mix
    /\ resetToken[t] = "none"
    /\ resetToken' = [resetToken EXCEPT ![t] = "live"]
    /\ UNCHANGED <<mix, userVars, active, pc, localVars, faults, pastVars>>

\* resetPassword looks the token up; it asks nothing about the history.
StartReset(w, t, new) ==
    /\ resetToken[t] = "live"
    /\ Starts(w, "reset", "password")
    /\ given' = [given EXCEPT ![w] = new]
    /\ token' = [token EXCEPT ![w] = t]
    /\ UNCHANGED <<mix, userVars, sessionVars, code, count, list, faults, pastVars>>

\* Slip: what is stored is hashed once more.
RehashPassword(w) ==
    /\ pc[w] = "password"
    /\ hash' = [of |-> given[w], times |-> hash.times + 1]
    /\ Goto(w, "remember")
    /\ UNCHANGED <<mix, history, attempts, locked, mfa, codes, setups, sessionVars, localVars,
                   faults, pastVars>>

\* updatePassword: both callers pass a hash, and it is hashed again.
UpdatePassword(w) ==
    /\ pc[w] = "password"
    /\ hash' = [of |-> given[w], times |-> 2]
    /\ Goto(w, "remember")
    /\ UNCHANGED <<mix, history, attempts, locked, mfa, codes, setups, sessionVars, localVars,
                   faults, pastVars>>

\* addToPasswordHistory reads the column ...
ReadHistory(w) ==
    /\ pc[w] = "remember"
    /\ list' = [list EXCEPT ![w] = history]
    /\ Goto(w, "write")
    /\ UNCHANGED <<mix, userVars, sessionVars, op, given, code, token, count, faults, pastVars>>

\* ... and writes it back with one hash more.
WriteHistory(w) ==
    /\ pc[w] = "write"
    /\ history' = list[w] \union {given[w]}
    /\ list' = [list EXCEPT ![w] = {}]
    /\ Goto(w, IF op[w] = "change" THEN "list" ELSE "token")
    /\ UNCHANGED <<mix, hash, attempts, locked, mfa, codes, setups, sessionVars, op, given, code,
                   token, count, faults, pastVars>>

\* is_active = false for the sessions of S; history forgets them with it.
End(S) ==
    /\ active' = active \ S
    /\ opened' = [s \in Sessions |-> IF s \in S THEN First ELSE opened[s]]
    /\ late' = late \ S

\* changePassword lists the active sessions ...
ListSessions(w) ==
    /\ pc[w] = "list"
    /\ list' = [list EXCEPT ![w] = active]
    /\ Goto(w, "deactivate")
    /\ UNCHANGED <<mix, userVars, sessionVars, op, given, code, token, count, faults, pastVars>>

\* ... and deactivates them one by one.
Deactivate(w) ==
    /\ pc[w] = "deactivate"
    /\ \/ \E s \in list[w] :
            /\ End({s})
            /\ list' = [list EXCEPT ![w] = list[w] \ {s}]
            /\ UNCHANGED <<pc, op, given, code, count>>
       \/ list[w] = {} /\ Return(w) /\ UNCHANGED <<active, opened, late>>
    /\ UNCHANGED <<mix, userVars, resetToken, token, faults, issued, spent, doubled, streak, cut>>

\* Slip: the sessions are left as they are.
DeleteTokenAndReturn(w) ==
    /\ pc[w] = "token"
    /\ resetToken' = [resetToken EXCEPT ![token[w]] = "gone"]
    /\ Return(w)
    /\ UNCHANGED <<mix, userVars, active, token, faults, pastVars>>

\* resetPassword deletes its token ...
DeleteToken(w) ==
    /\ pc[w] = "token"
    /\ resetToken' = [resetToken EXCEPT ![token[w]] = "gone"]
    /\ Goto(w, "sweep")
    /\ UNCHANGED <<mix, userVars, active, localVars, faults, pastVars>>

\* ... and deactivates all sessions with one UPDATE.
SweepSessions(w) ==
    /\ pc[w] = "sweep"
    /\ End(active)
    /\ Return(w)
    /\ UNCHANGED <<mix, userVars, resetToken, token, faults, issued, spent, doubled, streak, cut>>

-----------------------------------------------------------------------------
\* Sessions that end otherwise, the calendar, and failures

\* logoutAll spares the row whose id is the current session's token: there is none.
LogoutAll ==
    /\ "logoutAll" \in mix
    /\ active # {}
    /\ End(active)
    /\ UNCHANGED <<mix, userVars, resetToken, pc, localVars, faults, issued, spent, doubled,
                   streak, cut>>

\* refreshToken deactivates a session whose refresh_expires_at has passed, and otherwise
\* writes nothing.
Refresh(s) ==
    /\ s \in active
    /\ End({s})
    /\ UNCHANGED <<mix, userVars, resetToken, pc, localVars, faults, issued, spent, doubled,
                   streak, cut>>

\* locked_until passes; the count stays.
LockExpires ==
    /\ locked
    /\ locked' = FALSE
    /\ UNCHANGED <<mix, hash, history, attempts, mfa, codes, setups, sessionVars, pc, localVars,
                   faults, pastVars>>

\* The key of a reset token expires.
TokenExpires(t) ==
    /\ resetToken[t] = "live"
    /\ resetToken' = [resetToken EXCEPT ![t] = "gone"]
    /\ UNCHANGED <<mix, userVars, active, pc, localVars, faults, pastVars>>

\* A statement fails or the process dies: what was written stays.
Die(w) ==
    /\ pc[w] # "idle"
    /\ faults < MaxFaults
    /\ faults' = faults + 1
    /\ cut' = (cut \/ pc[w] \in {"remember", "write", "list", "deactivate", "token", "sweep"})
    /\ Return(w)
    /\ UNCHANGED <<mix, userVars, sessionVars, token, opened, late, issued, spent,
                   doubled, streak>>

Step(w) ==
    \/ ReadAttempts(w) \/ IncrementLoginAttempts(w) \/ ResetLoginAttempts(w)
    \/ \E s \in Sessions : CreateSession(w, s)
    \/ ReadSecret(w) \/ ReadCodes(w) \/ SpendCode(w) \/ DisableMFA(w)
    \/ CheckHistory(w) \/ UpdatePassword(w) \/ ReadHistory(w) \/ WriteHistory(w)
    \/ ListSessions(w) \/ Deactivate(w) \/ DeleteToken(w) \/ SweepSessions(w)

Start(w) ==
    \/ \E p \in Passwords, c \in Presented : StartLogin(w, p, c)
    \/ \E kind \in {"verify", "disable"}, c \in Presented : StartSecond(w, kind, c)
    \/ SetupMFA(w)
    \/ \E p, new \in Passwords : StartChange(w, p, new)
    \/ \E t \in Tokens, new \in Passwords : StartReset(w, t, new)

Next ==
    \/ \E w \in Workers : Step(w) \/ Start(w) \/ Die(w)
    \/ \E t \in Tokens : RequestReset(t) \/ TokenExpires(t)
    \/ \E s \in Sessions : Refresh(s)
    \/ LogoutAll \/ LockExpires

Spec == Init /\ [][Next]_vars

-----------------------------------------------------------------------------
\* Properties

\* An account is never locked for failures it has not seen: login_attempts counts no more
\* than the wrong passwords since the last good login, unless that login reset the count
\* while a failure was being recorded (incrementLoginAttempts, resetLoginAttempts).
AttemptsJustified ==
    /\ attempts =< streak
    /\ locked => streak >= Limit

\* The backup codes stored are those of the last setup without those accepted since, and
\* none once MFA is off, unless two requests wrote the column from one read
\* (setupMFA, verifyBackupCode, disableMFA).
CodesAccounted == ~doubled => codes = issued \ spent

Replacing(w) == pc[w] \in {"remember", "write", "list", "deactivate", "token", "sweep"}

\* A session opened with a password that has been replaced is active only while the
\* request that replaced it runs, if that request died, or if the login had compared
\* the old password before and wrote its row after (changePassword, resetPassword).
SessionsFollowPassword ==
    \A s \in active :
        \/ hash = [of |-> opened[s], times |-> 1]
        \/ s \in late
        \/ cut
        \/ \E w \in Workers : Replacing(w)
=============================================================================
