-------------------------- MODULE AuthSessions_proofs --------------------------
(***************************************************************************)
(* Theorems about AuthSessions, for every number of requests, passwords,   *)
(* codes, sessions, tokens, failures and faults.                           *)
(***************************************************************************)
EXTENDS AuthSessions, TLAPS

USE AuthAssumption

\* What a request has read is still good for what it will write: the count that it will
\* raise, the column that it will write back.
Fit(w) ==
    /\ pc[w] = "count" => count[w] < MaxFailures /\ count[w] <= streak
    /\ pc[w] \in {"mfa", "codes", "spend"} => op[w] \in {"login", "verify", "disable"}
    /\ pc[w] = "spend" => list[w] \subseteq Presented
    /\ pc[w] = "write" => list[w] \subseteq Passwords

Control == TypeOK /\ AttemptsJustified /\ \A w \in Workers : Fit(w)

\* A request that has replaced the password will still end this session.
Ends(w, s) ==
    \/ pc[w] \in {"remember", "write", "list", "token", "sweep"}
    \/ pc[w] = "deactivate" /\ s \in list[w]

\* A session of a replaced password is ended by a request that still runs.
Followed ==
    ~cut => \A s \in active : Matches(opened[s]) \/ s \in late \/ \E w \in Workers : Ends(w, s)

-----------------------------------------------------------------------------
(***************************************************************************)
(* How a request moves on.                                                 *)
(***************************************************************************)
\* A list is of codes, of passwords or of sessions.
Listed == Presented \union Passwords \union Sessions

\* Nobody else moves.
Alone(w) ==
    \A v \in Workers \ {w} :
        pc'[v] = pc[v] /\ op'[v] = op[v] /\ count'[v] = count[v] /\ list'[v] = list[v]

\* A request that returns is idle again.
LEMMA ReturnOK ==
  ASSUME TypeOK, NEW w \in Workers, Return(w)
  PROVE  WorkerTypeOK' /\ Alone(w) /\ pc'[w] = "idle"
<1>1. /\ "login" \in Operations /\ First \in Passwords /\ 0 \in 0..MaxFailures
      /\ "idle" \in Labels /\ NoCode \in Presented
  BY DEF Operations, Labels, Presented
<1>2. WorkerTypeOK'
  BY <1>1 DEF TypeOK, WorkerTypeOK, Return, Goto
<1>3. Alone(w)
  BY DEF TypeOK, WorkerTypeOK, Return, Goto, Alone
<1> QED
  BY <1>2, <1>3 DEF TypeOK, WorkerTypeOK, Return, Goto

\* A request that goes on with what it carries.
LEMMA GotoOK ==
  ASSUME TypeOK, NEW w \in Workers, NEW label \in Labels, Goto(w, label), UNCHANGED localVars
  PROVE  WorkerTypeOK' /\ Alone(w) /\ pc'[w] = label /\ op'[w] = op[w] /\ list'[w] = list[w]
  BY DEF TypeOK, WorkerTypeOK, Goto, Alone, localVars

\* A request that goes on with a list it has read, or has used up.
LEMMA ListOK ==
  ASSUME TypeOK, NEW w \in Workers, NEW label \in Labels, Goto(w, label),
         NEW l \in SUBSET Listed, list' = [list EXCEPT ![w] = l],
         UNCHANGED <<op, given, code, count>>
  PROVE  WorkerTypeOK' /\ Alone(w) /\ pc'[w] = label /\ op'[w] = op[w] /\ list'[w] = l
  BY DEF TypeOK, WorkerTypeOK, Goto, Alone, Listed

\* A request that starts.
LEMMA StartsOK ==
  ASSUME TypeOK, NEW w \in Workers, NEW kind \in Operations, NEW label \in Labels,
         Starts(w, kind, label), given' \in [Workers -> Passwords],
         code' \in [Workers -> Presented], UNCHANGED <<count, list>>
  PROVE  WorkerTypeOK' /\ Alone(w) /\ pc[w] = "idle" /\ pc'[w] = label /\ op'[w] = kind
<1>1. WorkerTypeOK'
  BY DEF TypeOK, WorkerTypeOK, Starts, Goto
<1>2. Alone(w)
  BY DEF TypeOK, WorkerTypeOK, Starts, Goto, Alone
<1> QED
  BY <1>1, <1>2 DEF TypeOK, WorkerTypeOK, Starts, Goto

\* The codes of a setup are codes a client can send.
LEMMA IssuePresented == \A n \in 0..MaxSetups : Issue(n) \subseteq Presented
  BY DEF Presented

\* Where a request goes once its code was accepted.
LEMMA AcceptedOK ==
  ASSUME NEW w \in Workers, op[w] \in {"login", "verify", "disable"}
  PROVE  Accepted(w) \in {"enter", "disable", "idle"} /\ Accepted(w) \in Labels
  BY DEF Accepted, Labels

-----------------------------------------------------------------------------
(***************************************************************************)
(* The alternatives of the steps that branch.                              *)
(***************************************************************************)
\* A request is over: no secret, a wrong code, a password used before, all sessions ended.
GiveUp(w) ==
    /\ pc[w] \in {"mfa", "codes", "history"}
    /\ Return(w)
    /\ UNCHANGED <<mix, userVars, sessionVars, token, faults, pastVars>>

EndOfList(w) ==
    /\ pc[w] = "deactivate" /\ list[w] = {}
    /\ Return(w)
    /\ UNCHANGED <<mix, userVars, sessionVars, token, faults, pastVars>>

EndOne(w, s) ==
    /\ pc[w] = "deactivate" /\ s \in list[w]
    /\ End({s})
    /\ list' = [list EXCEPT ![w] = list[w] \ {s}]
    /\ UNCHANGED <<mix, userVars, resetToken, pc, op, given, code, count, token, faults, issued,
                   spent, doubled, streak, cut>>

\* A request goes on: there is a secret, the authenticator's code, a new password.
GoOn(w, from, label) ==
    /\ pc[w] = from
    /\ Goto(w, label)
    /\ UNCHANGED <<mix, userVars, sessionVars, localVars, faults, pastVars>>

FindCode(w) ==
    /\ pc[w] = "codes" /\ code[w] \in codes
    /\ list' = [list EXCEPT ![w] = codes]
    /\ Goto(w, "spend")
    /\ UNCHANGED <<mix, userVars, sessionVars, op, given, code, count, token, faults, pastVars>>

Moves(w) ==
    \/ ReadAttempts(w) \/ IncrementLoginAttempts(w) \/ ResetLoginAttempts(w)
    \/ \E s \in Sessions : CreateSession(w, s)
    \/ GiveUp(w) \/ GoOn(w, "mfa", "codes") \/ GoOn(w, "codes", Accepted(w)) \/ FindCode(w)
    \/ GoOn(w, "history", "password") \/ SpendCode(w) \/ DisableMFA(w)
    \/ UpdatePassword(w) \/ ReadHistory(w) \/ WriteHistory(w) \/ ListSessions(w)
    \/ EndOfList(w) \/ \E s \in list[w] : EndOne(w, s)
    \/ DeleteToken(w) \/ SweepSessions(w) \/ Die(w)

Starting(w) ==
    \/ \E p \in Passwords, c \in Presented : StartLogin(w, p, c)
    \/ \E kind \in {"verify", "disable"}, c \in Presented : StartSecond(w, kind, c)
    \/ \E p, new \in Passwords : StartChange(w, p, new)
    \/ \E t \in Tokens, new \in Passwords : StartReset(w, t, new)

\* Sessions end and tokens and locks run out without a request in flight.
Elsewhere ==
    \/ \E t \in Tokens : RequestReset(t) \/ TokenExpires(t)
    \/ \E s \in Sessions : Refresh(s)
    \/ LogoutAll \/ LockExpires

\* Every step is one of these.
LEMMA Alternatives ==
  ASSUME Control, [Next]_vars
  PROVE  \/ \E w \in Workers : Moves(w) \/ Starting(w) \/ SetupMFA(w)
         \/ Elsewhere \/ UNCHANGED vars
<1>1. ASSUME NEW w \in Workers, ReadSecret(w) PROVE GiveUp(w) \/ GoOn(w, "mfa", "codes")
  BY <1>1, Zenon DEF ReadSecret, GiveUp, GoOn, localVars
<1>2. ASSUME NEW w \in Workers, ReadCodes(w)
      PROVE  GiveUp(w) \/ FindCode(w) \/ GoOn(w, "codes", Accepted(w))
  BY <1>2 DEF ReadCodes, GiveUp, GoOn, FindCode, localVars
<1>3. ASSUME NEW w \in Workers, CheckHistory(w)
      PROVE  GiveUp(w) \/ GoOn(w, "history", "password")
  BY <1>3 DEF CheckHistory, GiveUp, GoOn, localVars
<1>4. ASSUME NEW w \in Workers, Deactivate(w)
      PROVE  EndOfList(w) \/ \E s \in list[w] : EndOne(w, s)
  <2>1. CASE list[w] = {} /\ Return(w) /\ UNCHANGED <<active, opened, late>>
    BY <1>4, <2>1 DEF Deactivate, EndOfList, sessionVars, pastVars
  <2>2. ASSUME NEW s \in list[w], End({s}), list' = [list EXCEPT ![w] = list[w] \ {s}],
               UNCHANGED <<pc, op, given, code, count>>
        PROVE  \E x \in list[w] : EndOne(w, x)
    BY <1>4, <2>2 DEF Deactivate, EndOne
  <2> QED
    BY <1>4, <2>1, <2>2 DEF Deactivate
<1> QED
  BY <1>1, <1>2, <1>3, <1>4, Zenon DEF Next, Step, Start, Moves, Starting, Elsewhere

-----------------------------------------------------------------------------
(***************************************************************************)
(* Control is inductive.                                                   *)
(***************************************************************************)
\* A request fits after its own step.
LEMMA WorkerFit ==
  ASSUME Control, NEW w \in Workers, Moves(w) \/ Starting(w)
  PROVE  WorkerTypeOK' /\ Alone(w) /\ Fit(w)'
<1> DEFINE Goal == WorkerTypeOK' /\ Alone(w) /\ Fit(w)'
<1> SUFFICES Goal
  OBVIOUS
<1> USE DEF Control
<1>0. TypeOK /\ Fit(w)
  OBVIOUS
<1>1. CASE Return(w)
  BY <1>0, <1>1, ReturnOK DEF Fit
<1>2. ASSUME NEW label \in Labels \ {"count", "mfa", "codes", "spend", "write"},
             Goto(w, label), UNCHANGED localVars
      PROVE  Goal
  BY <1>0, <1>2, GotoOK DEF Fit
<1>3. ASSUME NEW label \in Labels \ {"count", "mfa", "codes"},
             Goto(w, label), NEW l \in SUBSET Listed, list' = [list EXCEPT ![w] = l],
             UNCHANGED <<op, given, code, count>>,
             label = "spend" => l \subseteq Presented /\ pc[w] = "codes",
             label = "write" => l \subseteq Passwords
      PROVE  Goal
  <2>1. WorkerTypeOK' /\ Alone(w) /\ pc'[w] = label /\ op'[w] = op[w] /\ list'[w] = l
    BY <1>0, <1>3, ListOK
  <2> QED
    BY <1>0, <1>3, <2>1 DEF Fit
<1>4. ASSUME NEW kind \in Operations, NEW label \in {"fail", "enter", "mfa", "history", "password"},
             Starts(w, kind, label), given' \in [Workers -> Passwords],
             code' \in [Workers -> Presented], UNCHANGED <<count, list>>,
             label = "mfa" => kind \in {"login", "verify", "disable"}
      PROVE  Goal
  <2>1. label \in Labels
    BY DEF Labels
  <2>2. WorkerTypeOK' /\ Alone(w) /\ pc'[w] = label /\ op'[w] = kind
    BY <1>0, <1>4, <2>1, StartsOK
  <2> QED
    BY <1>4, <2>2 DEF Fit
<1> HIDE DEF Goal
<1>5. CASE ReadAttempts(w)
  <2>1. WorkerTypeOK' /\ Alone(w)
    BY <1>0, <1>5 DEF ReadAttempts, Goto, TypeOK, WorkerTypeOK, UserTypeOK, Alone, Labels
  <2>2. pc'[w] = "count" /\ count'[w] = attempts /\ attempts < MaxFailures /\ streak' = streak
    BY <1>0, <1>5 DEF ReadAttempts, Goto, TypeOK, WorkerTypeOK, pastVars
  <2>3. attempts <= streak
    BY DEF AttemptsJustified
  <2> QED
    BY <2>1, <2>2, <2>3 DEF Goal, Fit
<1>6. ASSUME ResetLoginAttempts(w) \/ UpdatePassword(w) \/ DeleteToken(w)
      PROVE  \E label \in Labels \ {"count", "mfa", "codes", "spend", "write"} :
                Goto(w, label) /\ UNCHANGED localVars
  BY <1>6 DEF ResetLoginAttempts, UpdatePassword, DeleteToken, Labels
<1>7. ASSUME \/ IncrementLoginAttempts(w) \/ \E s \in Sessions : CreateSession(w, s)
             \/ GiveUp(w) \/ DisableMFA(w) \/ EndOfList(w) \/ SweepSessions(w) \/ Die(w)
      PROVE  Return(w)
  BY <1>7 DEF IncrementLoginAttempts, CreateSession, GiveUp, DisableMFA, EndOfList,
     SweepSessions, Die
<1>8. CASE GoOn(w, "mfa", "codes")
  <2>1. "codes" \in Labels
    BY DEF Labels
  <2> QED
    BY <1>0, <1>8, <2>1, GotoOK DEF GoOn, Goal, Fit
<1>9. CASE GoOn(w, "codes", Accepted(w)) \/ GoOn(w, "history", "password")
  BY <1>0, <1>2, <1>9, AcceptedOK DEF GoOn, Fit, Labels
<1>10. CASE FindCode(w)
  <2>1. codes \subseteq Presented /\ codes \in SUBSET Listed
    BY <1>0 DEF TypeOK, UserTypeOK, Listed
  <2>2. "spend" \in Labels \ {"count", "mfa", "codes"}
    BY DEF Labels
  <2> QED
    BY <1>3, <1>10, <2>1, <2>2 DEF FindCode
<1>11. CASE SpendCode(w)
  <2>1. Accepted(w) \in {"enter", "disable", "idle"} /\ Accepted(w) \in Labels
    BY <1>0, <1>11, AcceptedOK DEF SpendCode, Fit
  <2>2. {} \in SUBSET Listed
    OBVIOUS
  <2> QED
    BY <1>3, <1>11, <2>1, <2>2 DEF SpendCode
<1>12. CASE ReadHistory(w)
  <2>1. history \subseteq Passwords /\ history \in SUBSET Listed
    BY <1>0 DEF TypeOK, UserTypeOK, Listed
  <2>2. "write" \in Labels \ {"count", "mfa", "codes"}
    BY DEF Labels
  <2> QED
    BY <1>3, <1>12, <2>1, <2>2 DEF ReadHistory
<1>13. CASE WriteHistory(w)
  <2>1. PICK label \in {"list", "token"} : Goto(w, label)
    BY <1>13 DEF WriteHistory
  <2>2. label \in Labels \ {"count", "mfa", "codes"} /\ {} \in SUBSET Listed
    BY DEF Labels
  <2> QED
    BY <1>3, <1>13, <2>1, <2>2 DEF WriteHistory
<1>14. CASE ListSessions(w)
  <2>1. active \in SUBSET Listed
    BY <1>0 DEF TypeOK, SessionTypeOK, Listed
  <2>2. "deactivate" \in Labels \ {"count", "mfa", "codes"}
    BY DEF Labels
  <2> QED
    BY <1>3, <1>14, <2>1, <2>2 DEF ListSessions
<1>15. ASSUME NEW s \in list[w], EndOne(w, s) PROVE Goal
  <2>1. list[w] \ {s} \in SUBSET Listed /\ Goto(w, "deactivate")
    BY <1>0, <1>15 DEF EndOne, Goto, TypeOK, WorkerTypeOK, Listed
  <2>2. "deactivate" \in Labels \ {"count", "mfa", "codes"}
    BY DEF Labels
  <2> QED
    BY <1>3, <1>15, <2>1, <2>2 DEF EndOne
<1>16. CASE Starting(w)
  <2>1. given \in [Workers -> Passwords] /\ code \in [Workers -> Presented]
    BY <1>0 DEF TypeOK, WorkerTypeOK
  <2>2. ASSUME NEW p \in Passwords, NEW c \in Presented, StartLogin(w, p, c) PROVE Goal
    <3>1. PICK label \in {"fail", "enter", "mfa"} : Starts(w, "login", label)
      BY <2>2 DEF StartLogin
    <3>2. /\ given' \in [Workers -> Passwords] /\ code' \in [Workers -> Presented]
          /\ UNCHANGED <<count, list>> /\ "login" \in Operations
      BY <2>1, <2>2 DEF StartLogin, Operations
    <3> QED
      BY <1>4, <3>1, <3>2
  <2>3. ASSUME NEW kind \in {"verify", "disable"}, NEW c \in Presented, StartSecond(w, kind, c)
        PROVE  Goal
    <3>1. /\ given' \in [Workers -> Passwords] /\ code' \in [Workers -> Presented]
          /\ UNCHANGED <<count, list>> /\ kind \in Operations /\ Starts(w, kind, "mfa")
      BY <2>1, <2>3 DEF StartSecond, Operations
    <3> QED
      BY <1>4, <3>1
  <2>4. ASSUME NEW p \in Passwords, NEW new \in Passwords, StartChange(w, p, new) PROVE Goal
    <3>1. /\ given' \in [Workers -> Passwords] /\ code' \in [Workers -> Presented]
          /\ UNCHANGED <<count, list>> /\ "change" \in Operations
          /\ Starts(w, "change", "history")
      BY <2>1, <2>4 DEF StartChange, Operations
    <3> QED
      BY <1>4, <3>1
  <2>5. ASSUME NEW t \in Tokens, NEW new \in Passwords, StartReset(w, t, new) PROVE Goal
    <3>1. /\ given' \in [Workers -> Passwords] /\ code' \in [Workers -> Presented]
          /\ UNCHANGED <<count, list>> /\ "reset" \in Operations
          /\ Starts(w, "reset", "password")
      BY <2>1, <2>5 DEF StartReset, Operations
    <3> QED
      BY <1>4, <3>1
  <2> QED
    BY <1>16, <2>2, <2>3, <2>4, <2>5 DEF Starting
<1> QED
  BY <1>1, <1>2, <1>5, <1>6, <1>7, <1>8, <1>9, <1>10, <1>11, <1>12, <1>13, <1>14, <1>15, <1>16
     DEF Moves

\* The user's row, his sessions and the past keep their types, and the count of failures
\* follows the failures: it is never ahead of them.
LEMMA RowsStep ==
  ASSUME Control, NEW w \in Workers, Moves(w) \/ Starting(w) \/ SetupMFA(w)
  PROVE  /\ UserTypeOK' /\ SessionTypeOK' /\ PastTypeOK' /\ AttemptsJustified'
         /\ \A v \in Workers : v # w /\ pc[v] = "count" => streak <= streak'
<1> DEFINE Goal == /\ UserTypeOK' /\ SessionTypeOK' /\ PastTypeOK' /\ AttemptsJustified'
                   /\ \A v \in Workers : v # w /\ pc[v] = "count" => streak <= streak'
<1> SUFFICES Goal
  OBVIOUS
<1> USE DEF Control
<1>0. /\ TypeOK /\ Fit(w) /\ AttemptsJustified
      /\ given[w] \in Passwords /\ code[w] \in Presented /\ count[w] \in 0..MaxFailures
  BY DEF TypeOK, WorkerTypeOK
<1>1. ASSUME UNCHANGED <<attempts, locked, streak>>, UserTypeOK', SessionTypeOK', PastTypeOK'
      PROVE  Goal
  BY <1>0, <1>1 DEF AttemptsJustified, TypeOK, PastTypeOK
<1>2. CASE UNCHANGED <<userVars, sessionVars, pastVars>>
  BY <1>0, <1>1, <1>2 DEF TypeOK, UserTypeOK, SessionTypeOK, PastTypeOK, userVars, sessionVars,
     pastVars
<1>3. CASE IncrementLoginAttempts(w)
  <2> USE DEF IncrementLoginAttempts, TypeOK, UserTypeOK, SessionTypeOK, PastTypeOK
  <2>1. /\ count[w] < MaxFailures /\ count[w] <= streak /\ streak \in 0..MaxFailures
        /\ attempts' = count[w] + 1
        /\ streak' = IF streak < MaxFailures THEN streak + 1 ELSE streak
    BY <1>0, <1>3 DEF Fit
  <2>2. attempts' \in 0..MaxFailures /\ streak' \in 0..MaxFailures /\ attempts' <= streak' /\ streak <= streak'
    BY <1>0, <2>1
  <2>3. locked' \in BOOLEAN /\ (locked' => locked \/ attempts' >= Limit)
    BY <1>0, <1>3, <2>1
  <2>4. AttemptsJustified'
    BY <1>0, <2>1, <2>2, <2>3 DEF AttemptsJustified
  <2>5. UserTypeOK' /\ SessionTypeOK' /\ PastTypeOK'
    BY <1>0, <1>3, <2>2, <2>3 DEF sessionVars
  <2> QED
    BY <2>2, <2>4, <2>5
<1>4. CASE ResetLoginAttempts(w)
  <2> USE DEF ResetLoginAttempts, TypeOK, UserTypeOK, SessionTypeOK, PastTypeOK
  <2>1. /\ attempts' = 0 /\ locked' = FALSE
        /\ streak' \in {0, streak} /\ ((\E v \in Workers : pc[v] = "count") => streak' = streak)
    BY <1>0, <1>4
  <2>2. streak \in 0..MaxFailures /\ streak' \in 0..MaxFailures /\ 0 \in 0..MaxFailures
    BY <1>0, <2>1
  <2>3. AttemptsJustified'
    BY <2>1, <2>2 DEF AttemptsJustified
  <2>4. UserTypeOK' /\ SessionTypeOK' /\ PastTypeOK'
    BY <1>0, <1>4, <2>1, <2>2 DEF sessionVars
  <2>5. (\E v \in Workers : pc[v] = "count") => streak <= streak'
    BY <2>1, <2>2
  <2> QED
    BY <2>3, <2>4, <2>5
<1>5. ASSUME NEW s \in Sessions, CreateSession(w, s) PROVE Goal
  BY <1>0, <1>1, <1>5 DEF CreateSession, TypeOK, UserTypeOK, SessionTypeOK, PastTypeOK, userVars
<1>6. CASE SpendCode(w)
  <2>1. codes' \subseteq Presented /\ spent' \subseteq Presented /\ doubled' \in BOOLEAN
    BY <1>0, <1>6 DEF SpendCode, Fit, TypeOK, PastTypeOK, UserTypeOK
  <2> QED
    BY <1>0, <1>1, <1>6, <2>1 DEF SpendCode, TypeOK, UserTypeOK, SessionTypeOK, PastTypeOK,
       sessionVars
<1>7. CASE SetupMFA(w)
  <2>1. setups' \in 0..MaxSetups /\ codes' \subseteq Presented /\ issued' = codes' /\ spent' = {}
    BY <1>0, <1>7, IssuePresented DEF SetupMFA, TypeOK, UserTypeOK
  <2> QED
    BY <1>0, <1>1, <1>7, <2>1 DEF SetupMFA, TypeOK, UserTypeOK, SessionTypeOK, PastTypeOK,
       sessionVars
<1>8. CASE DisableMFA(w)
  BY <1>0, <1>1, <1>8 DEF DisableMFA, TypeOK, UserTypeOK, SessionTypeOK, PastTypeOK, sessionVars
<1>9. CASE UpdatePassword(w)
  <2>1. hash' \in [of : Passwords, times : 1..2]
    BY <1>0, <1>9 DEF UpdatePassword
  <2> QED
    BY <1>0, <1>1, <1>9, <2>1 DEF UpdatePassword, TypeOK, UserTypeOK, SessionTypeOK, PastTypeOK,
       sessionVars, pastVars
<1>10. CASE WriteHistory(w)
  BY <1>0, <1>1, <1>10 DEF WriteHistory, Fit, TypeOK, UserTypeOK, SessionTypeOK, PastTypeOK,
     sessionVars, pastVars
<1>11. ASSUME NEW S, End(S), UNCHANGED <<userVars, resetToken, issued, spent, doubled, streak, cut>>
       PROVE  Goal
  BY <1>0, <1>1, <1>11 DEF End, TypeOK, UserTypeOK, SessionTypeOK, PastTypeOK, userVars
<1>12. ASSUME SweepSessions(w) \/ \E s \in list[w] : EndOne(w, s)
       PROVE  (\E S : End(S)) /\ UNCHANGED <<userVars, resetToken, issued, spent, doubled, streak, cut>>
  BY <1>12 DEF SweepSessions, EndOne
<1>13. CASE DeleteToken(w)
  BY <1>0, <1>1, <1>13 DEF DeleteToken, TypeOK, UserTypeOK, SessionTypeOK, PastTypeOK, userVars,
     pastVars
<1>14. CASE Die(w)
  BY <1>0, <1>1, <1>14 DEF Die, TypeOK, UserTypeOK, SessionTypeOK, PastTypeOK, userVars,
     sessionVars
<1>15. ASSUME \/ ReadAttempts(w) \/ GiveUp(w) \/ GoOn(w, "mfa", "codes")
              \/ GoOn(w, "codes", Accepted(w)) \/ FindCode(w) \/ GoOn(w, "history", "password")
              \/ ReadHistory(w) \/ ListSessions(w) \/ EndOfList(w) \/ Starting(w)
       PROVE  UNCHANGED <<userVars, sessionVars, pastVars>>
  BY <1>15 DEF ReadAttempts, GiveUp, GoOn, FindCode, ReadHistory, ListSessions, EndOfList,
     Starting, StartLogin, StartSecond, StartChange, StartReset
<1> HIDE DEF Goal
<1> QED
  BY <1>2, <1>3, <1>4, <1>5, <1>6, <1>7, <1>8, <1>9, <1>10, <1>11, <1>12, <1>13, <1>14, <1>15
     DEF Moves

\* Control holds at first.
LEMMA ControlInit == Init => Control
<1> SUFFICES ASSUME Init PROVE Control
  OBVIOUS
<1> USE DEF Init
<1>1. 0 \in 0..MaxFailures /\ 0 \in 0..MaxSetups /\ 0 \in 0..MaxFaults /\ NoCode \in Presented
  BY DEF Presented
<1>2. UserTypeOK /\ SessionTypeOK /\ PastTypeOK
  <2>1. hash \in [of : Passwords, times : 1..2]
    OBVIOUS
  <2>2. UserTypeOK
    BY <1>1, <2>1 DEF UserTypeOK
  <2>3. SessionTypeOK /\ PastTypeOK
    BY <1>1 DEF SessionTypeOK, PastTypeOK
  <2> QED
    BY <2>2, <2>3
<1>3. WorkerTypeOK
  BY <1>1 DEF WorkerTypeOK, Labels, Operations
<1>4. AttemptsJustified /\ \A w \in Workers : Fit(w)
  BY DEF AttemptsJustified, Fit
<1> QED
  BY <1>1, <1>2, <1>3, <1>4 DEF Control, TypeOK

\* Control is inductive.
LEMMA ControlStep == Control /\ [Next]_vars => Control'
<1> SUFFICES ASSUME Control, [Next]_vars PROVE Control'
  OBVIOUS
<1>0. TypeOK /\ AttemptsJustified /\ \A w \in Workers : Fit(w)
  BY DEF Control
<1>1. ASSUME NEW w \in Workers, Moves(w) \/ Starting(w) PROVE Control'
  <2>1. /\ UserTypeOK' /\ SessionTypeOK' /\ PastTypeOK' /\ AttemptsJustified'
        /\ \A v \in Workers : v # w /\ pc[v] = "count" => streak <= streak'
    BY <1>1, RowsStep
  <2>2. WorkerTypeOK' /\ Alone(w) /\ Fit(w)'
    BY <1>1, WorkerFit
  <2>3. ASSUME NEW v \in Workers, v # w PROVE Fit(v)'
    <3>1. pc[v] = "count" => count[v] <= streak'
      <4>1. streak \in Int /\ streak' \in Int /\ count[v] \in Int
        BY <1>0, <2>1 DEF TypeOK, PastTypeOK, WorkerTypeOK
      <4> QED
        BY <1>0, <2>1, <2>3, <4>1 DEF Fit
    <3> QED
      BY <1>0, <2>2, <2>3, <3>1 DEF Alone, Fit
  <2>4. mix' = mix /\ faults' \in 0..MaxFaults
    <3>1. ASSUME Die(w) PROVE mix' = mix /\ faults' \in 0..MaxFaults
      BY <1>0, <3>1 DEF Die, TypeOK
    <3>2. ASSUME ~Die(w) PROVE UNCHANGED <<mix, faults>>
      BY <1>1, <3>2 DEF Moves, Starting, ReadAttempts, IncrementLoginAttempts,
         ResetLoginAttempts, CreateSession, GiveUp, GoOn, FindCode, SpendCode, DisableMFA,
         UpdatePassword, ReadHistory, WriteHistory, ListSessions, EndOfList, EndOne,
         DeleteToken, SweepSessions, StartLogin, StartSecond, StartChange, StartReset
    <3> QED
      BY <1>0, <3>1, <3>2 DEF TypeOK
  <2> QED
    BY <1>0, <2>1, <2>2, <2>3, <2>4 DEF Control, TypeOK
<1>2. ASSUME UNCHANGED <<mix, faults, pc, localVars, streak>>, UserTypeOK', SessionTypeOK',
             PastTypeOK', AttemptsJustified'
      PROVE  Control'
  BY <1>0, <1>2 DEF Control, TypeOK, WorkerTypeOK, Fit, localVars
<1>3. ASSUME NEW w \in Workers, SetupMFA(w) PROVE Control'
  <2>1. UNCHANGED <<mix, faults, pc, localVars, streak>>
    BY <1>3 DEF SetupMFA
  <2> QED
    BY <1>2, <1>3, <2>1, RowsStep
<1>4. ASSUME NEW S, End(S), UNCHANGED <<mix, faults, pc, localVars>>,
             UNCHANGED <<userVars, resetToken, issued, spent, doubled, streak, cut>>
      PROVE  Control'
  BY <1>0, <1>2, <1>4 DEF End, AttemptsJustified, TypeOK, UserTypeOK, SessionTypeOK, PastTypeOK,
     userVars
<1>5. ASSUME LogoutAll \/ \E s \in Sessions : Refresh(s)
      PROVE  /\ \E S : End(S)
             /\ UNCHANGED <<mix, faults, pc, localVars>>
             /\ UNCHANGED <<userVars, resetToken, issued, spent, doubled, streak, cut>>
  BY <1>5 DEF LogoutAll, Refresh
<1>6. CASE LockExpires
  <2>1. UserTypeOK' /\ SessionTypeOK' /\ PastTypeOK' /\ AttemptsJustified'
    BY <1>0, <1>6 DEF LockExpires, TypeOK, UserTypeOK, SessionTypeOK, PastTypeOK, sessionVars,
       pastVars, AttemptsJustified
  <2> QED
    BY <1>2, <1>6, <2>1 DEF LockExpires, pastVars
<1>7. ASSUME NEW t \in Tokens, RequestReset(t) \/ TokenExpires(t) PROVE Control'
  <2>1. UserTypeOK' /\ SessionTypeOK' /\ PastTypeOK' /\ AttemptsJustified'
    BY <1>0, <1>7 DEF RequestReset, TokenExpires, TypeOK, UserTypeOK, SessionTypeOK, PastTypeOK,
       userVars, pastVars, AttemptsJustified
  <2> QED
    BY <1>2, <1>7, <2>1 DEF RequestReset, TokenExpires, pastVars
<1>8. CASE UNCHANGED vars
  BY <1>0, <1>8 DEF vars, userVars, sessionVars, localVars, pastVars, Control, TypeOK, UserTypeOK,
     SessionTypeOK, WorkerTypeOK, PastTypeOK, AttemptsJustified, Fit
<1> QED
  BY <1>1, <1>3, <1>4, <1>5, <1>6, <1>7, <1>8, Alternatives DEF Elsewhere

\* The variables keep their types, for every instance of AuthSessions.
THEOREM TypeCorrect == Spec => []TypeOK
<1>1. Control => TypeOK
  BY DEF Control
<1> QED
  BY <1>1, ControlInit, ControlStep, PTL DEF Spec

\* An account is never locked for failures it has not seen, however the requests that
\* raise and reset the count interleave (incrementLoginAttempts, resetLoginAttempts).
THEOREM LockIsJustified == Spec => []AttemptsJustified
<1>1. Control => AttemptsJustified
  BY DEF Control
<1> QED
  BY <1>1, ControlInit, ControlStep, PTL DEF Spec

-----------------------------------------------------------------------------
(***************************************************************************)
(* The backup codes.                                                       *)
(***************************************************************************)
\* A write from a list that is current takes away just the code that was accepted.
LEMMA CodesStep == Control /\ CodesAccounted /\ [Next]_vars => CodesAccounted'
<1> SUFFICES ASSUME Control, CodesAccounted, [Next]_vars PROVE CodesAccounted'
  OBVIOUS
<1>1. CASE UNCHANGED <<codes, issued, spent, doubled>>
  BY <1>1 DEF CodesAccounted
<1>2. ASSUME NEW w \in Workers, SpendCode(w) PROVE CodesAccounted'
  BY <1>2 DEF SpendCode, CodesAccounted, Control, TypeOK, PastTypeOK
<1>3. ASSUME NEW w \in Workers, SetupMFA(w) PROVE CodesAccounted'
  BY <1>3 DEF SetupMFA, CodesAccounted
<1>4. ASSUME NEW w \in Workers, DisableMFA(w) PROVE CodesAccounted'
  BY <1>4 DEF DisableMFA, CodesAccounted
<1>5. ASSUME NEW w \in Workers, Moves(w) \/ Starting(w), ~SpendCode(w), ~DisableMFA(w)
      PROVE  UNCHANGED <<codes, issued, spent, doubled>>
  BY <1>5 DEF Moves, Starting, ReadAttempts, IncrementLoginAttempts, ResetLoginAttempts,
     CreateSession, GiveUp, GoOn, FindCode, UpdatePassword, ReadHistory, WriteHistory,
     ListSessions, EndOfList, EndOne, DeleteToken, SweepSessions, Die, StartLogin, StartSecond,
     StartChange, StartReset, userVars, pastVars
<1>6. ASSUME Elsewhere \/ UNCHANGED vars PROVE UNCHANGED <<codes, issued, spent, doubled>>
  BY <1>6 DEF Elsewhere, RequestReset, TokenExpires, Refresh, LogoutAll, LockExpires, vars,
     userVars, pastVars
<1> QED
  BY <1>1, <1>2, <1>3, <1>4, <1>5, <1>6, Alternatives

\* The backup codes stored are those of the last setup without those accepted since,
\* unless two requests wrote the column from one read (setupMFA, verifyBackupCode,
\* disableMFA).
THEOREM CodesAreAccounted == Spec => []CodesAccounted
<1>1. Init => CodesAccounted
  BY DEF Init, CodesAccounted
<1> QED
  BY <1>1, ControlInit, ControlStep, CodesStep, PTL DEF Spec

-----------------------------------------------------------------------------
(***************************************************************************)
(* The sessions of a replaced password.                                    *)
(***************************************************************************)
\* A session that is active after a step was active before with the same past, or is of a
\* login that has just compared its password or came late.
LEMMA SessionKept ==
  ASSUME Control, [Next]_vars, NEW s \in active', ~Matches(opened[s])', s \notin late'
  PROVE  s \in active /\ opened'[s] = opened[s] /\ s \notin late
<1>0. TypeOK
  BY DEF Control
<1>1. CASE UNCHANGED <<active, opened, late>>
  BY <1>1
<1>2. ASSUME NEW S, End(S) PROVE s \in active /\ opened'[s] = opened[s] /\ s \notin late
  BY <1>0, <1>2 DEF End, TypeOK, SessionTypeOK
<1>3. ASSUME NEW w \in Workers, NEW x \in Sessions, CreateSession(w, x)
      PROVE  s \in active /\ opened'[s] = opened[s] /\ s \notin late
  <2>1. CASE s = x
    <3>1. opened'[s] = given[w] /\ hash' = hash
      BY <1>0, <1>3, <2>1 DEF CreateSession, TypeOK, PastTypeOK, userVars
    <3>2. ~Matches(given[w])
      BY <3>1 DEF Matches
    <3> QED
      BY <1>3, <2>1, <3>2 DEF CreateSession
  <2>2. CASE s # x
    <3>1. late \subseteq late'
      BY <1>3 DEF CreateSession
    <3> QED
      BY <1>0, <1>3, <2>2, <3>1 DEF CreateSession, TypeOK, PastTypeOK
  <2> QED
    BY <2>1, <2>2
<1>4. ASSUME NEW w \in Workers, SweepSessions(w) \/ \E x \in list[w] : EndOne(w, x)
      PROVE  \E S : End(S)
  BY <1>4 DEF SweepSessions, EndOne
<1>5. ASSUME NEW w \in Workers,
             \/ ReadAttempts(w) \/ IncrementLoginAttempts(w) \/ ResetLoginAttempts(w) \/ GiveUp(w)
             \/ GoOn(w, "mfa", "codes") \/ GoOn(w, "codes", Accepted(w)) \/ FindCode(w)
             \/ GoOn(w, "history", "password") \/ SpendCode(w) \/ DisableMFA(w)
             \/ UpdatePassword(w) \/ ReadHistory(w) \/ WriteHistory(w) \/ ListSessions(w)
             \/ EndOfList(w) \/ DeleteToken(w) \/ Die(w) \/ Starting(w) \/ SetupMFA(w)
      PROVE  UNCHANGED <<active, opened, late>>
  BY <1>5 DEF ReadAttempts, IncrementLoginAttempts, ResetLoginAttempts, GiveUp, GoOn, FindCode,
     SpendCode, DisableMFA, UpdatePassword, ReadHistory, WriteHistory, ListSessions, EndOfList,
     DeleteToken, Die, Starting, StartLogin, StartSecond, StartChange, StartReset, SetupMFA,
     sessionVars, pastVars
<1>6. ASSUME LogoutAll \/ \E x \in Sessions : Refresh(x) PROVE \E S : End(S)
  BY <1>6 DEF LogoutAll, Refresh
<1>7. ASSUME \/ \E t \in Tokens : RequestReset(t) \/ TokenExpires(t)
             \/ LockExpires \/ UNCHANGED vars
      PROVE  UNCHANGED <<active, opened, late>>
  BY <1>7 DEF RequestReset, TokenExpires, LockExpires, vars, sessionVars, pastVars
<1> QED
  BY <1>1, <1>2, <1>3, <1>4, <1>5, <1>6, <1>7, Alternatives DEF Moves, Elsewhere

\* Only updatePassword changes what a password is compared with; a request that died
\* halfway is remembered.
LEMMA HashKept ==
  ASSUME Control, [Next]_vars
  PROVE  /\ UNCHANGED hash \/ \E w \in Workers : UpdatePassword(w)
         /\ cut => cut'
<1>1. ASSUME NEW w \in Workers, Moves(w) \/ Starting(w) \/ SetupMFA(w)
      PROVE  UNCHANGED hash \/ UpdatePassword(w)
  BY <1>1 DEF Moves, Starting, ReadAttempts, IncrementLoginAttempts, ResetLoginAttempts,
     CreateSession, GiveUp, GoOn, FindCode, SpendCode, DisableMFA, ReadHistory, WriteHistory,
     ListSessions, EndOfList, EndOne, DeleteToken, SweepSessions, Die, StartLogin, StartSecond,
     StartChange, StartReset, SetupMFA, userVars
<1>2. ASSUME Elsewhere \/ UNCHANGED vars PROVE UNCHANGED hash
  BY <1>2 DEF Elsewhere, RequestReset, TokenExpires, Refresh, LogoutAll, LockExpires, vars,
     userVars
<1>3. ASSUME NEW w \in Workers, Moves(w) \/ Starting(w) \/ SetupMFA(w)
      PROVE  UNCHANGED cut \/ Die(w)
  BY <1>3 DEF Moves, Starting, ReadAttempts, IncrementLoginAttempts, ResetLoginAttempts,
     CreateSession, GiveUp, GoOn, FindCode, SpendCode, DisableMFA, ReadHistory, WriteHistory,
     ListSessions, EndOfList, EndOne, DeleteToken, SweepSessions, UpdatePassword, StartLogin,
     StartSecond, StartChange, StartReset, SetupMFA, pastVars
<1>4. ASSUME NEW w \in Workers, Die(w) PROVE cut => cut'
  BY <1>4 DEF Die
<1>5. ASSUME Elsewhere \/ UNCHANGED vars PROVE UNCHANGED cut
  BY <1>5 DEF Elsewhere, RequestReset, TokenExpires, Refresh, LogoutAll, LockExpires, vars,
     pastVars
<1> QED
  BY <1>1, <1>2, <1>3, <1>4, <1>5, Alternatives

\* A request that is to end a session ends it, goes on to end it, or dies.
LEMMA EnderKept ==
  ASSUME Control, [Next]_vars, ~cut', NEW w \in Workers, NEW s \in Sessions, Ends(w, s),
         s \in active'
  PROVE  Ends(w, s)'
<1>0. TypeOK /\ s \in Sessions
  BY DEF Control
<1>1. ASSUME pc'[w] = pc[w], list'[w] = list[w] PROVE Ends(w, s)'
  BY <1>1 DEF Ends
<1>2. ASSUME NEW v \in Workers, v # w, Moves(v) \/ Starting(v) PROVE Ends(w, s)'
  BY <1>1, <1>2, WorkerFit DEF Alone
<1>3. ASSUME UNCHANGED <<pc, list>> PROVE Ends(w, s)'
  BY <1>1, <1>3
<1>4. ASSUME Elsewhere \/ UNCHANGED vars \/ \E v \in Workers : SetupMFA(v)
      PROVE  UNCHANGED <<pc, list>>
  BY <1>4 DEF Elsewhere, RequestReset, TokenExpires, Refresh, LogoutAll, LockExpires, SetupMFA,
     vars, localVars
<1>5. ASSUME Moves(w) PROVE Ends(w, s)'
  <2>1. pc[w] \in {"remember", "write", "list", "token", "sweep", "deactivate"}
    BY DEF Ends
  <2>2. CASE ReadHistory(w) \/ WriteHistory(w) \/ DeleteToken(w)
    BY <1>0, <2>2 DEF ReadHistory, WriteHistory, DeleteToken, Goto, TypeOK, WorkerTypeOK, Ends
  <2>3. CASE ListSessions(w)
    <3>1. s \in active
      BY <2>3 DEF ListSessions, sessionVars
    <3> QED
      BY <1>0, <2>3, <3>1 DEF ListSessions, Goto, TypeOK, WorkerTypeOK, Ends
  <2>4. ASSUME NEW x \in list[w], EndOne(w, x) PROVE Ends(w, s)'
    <3>1. s # x
      BY <2>4 DEF EndOne, End
    <3>2. pc'[w] = "deactivate" /\ list'[w] = list[w] \ {x} /\ s \in list[w]
      BY <1>0, <2>4 DEF EndOne, TypeOK, WorkerTypeOK, Ends
    <3> QED
      BY <3>1, <3>2 DEF Ends
  <2>5. CASE EndOfList(w)
    BY <2>5 DEF EndOfList, Ends
  <2>6. CASE SweepSessions(w)
    BY <2>6 DEF SweepSessions, End
  <2>7. CASE Die(w)
    BY <2>1, <2>7 DEF Die
  <2>8. ASSUME \/ ReadAttempts(w) \/ IncrementLoginAttempts(w) \/ ResetLoginAttempts(w)
               \/ (\E x \in Sessions : CreateSession(w, x))
               \/ GiveUp(w) \/ GoOn(w, "mfa", "codes") \/ GoOn(w, "codes", Accepted(w))
               \/ FindCode(w) \/ GoOn(w, "history", "password") \/ SpendCode(w) \/ DisableMFA(w)
               \/ UpdatePassword(w)
        PROVE  FALSE
    BY <2>1, <2>8 DEF ReadAttempts, IncrementLoginAttempts, ResetLoginAttempts, CreateSession,
       GiveUp, GoOn, FindCode, SpendCode, DisableMFA, UpdatePassword
  <2> QED
    BY <1>5, <2>2, <2>3, <2>4, <2>5, <2>6, <2>7, <2>8, Zenon DEF Moves
<1>6. ASSUME Starting(w) PROVE FALSE
  BY <1>6 DEF Starting, StartLogin, StartSecond, StartChange, StartReset, Starts, Ends
<1> QED
  BY <1>2, <1>3, <1>4, <1>5, <1>6, Alternatives

\* Every session of a replaced password has a request that will end it.
LEMMA FollowedStep == Control /\ Followed /\ [Next]_vars => Followed'
<1> SUFFICES ASSUME Control, Followed, [Next]_vars, ~cut', NEW s \in active',
                    ~Matches(opened[s])', s \notin late'
             PROVE  \E w \in Workers : Ends(w, s)'
  BY DEF Followed
<1>1. s \in active /\ opened'[s] = opened[s] /\ s \notin late
  BY SessionKept
<1>2. s \in Sessions
  BY <1>1 DEF Control, TypeOK, SessionTypeOK
<1>3. ~cut
  BY HashKept
<1>4. CASE UNCHANGED hash
  <2>1. ~Matches(opened[s])
    BY <1>1, <1>4 DEF Matches
  <2>2. PICK w \in Workers : Ends(w, s)
    BY <1>1, <1>3, <2>1 DEF Followed
  <2> QED
    BY <1>2, <2>2, EnderKept
<1>5. ASSUME NEW w \in Workers, UpdatePassword(w) PROVE Ends(w, s)'
  BY <1>5 DEF UpdatePassword, Goto, Ends, Control, TypeOK, WorkerTypeOK
<1> QED
  BY <1>4, <1>5, HashKept

\* A session of a replaced password is active only while the request that replaced it
\* runs, if that request died, or if the login came late, for every interleaving of
\* logins, changes, resets and logouts (changePassword, resetPassword).
THEOREM SessionsFollow == Spec => []SessionsFollowPassword
<1>1. Init => Followed
  BY DEF Init, Followed
<1>2. Followed => SessionsFollowPassword
  BY DEF Followed, SessionsFollowPassword, Matches, Ends, Replacing
<1> QED
  BY <1>1, <1>2, ControlInit, ControlStep, FollowedStep, PTL DEF Spec
=============================================================================
