------------------------ MODULE IntegrationSync_proofs ------------------------
(***************************************************************************)
(* Theorems about IntegrationSync, for every set of workers, accounts and  *)
(* kinds of operation, and every number of rotations and faults.           *)
(***************************************************************************)
EXTENDS IntegrationSync, TLAPS

USE SyncAssumption

\* Labels at which the row of the account is known to exist: it was read, or written.
Known == Labels \ {"free", "find", "insert", "next", "read", "due", "lookUp", "replace"}

\* What a worker is at goes with its operation, its account and the row of it.
Fit(w) ==
    /\ pc[w] \notin {"free", "due"} => w \in Workers
    /\ pc[w] \notin {"free", "due", "next"} => arg[w] \in Accounts
    /\ pc[w] \in {"token", "expire"} => op[w] \in {"pass", "test", "disconnect"}
    /\ pc[w] \in (Syncing \cup {"next"}) \ {"token", "expire"} => op[w] = "pass"
    /\ pc[w] \in Known => status[arg[w]] # "absent"

Control == TypeOK /\ \A w \in Procs : Fit(w)

\* A sync between its mark and its outcome.
Marked(v, a) == InSync(v, a) /\ pc[v] \in {"token", "expire", "provider", "idle"}

\* One sync of an account runs at a time, and the row says what it does.
Truthful ==
    \A a \in Accounts \ crossed :
        /\ \A u, v \in Procs : InSync(u, a) /\ InSync(v, a) => u = v
        /\ ~deleted[a] =>
              /\ \A v \in Procs : Marked(v, a) => syncStatus[a] = "syncing"
              /\ syncStatus[a] = "syncing" =>
                    \/ \E v \in Procs : InSync(v, a) /\ (Marked(v, a) \/ pc[v] = "failed")
                    \/ a \in cutoff

\* A refresh between its read and its write.
Refreshing(v, a) == pc[v] \in {"exchange", "update"} /\ arg[v] = a

\* One refresh of an account runs at a time, with the row's token or the one it was given.
TokenHeld ==
    \A a \in Accounts \ (cutoff \cup doubled) :
        /\ \A u, v \in Procs : Refreshing(u, a) /\ Refreshing(v, a) => u = v
        /\ \A v \in Procs : pc[v] = "update" /\ arg[v] = a => token[v] = accepted[a]
        /\ ~deleted[a] =>
              \/ refreshToken[a] = accepted[a]
              \/ \E v \in Procs : pc[v] = "update" /\ arg[v] = a

\* What getAccessToken has seen is still so when it writes.
ExpirySeen ==
    \A a \in Accounts \ late :
        /\ \A v \in Procs : pc[v] = "expire" /\ arg[v] = a => expired[a]
        /\ status[a] = "expired" => expired[a]

\* The settings an update has read are those of the row, and no row has none.
SettingsSeen ==
    /\ \A a \in Accounts \ raced :
          \A v \in Procs : pc[v] = "write" /\ arg[v] = a => seen[v] = settings[a]
    /\ \A a \in Accounts : status[a] = "absent" => settings[a] = {}

-----------------------------------------------------------------------------
(***************************************************************************)
(* The alternatives of the steps that branch.                              *)
(***************************************************************************)
\* A request or a pass is over, having changed nothing.
Over(w) ==
    /\ \/ pc[w] \in {"next", "find", "insert", "refresh", "exchange", "merge",
                     "lookUp"}
       \/ pc[w] = "token" /\ op[w] = "test"
    /\ Finish(w)
    /\ UNCHANGED <<mix, rowVars, queue, accepted, faults, historyVars>>

\* A worker goes on from what it has read.
Onward(w, from, label) ==
    /\ pc[w] = from
    /\ Goto(w, label)
    /\ UNCHANGED <<mix, rowVars, queue, accepted, op, arg, todo, token, seen, key, faults,
                   historyVars>>

Reads(w) ==
    LET a == arg[w] IN
    \/ Live(a) /\ Onward(w, "read", "mark")
    \/ Onward(w, "read", "next")
    \/ Live(a) /\ expired[a] /\ Onward(w, "token", "expire")
    \/ op[w] = "pass" /\ Onward(w, "token", "provider")
    \/ op[w] = "pass" /\ Onward(w, "token", "failed")
    \/ Onward(w, "provider", "idle")
    \/ Onward(w, "find", "insert")
    \/ Live(a) /\ Onward(w, "find", "remove")
    \/ Live(a) /\ op[w] = "disconnect" /\ Onward(w, "find", "token")
    \/ op[w] = "disconnect" /\ Onward(w, "token", "remove")
    \/ Onward(w, "lookUp", "replace")

\* A tick queues one account of its snapshot.
QueueOne(w, a) ==
    /\ pc[w] = "due" /\ a \in todo[w]
    /\ Enqueue(a)
    /\ \/ Finish(w)
       \/ todo' = [todo EXCEPT ![w] = @ \ {a}] /\ UNCHANGED <<pc, op, arg, token, seen, key>>
    /\ UNCHANGED <<mix, rowVars, accepted, faults, raced, doubled, late, cutoff>>

\* A pass takes up one account of its snapshot.
TakeUp(w, a) ==
    /\ pc[w] = "next" /\ a \in todo[w]
    /\ todo' = [todo EXCEPT ![w] = @ \ {a}]
    /\ arg'  = [arg EXCEPT ![w] = a]
    /\ Goto(w, "read")
    /\ crossed' = IF \E v \in Procs : InSync(v, a) THEN crossed \cup {a} ELSE crossed
    /\ UNCHANGED <<op, token, seen, key>>
    /\ UNCHANGED <<mix, rowVars, queue, accepted, faults, asked, raced, doubled, late, cutoff>>

\* A refresh reads the token it will send.
TakeToken(w) ==
    LET a == arg[w] IN
    /\ pc[w] = "refresh" /\ Live(a)
    /\ token' = [token EXCEPT ![w] = refreshToken[a]]
    /\ Goto(w, "exchange")
    /\ doubled' = IF \E v \in Procs : Refreshing(v, a) THEN doubled \cup {a} ELSE doubled
    /\ UNCHANGED <<op, arg, todo, seen, key>>
    /\ UNCHANGED <<mix, rowVars, queue, accepted, faults, asked, crossed, raced, late, cutoff>>

\* The provider takes the token and answers with a new one, or with the same.
Rotate(w) ==
    LET a == arg[w] IN
    /\ pc[w] = "exchange" /\ token[w] = accepted[a] /\ accepted[a] < MaxRotations
    /\ accepted' = [accepted EXCEPT ![a] = @ + 1]
    /\ token'    = [token EXCEPT ![w] = accepted[a] + 1]
    /\ Goto(w, "update")
    /\ UNCHANGED <<op, arg, todo, seen, key>>
    /\ UNCHANGED <<mix, rowVars, queue, faults, historyVars>>

Reuse(w) == token[w] = accepted[arg[w]] /\ Onward(w, "exchange", "update")

\* An update of the settings reads the row.
TakeSettings(w) ==
    LET a == arg[w] IN
    /\ pc[w] = "merge" /\ Live(a)
    /\ seen' = [seen EXCEPT ![w] = settings[a]]
    /\ Goto(w, "write")
    /\ UNCHANGED <<op, arg, todo, token, key>>
    /\ UNCHANGED <<mix, rowVars, queue, accepted, faults, historyVars>>

Moves(w) ==
    \/ Over(w) \/ Reads(w) \/ (\E a \in todo[w] : QueueOne(w, a) \/ TakeUp(w, a))
    \/ SyncMark(w) \/ MarkExpired(w) \/ SyncIdle(w) \/ StoreResult(w) \/ SyncFailed(w)
    \/ Dequeue(w) \/ CreateIntegration(w) \/ QueueNew(w) \/ SoftDelete(w) \/ TakeToken(w)
    \/ Rotate(w) \/ Reuse(w) \/ UpdateTokens(w) \/ StoreRegistration(w) \/ TakeSettings(w)
    \/ WriteSettings(w) \/ ReplaceSettings(w) \/ Die(w)

\* A request, a pass or a tick starts.
Starting(w) ==
    \/ w = Cron /\ StartTick
    \/ w \in Workers /\ StartPass(w)
    \/ /\ w \in Workers
       /\ \E a \in Accounts :
             \/ StartConnect(w, a) \/ StartDisconnect(w, a) \/ StartTest(w, a)
             \/ StartRefresh(w, a) \/ StartEvents(w, a)
             \/ \E k \in Keys : StartSettings(w, a, k)
             \/ \E ks \in {{EventsKey}, {EventsKey, MetadataKey}} : StartRegister(w, a, ks)

\* A sync is asked for, or time passes.
Elsewhere == \E a \in Accounts : RequestSync(a) \/ TokenExpires(a) \/ BecomesDue(a)

\* Every step is one of these.
LEMMA Alternatives ==
  ASSUME [Next]_vars
  PROVE  (\E w \in Procs : Moves(w) \/ Starting(w)) \/ Elsewhere \/ UNCHANGED vars
<1>1. ASSUME NEW w \in Procs, QueueDue(w) PROVE Moves(w)
  <2>1. PICK a \in todo[w] : QueueOne(w, a)
    BY <1>1, Zenon DEF QueueDue, QueueOne
  <2> QED
    BY <2>1 DEF Moves
<1>2. ASSUME NEW w \in Procs, NextSync(w) PROVE Moves(w)
  <2>1. CASE todo[w] = {}
    <3>1. Over(w)
      BY <1>2, <2>1 DEF NextSync, Over, historyVars
    <3> QED
      BY <3>1 DEF Moves
  <2>2. CASE todo[w] # {}
    <3>1. PICK a \in todo[w] : TakeUp(w, a)
      BY <1>2, <2>2, Zenon DEF NextSync, TakeUp
    <3> QED
      BY <3>1 DEF Moves
  <2> QED
    BY <2>1, <2>2
<1>3. ASSUME NEW w \in Procs, SyncRead(w) PROVE Moves(w)
  <2>1. Reads(w)
    BY <1>3 DEF SyncRead, Reads, Onward
  <2> QED
    BY <2>1 DEF Moves
<1>4. ASSUME NEW w \in Procs, GetAccessToken(w) PROVE Moves(w)
  <2>1. Reads(w) \/ Over(w)
    BY <1>4, Zenon DEF GetAccessToken, Reads, Onward, Over
  <2> QED
    BY <2>1 DEF Moves
<1>5. ASSUME NEW w \in Procs, ProviderSync(w) PROVE Moves(w)
  <2>1. Reads(w)
    BY <1>5 DEF ProviderSync, Reads, Onward
  <2> QED
    BY <2>1 DEF Moves
<1>6. ASSUME NEW w \in Procs, FindExisting(w) PROVE Moves(w)
  <2>1. Reads(w) \/ Over(w)
    BY <1>6, Zenon DEF FindExisting, Reads, Onward, Over
  <2> QED
    BY <2>1 DEF Moves
<1>7. ASSUME NEW w \in Procs, TestFails(w) \/ UniqueViolation(w) PROVE Moves(w)
  BY <1>7, Zenon DEF TestFails, UniqueViolation, Over, Moves
<1>8. ASSUME NEW w \in Procs, ReadRefreshToken(w) PROVE Moves(w)
  <2>1. TakeToken(w) \/ Over(w)
    BY <1>8 DEF ReadRefreshToken, TakeToken, Refreshing, Over, historyVars
  <2> QED
    BY <2>1 DEF Moves
<1>9. ASSUME NEW w \in Procs, Exchange(w) PROVE Moves(w)
  <2>1. Rotate(w) \/ Reuse(w) \/ Over(w)
    BY <1>9, Zenon DEF Exchange, Rotate, Reuse, Onward, Over
  <2> QED
    BY <2>1 DEF Moves
<1>10. ASSUME NEW w \in Procs, ReadSettings(w) PROVE Moves(w)
  <2>1. TakeSettings(w) \/ Over(w)
    BY <1>10 DEF ReadSettings, TakeSettings, Over
  <2> QED
    BY <2>1 DEF Moves
<1>16. ASSUME NEW w \in Procs, LookUp(w) PROVE Moves(w)
  <2>1. Reads(w) \/ Over(w)
    BY <1>16, Zenon DEF LookUp, Reads, Onward, Over
  <2> QED
    BY <2>1 DEF Moves
<1>11. ASSUME NEW w \in Procs, Step(w) PROVE Moves(w)
  BY <1>1, <1>2, <1>3, <1>4, <1>5, <1>6, <1>7, <1>8, <1>9, <1>10, <1>11, <1>16, Zenon
     DEF Step, Moves
<1>12. ASSUME NEW w \in Workers, NEW a \in Accounts,
              \/ StartConnect(w, a) \/ StartDisconnect(w, a) \/ StartTest(w, a)
              \/ StartRefresh(w, a) \/ StartEvents(w, a)
              \/ \E k \in Keys : StartSettings(w, a, k)
              \/ \E ks \in {{EventsKey}, {EventsKey, MetadataKey}} : StartRegister(w, a, ks)
       PROVE  w \in Procs /\ Starting(w)
  BY <1>12, Zenon DEF Starting, Procs
<1>13. ASSUME NEW w \in Workers, StartPass(w) PROVE w \in Procs /\ Starting(w)
  BY <1>13, Zenon DEF Starting, Procs
<1>14. ASSUME StartTick PROVE Cron \in Procs /\ Starting(Cron)
  BY <1>14, Zenon DEF Starting, Procs
<1>15. ASSUME NEW w \in Procs, Die(w) PROVE Moves(w)
  BY <1>15 DEF Moves
<1> QED
  BY <1>11, <1>12, <1>13, <1>14, <1>15, Zenon DEF Next, Elsewhere

-----------------------------------------------------------------------------
(***************************************************************************)
(* Control is inductive.                                                   *)
(***************************************************************************)
\* Nobody else moves.
Alone(w) ==
    \A v \in Procs \ {w} :
        /\ pc'[v] = pc[v] /\ op'[v] = op[v] /\ arg'[v] = arg[v]
        /\ token'[v] = token[v] /\ seen'[v] = seen[v]

\* A worker that is done is free again.
LEMMA FinishOK ==
  ASSUME TypeOK, NEW w \in Procs, Finish(w)
  PROVE  WorkerTypeOK' /\ Alone(w) /\ pc'[w] = "free"
<1>1. "free" \in Labels /\ 0 \in 0..MaxRotations
  BY DEF Labels
<1> QED
  BY <1>1 DEF TypeOK, WorkerTypeOK, Finish, Alone

\* A worker that goes on with what it carries.
LEMMA GotoOK ==
  ASSUME TypeOK, NEW w \in Procs, NEW label \in Labels, Goto(w, label),
         UNCHANGED <<op, arg, todo, token, seen, key>>
  PROVE  WorkerTypeOK' /\ Alone(w) /\ pc'[w] = label /\ op'[w] = op[w] /\ arg'[w] = arg[w]
  BY DEF TypeOK, WorkerTypeOK, Goto, Alone

\* A worker that starts.
LEMMA StartOK ==
  ASSUME TypeOK, NEW w \in Procs, NEW name \in Operations, NEW label \in Labels,
         NEW a \in Accounts \cup {NoAccount}, Start(w, name, label, a),
         todo' \in [Procs -> SUBSET Accounts], key' \in [Procs -> SUBSET Keys],
         UNCHANGED <<token, seen>>
  PROVE  WorkerTypeOK' /\ Alone(w) /\ pc'[w] = label /\ op'[w] = name /\ arg'[w] = a
<1>1. WorkerTypeOK'
  BY DEF TypeOK, WorkerTypeOK, Start, Goto
<1>2. Alone(w)
  BY DEF TypeOK, WorkerTypeOK, Start, Goto, Alone
<1> QED
  BY <1>1, <1>2 DEF TypeOK, WorkerTypeOK, Start, Goto

\* The rows, the queue and the history keep their types, and no row disappears.
LEMMA RowsStep ==
  ASSUME Control, NEW w \in Procs, Moves(w) \/ Starting(w)
  PROVE  /\ RowTypeOK' /\ HistoryTypeOK' /\ mix' \in Mixes /\ faults' \in 0..MaxFaults
         /\ \A a \in Accounts : status[a] # "absent" => status'[a] # "absent"
<1> DEFINE Goal == /\ RowTypeOK' /\ HistoryTypeOK' /\ mix' \in Mixes /\ faults' \in 0..MaxFaults
                   /\ \A a \in Accounts : status[a] # "absent" => status'[a] # "absent"
<1> SUFFICES Goal
  OBVIOUS
<1>0. TypeOK /\ Fit(w)
  BY DEF Control
<1>1. CASE UNCHANGED <<mix, rowVars, queue, accepted, faults, historyVars>>
  BY <1>0, <1>1 DEF TypeOK, RowTypeOK, HistoryTypeOK, rowVars, historyVars
<1>2. ASSUME RowTypeOK', HistoryTypeOK', UNCHANGED <<mix, status>>,
             faults' \in 0..MaxFaults
      PROVE  Goal
  BY <1>0, <1>2 DEF TypeOK
<1>3. ASSUME NEW a \in todo[w], QueueOne(w, a) \/ TakeUp(w, a) PROVE Goal
  <2>1. a \in Accounts
    BY <1>0 DEF TypeOK, WorkerTypeOK
  <2> QED
    BY <1>0, <1>2, <1>3, <2>1 DEF QueueOne, TakeUp, Enqueue, TypeOK, RowTypeOK, HistoryTypeOK,
       rowVars
<1>4. CASE SyncMark(w)
  BY <1>0, <1>2, <1>4 DEF SyncMark, SetSync, TypeOK, RowTypeOK, HistoryTypeOK, historyVars
<1>5. CASE SyncFailed(w)
  BY <1>0, <1>2, <1>5 DEF SyncFailed, SetSync, TypeOK, RowTypeOK, HistoryTypeOK, historyVars
<1>6. CASE SyncIdle(w)
  BY <1>0, <1>2, <1>6 DEF SyncIdle, SetSync, TypeOK, RowTypeOK, HistoryTypeOK, historyVars
<1>7. CASE MarkExpired(w)
  BY <1>0, <1>7 DEF MarkExpired, TypeOK, RowTypeOK, HistoryTypeOK, historyVars, Statuses
<1>8. CASE StoreResult(w)
  <2>1. arg[w] \in Accounts
    BY <1>0, <1>8 DEF StoreResult, Fit
  <2>2. faults' \in 0..MaxFaults
    BY <1>0, <1>8 DEF StoreResult, TypeOK
  <2> QED
    BY <1>0, <1>2, <1>8, <2>1, <2>2 DEF StoreResult, TypeOK, RowTypeOK, HistoryTypeOK, rowVars
<1>9. CASE Dequeue(w)
  BY <1>0, <1>2, <1>9 DEF Dequeue, TypeOK, RowTypeOK, HistoryTypeOK, rowVars
<1>10. CASE CreateIntegration(w)
  <2>1. PICK given \in Given : settings' = [settings EXCEPT ![arg[w]] = given]
    BY <1>10, Zenon DEF CreateIntegration
  <2>2. given \in SUBSET Keys
    OBVIOUS
  <2>3. settings' \in [Accounts -> SUBSET Keys]
    BY <1>0, <2>1, <2>2 DEF TypeOK, RowTypeOK
  <2> QED
    BY <1>0, <1>10, <2>3 DEF CreateIntegration, TypeOK, RowTypeOK, HistoryTypeOK, historyVars,
       Statuses
<1>11. CASE QueueNew(w)
  <2>1. arg[w] \in Accounts
    BY <1>0, <1>11 DEF QueueNew, Fit
  <2>2. faults' \in 0..MaxFaults
    BY <1>0, <1>11 DEF QueueNew, TypeOK
  <2> QED
    BY <1>0, <1>2, <1>11, <2>1, <2>2 DEF QueueNew, Enqueue, TypeOK, RowTypeOK, HistoryTypeOK,
       rowVars
<1>12. CASE SoftDelete(w)
  BY <1>0, <1>2, <1>12 DEF SoftDelete, TypeOK, RowTypeOK, HistoryTypeOK, historyVars
<1>13. CASE TakeToken(w)
  <2>1. arg[w] \in Accounts
    BY <1>0, <1>13 DEF TakeToken, Fit
  <2> QED
    BY <1>0, <1>2, <1>13, <2>1 DEF TakeToken, TypeOK, RowTypeOK, HistoryTypeOK, rowVars
<1>14. CASE Rotate(w)
  <2>1. arg[w] \in Accounts /\ accepted[arg[w]] + 1 \in 0..MaxRotations
    BY <1>0, <1>14 DEF Rotate, Fit, TypeOK, RowTypeOK
  <2>2. accepted' \in [Accounts -> 0..MaxRotations]
    BY <1>0, <1>14, <2>1 DEF Rotate, TypeOK, RowTypeOK
  <2> QED
    BY <1>0, <1>2, <1>14, <2>2 DEF Rotate, TypeOK, RowTypeOK, HistoryTypeOK, rowVars,
       historyVars
<1>15. CASE UpdateTokens(w)
  <2>1. arg[w] \in Accounts /\ token[w] \in 0..MaxRotations
    BY <1>0, <1>15 DEF UpdateTokens, Fit, TypeOK, WorkerTypeOK
  <2> QED
    BY <1>0, <1>15, <2>1 DEF UpdateTokens, TypeOK, RowTypeOK, HistoryTypeOK, Statuses
<1>16. CASE WriteSettings(w)
  <2>1. arg[w] \in Accounts /\ Merged(w) \in SUBSET Keys
    BY <1>0, <1>16 DEF WriteSettings, Merged, Fit, TypeOK, WorkerTypeOK
  <2>2. settings' \in [Accounts -> SUBSET Keys] /\ hooked' \in [Accounts -> BOOLEAN]
    BY <1>0, <1>16, <2>1 DEF WriteSettings, SetSettings, Live, TypeOK, RowTypeOK
  <2>3. raced' \in SUBSET Accounts
    BY <1>0, <1>16, <2>1 DEF WriteSettings, Race, TypeOK, HistoryTypeOK
  <2> QED
    BY <1>0, <1>2, <1>16, <2>2, <2>3 DEF WriteSettings, TypeOK, RowTypeOK, HistoryTypeOK
<1>19. CASE ReplaceSettings(w)
  <2>1. arg[w] \in Accounts
    BY <1>0, <1>19 DEF ReplaceSettings, Fit
  <2>2. settings' \in [Accounts -> SUBSET Keys]
    BY <1>0, <1>19, <2>1 DEF ReplaceSettings, SetSettings, TypeOK, RowTypeOK
  <2>3. raced' \in SUBSET Accounts
    BY <1>0, <1>19, <2>1 DEF ReplaceSettings, Race, TypeOK, HistoryTypeOK
  <2> QED
    BY <1>0, <1>2, <1>19, <2>2, <2>3 DEF ReplaceSettings, TypeOK, RowTypeOK, HistoryTypeOK
<1>20. CASE StoreRegistration(w)
  <2>1. arg[w] \in Accounts
    BY <1>0, <1>20 DEF StoreRegistration, Fit
  <2> QED
    BY <1>0, <1>2, <1>20, <2>1 DEF StoreRegistration, TypeOK, RowTypeOK, HistoryTypeOK,
       historyVars
<1>17. CASE Die(w)
  <2>1. faults' \in 0..MaxFaults
    BY <1>0, <1>17 DEF Die, TypeOK
  <2> QED
    BY <1>0, <1>2, <1>17, <2>1 DEF Die, TypeOK, RowTypeOK, HistoryTypeOK, rowVars
<1>18. ASSUME Over(w) \/ Reads(w) \/ Reuse(w) \/ TakeSettings(w) \/ Starting(w)
       PROVE  UNCHANGED <<mix, rowVars, queue, accepted, faults, historyVars>>
  BY <1>18 DEF Over, Reads, Onward, Reuse, TakeSettings, Starting, StartTick, StartPass,
     StartConnect, StartDisconnect, StartTest, StartRefresh, StartSettings, StartRegister,
     StartEvents
<1> HIDE DEF Goal
<1> QED
  BY <1>1, <1>3, <1>4, <1>5, <1>6, <1>7, <1>8, <1>9, <1>10, <1>11, <1>12, <1>13, <1>14, <1>15,
     <1>16, <1>17, <1>18, <1>19, <1>20, Zenon DEF Moves

\* A worker fits after its own step.
LEMMA WorkerFit ==
  ASSUME Control, NEW w \in Procs, Moves(w) \/ Starting(w)
  PROVE  WorkerTypeOK' /\ Alone(w) /\ Fit(w)'
<1> DEFINE Goal == WorkerTypeOK' /\ Alone(w) /\ Fit(w)'
<1> SUFFICES Goal
  OBVIOUS
<1>0. TypeOK /\ Fit(w)
  BY DEF Control
<1>a. \A a \in Accounts : status[a] # "absent" => status'[a] # "absent"
  BY RowsStep
<1>b. pc[w] \in Labels /\ status \in [Accounts -> Statuses]
  BY <1>0 DEF TypeOK, WorkerTypeOK, RowTypeOK
<1>1. CASE Finish(w)
  <2>1. WorkerTypeOK' /\ Alone(w) /\ pc'[w] = "free"
    BY <1>0, <1>1, FinishOK
  <2> QED
    BY <2>1 DEF Fit, Known, Syncing
<1>2. ASSUME NEW label \in Labels, WorkerTypeOK', Alone(w), pc'[w] = label, op'[w] = op[w],
             arg'[w] = arg[w], pc[w] \notin {"free", "due", "next"},
             label \in {"token", "expire"} => op[w] \in {"pass", "test", "disconnect"},
             label \in (Syncing \cup {"next"}) \ {"token", "expire"} => op[w] = "pass",
             label \in Known => pc[w] \in Known \/ status'[arg[w]] # "absent"
      PROVE  Goal
  <2>1. w \in Workers /\ arg[w] \in Accounts
    BY <1>0, <1>2 DEF Fit
  <2>2. label \in Known => status'[arg[w]] # "absent"
    BY <1>0, <1>a, <1>2, <2>1 DEF Fit
  <2>3. Fit(w)'
    BY <1>2, <2>1, <2>2 DEF Fit
  <2> QED
    BY <1>2, <2>3
<1>3. ASSUME NEW label \in Labels, Goto(w, label), UNCHANGED <<op, arg, todo, token, seen, key>>,
             pc[w] \notin {"free", "due", "next"},
             label \in {"token", "expire"} => op[w] \in {"pass", "test", "disconnect"},
             label \in (Syncing \cup {"next"}) \ {"token", "expire"} => op[w] = "pass",
             label \in Known => pc[w] \in Known \/ status'[arg[w]] # "absent"
      PROVE  Goal
  <2>1. WorkerTypeOK' /\ Alone(w) /\ pc'[w] = label /\ op'[w] = op[w] /\ arg'[w] = arg[w]
    BY <1>0, <1>3, GotoOK
  <2> QED
    BY <1>2, <1>3, <2>1
<1>4. ASSUME NEW name \in Operations, NEW label \in Labels, NEW a \in Accounts \cup {NoAccount},
             Start(w, name, label, a), todo' \in [Procs -> SUBSET Accounts],
             key' \in [Procs -> SUBSET Keys], UNCHANGED <<token, seen, status>>,
             label # "due" => w \in Workers,
             label \notin {"due", "next"} => a \in Accounts,
             label \in {"token", "expire"} => name \in {"pass", "test", "disconnect"},
             label \in (Syncing \cup {"next"}) \ {"token", "expire"} => name = "pass",
             label \in Known => status[a] # "absent"
      PROVE  Goal
  <2>1. WorkerTypeOK' /\ Alone(w) /\ pc'[w] = label /\ op'[w] = name /\ arg'[w] = a
    BY <1>0, <1>4, StartOK
  <2> QED
    BY <1>4, <2>1 DEF Fit
<1> HIDE DEF Goal
<1>5. CASE \/ Over(w) \/ QueueNew(w) \/ SoftDelete(w) \/ UpdateTokens(w) \/ WriteSettings(w)
           \/ ReplaceSettings(w) \/ Die(w)
  BY <1>1, <1>5, Zenon DEF Over, QueueNew, SoftDelete, UpdateTokens, WriteSettings,
     ReplaceSettings, Die
<1>6. CASE Reads(w)
  <2>1. UNCHANGED status
    BY <1>6 DEF Reads, Onward, rowVars
  <2> QED
    BY <1>0, <1>3, <1>6, <2>1 DEF Reads, Onward, Fit, Labels, Known, Syncing, Live
<1>7. ASSUME NEW a \in todo[w], QueueOne(w, a) PROVE Goal
  <2>1. CASE Finish(w)
    BY <1>1, <2>1
  <2>2. CASE todo' = [todo EXCEPT ![w] = @ \ {a}] /\ UNCHANGED <<pc, op, arg, token, seen, key>>
    <3>1. WorkerTypeOK' /\ Alone(w)
      BY <1>0, <2>2 DEF TypeOK, WorkerTypeOK, Alone
    <3>2. Fit(w)'
      BY <1>0, <1>7, <2>2 DEF QueueOne, Fit, Known, Syncing
    <3> QED
      BY <3>1, <3>2 DEF Goal
  <2> QED
    BY <1>7, <2>1, <2>2 DEF QueueOne
<1>8. ASSUME NEW a \in todo[w], TakeUp(w, a) PROVE Goal
  <2>1. a \in Accounts /\ "read" \in Labels
    BY <1>0 DEF TypeOK, WorkerTypeOK, Labels
  <2>2. WorkerTypeOK' /\ Alone(w) /\ pc'[w] = "read" /\ op'[w] = op[w] /\ arg'[w] = a
    BY <1>0, <1>8, <2>1 DEF TakeUp, Goto, TypeOK, WorkerTypeOK, Alone
  <2>3. Fit(w)'
    BY <1>0, <1>8, <2>1, <2>2 DEF TakeUp, Fit, Known, Syncing
  <2> QED
    BY <2>2, <2>3 DEF Goal
<1>9. CASE SyncMark(w) \/ SyncIdle(w) \/ StoreResult(w) \/ SyncFailed(w) \/ Dequeue(w) \/ Reuse(w)
  BY <1>0, <1>3, <1>9 DEF SyncMark, SyncIdle, StoreResult, SyncFailed, Dequeue, Reuse, Onward,
     Fit, Labels, Known, Syncing
<1>10. CASE MarkExpired(w)
  BY <1>0, <1>1, <1>3, <1>10 DEF MarkExpired, Fit, Labels, Known, Syncing
<1>16. CASE StoreRegistration(w)
  BY <1>0, <1>3, <1>16 DEF StoreRegistration, Fit, Labels, Known, Syncing
<1>11. CASE CreateIntegration(w)
  <2>1. arg[w] \in Accounts /\ status'[arg[w]] = "active"
    BY <1>0, <1>b, <1>11 DEF CreateIntegration, Fit
  <2>2. "queueNew" \in Labels \ (Syncing \cup {"next"})
    BY DEF Labels, Syncing
  <2> QED
    BY <1>0, <1>3, <1>11, <2>1, <2>2 DEF CreateIntegration, Syncing
<1>12. CASE TakeToken(w)
  <2>1. arg[w] \in Accounts /\ "exchange" \in Labels \ (Syncing \cup {"next"})
    BY <1>0, <1>12 DEF TakeToken, Fit, Labels, Syncing
  <2>2. /\ WorkerTypeOK' /\ Alone(w) /\ pc'[w] = "exchange" /\ op'[w] = op[w]
        /\ arg'[w] = arg[w]
    BY <1>0, <1>12, <2>1 DEF TakeToken, Goto, TypeOK, WorkerTypeOK, RowTypeOK, Alone
  <2> QED
    BY <1>2, <1>b, <1>12, <2>1, <2>2 DEF TakeToken, Known, Syncing
<1>13. CASE Rotate(w)
  <2>1. arg[w] \in Accounts /\ "update" \in Labels \ (Syncing \cup {"next"})
    BY <1>0, <1>13 DEF Rotate, Fit, Labels, Syncing
  <2>2. accepted[arg[w]] + 1 \in 0..MaxRotations
    BY <1>0, <1>13, <2>1 DEF Rotate, TypeOK, RowTypeOK
  <2>3. WorkerTypeOK' /\ Alone(w) /\ pc'[w] = "update" /\ op'[w] = op[w] /\ arg'[w] = arg[w]
    BY <1>0, <1>13, <2>1, <2>2 DEF Rotate, Goto, TypeOK, WorkerTypeOK, Alone
  <2> QED
    BY <1>2, <1>b, <1>13, <2>1, <2>3 DEF Rotate, Known, Syncing
<1>14. CASE TakeSettings(w)
  <2>1. arg[w] \in Accounts /\ "write" \in Labels \ (Syncing \cup {"next"})
    BY <1>0, <1>14 DEF TakeSettings, Fit, Labels, Syncing
  <2>2. WorkerTypeOK' /\ Alone(w) /\ pc'[w] = "write" /\ op'[w] = op[w] /\ arg'[w] = arg[w]
    BY <1>0, <1>14, <2>1 DEF TakeSettings, Goto, TypeOK, WorkerTypeOK, RowTypeOK, Alone
  <2> QED
    BY <1>2, <1>b, <1>14, <2>1, <2>2 DEF TakeSettings, Known, Syncing
<1>15. CASE Starting(w)
  <2>1. /\ todo \in [Procs -> SUBSET Accounts] /\ key \in [Procs -> SUBSET Keys]
        /\ queue \in SUBSET Accounts
    BY <1>0 DEF TypeOK, WorkerTypeOK, RowTypeOK
  <2>2. UNCHANGED <<token, seen, status>>
    BY <1>15 DEF Starting, StartTick, StartPass, StartConnect, StartDisconnect, StartTest,
       StartRefresh, StartSettings, StartRegister, StartEvents, rowVars
  <2>3. /\ {"connect", "disconnect", "test", "refresh", "settings", "register", "events",
            "pass", "tick"} = Operations
        /\ {"find", "refresh", "merge", "next", "due", "token", "addHook", "lookUp"}
              \subseteq Labels
    BY DEF Operations, Labels
  <2>4. CASE w = Cron /\ StartTick
    <3>1. todo' \in [Procs -> SUBSET Accounts]
      BY <2>1, <2>4 DEF StartTick
    <3> QED
      BY <1>4, <2>1, <2>2, <2>3, <2>4, <3>1 DEF StartTick, Known, Syncing
  <2>5. CASE w \in Workers /\ StartPass(w)
    <3>1. todo' \in [Procs -> SUBSET Accounts]
      BY <2>1, <2>5 DEF StartPass
    <3> QED
      BY <1>4, <2>1, <2>2, <2>3, <2>5, <3>1 DEF StartPass, Known, Syncing
  <2>6. ASSUME NEW a \in Accounts, w \in Workers,
               \/ StartConnect(w, a) \/ StartDisconnect(w, a) \/ StartTest(w, a)
               \/ StartRefresh(w, a) \/ StartEvents(w, a)
        PROVE  Goal
    BY <1>4, <2>1, <2>2, <2>3, <2>6 DEF StartConnect, StartDisconnect, StartTest, StartRefresh,
       StartEvents, Live, Known, Syncing
  <2>7. ASSUME NEW a \in Accounts, NEW k \in Keys, w \in Workers, StartSettings(w, a, k)
        PROVE  Goal
    <3>1. key' \in [Procs -> SUBSET Keys]
      BY <2>1, <2>7 DEF StartSettings
    <3> QED
      BY <1>4, <2>1, <2>2, <2>3, <2>7, <3>1 DEF StartSettings, Live, Known, Syncing
  <2>8. ASSUME NEW a \in Accounts, NEW ks \in {{EventsKey}, {EventsKey, MetadataKey}},
               w \in Workers, StartRegister(w, a, ks)
        PROVE  Goal
    <3>1. key' \in [Procs -> SUBSET Keys]
      BY <2>1, <2>8 DEF StartRegister
    <3> QED
      BY <1>4, <2>1, <2>2, <2>3, <2>8, <3>1 DEF StartRegister, Known, Syncing
  <2> QED
    BY <1>15, <2>4, <2>5, <2>6, <2>7, <2>8, Zenon DEF Starting
<1> QED
  BY <1>5, <1>6, <1>7, <1>8, <1>9, <1>10, <1>11, <1>12, <1>13, <1>14, <1>15, <1>16,
     Zenon DEF Moves

\* What happens elsewhere keeps the types, the workers and the status of every row.
LEMMA ElsewhereOK ==
  ASSUME Control, Elsewhere
  PROVE  /\ TypeOK'
         /\ UNCHANGED <<status, deleted, syncStatus, refreshToken, settings, accepted>>
         /\ UNCHANGED <<workerVars, raced, doubled, late, cutoff>>
<1>1. TypeOK
  BY DEF Control
<1>2. UNCHANGED <<status, deleted, syncStatus, refreshToken, settings, accepted>>
  BY DEF Elsewhere, RequestSync, TokenExpires, BecomesDue, rowVars
<1>3. UNCHANGED <<workerVars, mix, faults, raced, doubled, late, cutoff>>
  BY DEF Elsewhere, RequestSync, TokenExpires, BecomesDue, historyVars
<1>4. WorkerTypeOK'
  BY <1>1, <1>3 DEF TypeOK, WorkerTypeOK, workerVars
<1>5. RowTypeOK' /\ HistoryTypeOK'
  BY <1>1 DEF Elsewhere, RequestSync, Enqueue, TokenExpires, BecomesDue, TypeOK, RowTypeOK,
     HistoryTypeOK, rowVars, historyVars
<1> QED
  BY <1>1, <1>2, <1>3, <1>4, <1>5 DEF TypeOK

\* Control holds at first.
LEMMA ControlInit == Init => Control
<1> SUFFICES ASSUME Init PROVE Control
  OBVIOUS
<1>1. 0 \in 0..MaxRotations /\ 0 \in 0..MaxFaults
  OBVIOUS
<1>2. RowTypeOK
  BY <1>1 DEF Init, RowTypeOK, Statuses
<1>3. WorkerTypeOK
  BY <1>1 DEF Init, WorkerTypeOK, Labels
<1>4. HistoryTypeOK /\ mix \in Mixes
  BY DEF Init, HistoryTypeOK
<1>5. \A w \in Procs : Fit(w)
  BY DEF Init, Fit, Known, Syncing
<1>6. faults \in 0..MaxFaults
  BY <1>1 DEF Init
<1> QED
  BY <1>2, <1>3, <1>4, <1>5, <1>6 DEF Control, TypeOK

\* Control is inductive.
LEMMA ControlStep == Control /\ [Next]_vars => Control'
<1> SUFFICES ASSUME Control, [Next]_vars PROVE Control'
  OBVIOUS
<1>0. TypeOK /\ \A w \in Procs : Fit(w)
  BY DEF Control
<1>1. ASSUME NEW w \in Procs, Moves(w) \/ Starting(w) PROVE Control'
  <2>1. /\ RowTypeOK' /\ HistoryTypeOK' /\ mix' \in Mixes /\ faults' \in 0..MaxFaults
        /\ \A a \in Accounts : status[a] # "absent" => status'[a] # "absent"
    BY <1>1, RowsStep
  <2>2. WorkerTypeOK' /\ Alone(w) /\ Fit(w)'
    BY <1>1, WorkerFit
  <2>3. ASSUME NEW v \in Procs, v # w PROVE Fit(v)'
    <3>1. pc'[v] = pc[v] /\ op'[v] = op[v] /\ arg'[v] = arg[v] /\ Fit(v)
      BY <1>0, <2>2, <2>3 DEF Alone
    <3>2. pc[v] \in Known => arg[v] \in Accounts
      BY <3>1 DEF Fit, Known
    <3> QED
      BY <2>1, <3>1, <3>2 DEF Fit
  <2> QED
    BY <2>1, <2>2, <2>3 DEF Control, TypeOK
<1>2. CASE Elsewhere
  <2>1. TypeOK' /\ UNCHANGED <<status, pc, op, arg>>
    BY <1>2, ElsewhereOK DEF workerVars
  <2> QED
    BY <1>0, <2>1 DEF Control, Fit
<1>3. CASE UNCHANGED vars
  BY <1>0, <1>3 DEF vars, rowVars, workerVars, historyVars, Control, TypeOK, RowTypeOK,
     WorkerTypeOK, HistoryTypeOK, Fit
<1> QED
  BY <1>1, <1>2, <1>3, Alternatives

\* The variables keep their types, for every instance of IntegrationSync.
THEOREM TypeCorrect == Spec => []TypeOK
<1>1. Control => TypeOK
  BY DEF Control
<1> QED
  BY <1>1, ControlInit, ControlStep, PTL DEF Spec

-----------------------------------------------------------------------------
(***************************************************************************)
(* The queue.                                                              *)
(***************************************************************************)
\* A request leaves the queue only with what was asked for.
LEMMA RequestStep == Control /\ RequestKept /\ [Next]_vars => RequestKept'
<1> SUFFICES ASSUME Control, RequestKept, [Next]_vars PROVE RequestKept'
  OBVIOUS
<1>1. ASSUME NEW a, Enqueue(a) PROVE RequestKept'
  BY <1>1 DEF Enqueue, RequestKept
<1>2. CASE UNCHANGED <<queue, asked>> /\ crossed \subseteq crossed'
  BY <1>2 DEF RequestKept
<1>3. ASSUME NEW w \in Procs, Dequeue(w) PROVE RequestKept'
  BY <1>3 DEF Dequeue, RequestKept
<1>4. ASSUME NEW w \in Procs, QueueNew(w) PROVE RequestKept'
  <2>1. Enqueue(arg[w]) \/ (UNCHANGED <<queue, asked>> /\ crossed \subseteq crossed')
    BY <1>4 DEF QueueNew
  <2> QED
    BY <1>1, <1>2, <2>1
<1>5. ASSUME NEW w \in Procs, NEW a \in todo[w], QueueOne(w, a) \/ TakeUp(w, a)
      PROVE  Enqueue(a) \/ (UNCHANGED <<queue, asked>> /\ crossed \subseteq crossed')
  BY <1>5 DEF QueueOne, TakeUp
<1>6. ASSUME NEW w \in Procs,
             \/ Over(w) \/ Reads(w) \/ SyncMark(w) \/ MarkExpired(w) \/ SyncIdle(w)
             \/ StoreResult(w) \/ SyncFailed(w) \/ CreateIntegration(w) \/ SoftDelete(w)
             \/ TakeToken(w) \/ Rotate(w) \/ Reuse(w) \/ UpdateTokens(w) \/ TakeSettings(w)
             \/ WriteSettings(w) \/ ReplaceSettings(w) \/ StoreRegistration(w) \/ Die(w)
             \/ Starting(w)
      PROVE  UNCHANGED <<queue, asked>> /\ crossed \subseteq crossed'
  BY <1>6 DEF Over, Reads, Onward, SyncMark, MarkExpired, SyncIdle, StoreResult, SyncFailed,
     CreateIntegration, SoftDelete, TakeToken, Rotate, Reuse, UpdateTokens, TakeSettings,
     WriteSettings, ReplaceSettings, StoreRegistration, Die, Starting, StartTick, StartPass,
     StartConnect, StartDisconnect, StartTest, StartRefresh, StartSettings, StartRegister,
     StartEvents, historyVars
<1>7. ASSUME NEW a \in Accounts, RequestSync(a) \/ TokenExpires(a) \/ BecomesDue(a)
      PROVE  Enqueue(a) \/ (UNCHANGED <<queue, asked>> /\ crossed \subseteq crossed')
  BY <1>7 DEF RequestSync, TokenExpires, BecomesDue, historyVars
<1>8. CASE UNCHANGED vars
  BY <1>2, <1>8 DEF vars, historyVars
<1> QED
  BY <1>1, <1>2, <1>3, <1>4, <1>5, <1>6, <1>7, <1>8, Alternatives, Zenon DEF Moves, Elsewhere

\* A sync that was asked for is in the queue until one has ended well, unless syncs of
\* the account crossed (queueSync, processSyncQueue): whatever fails or dies in between.
THEOREM RequestsAreKept == Spec => []RequestKept
<1>1. Init => RequestKept
  BY DEF Init, RequestKept
<1> QED
  BY <1>1, ControlInit, ControlStep, RequestStep, PTL DEF Spec

-----------------------------------------------------------------------------
(***************************************************************************)
(* Where a step leads.                                                     *)
(***************************************************************************)
\* Which step brings a worker to a label where it holds what it has read.
LEMMA Arrives ==
  ASSUME Control, NEW w \in Procs, Moves(w) \/ Starting(w)
  PROVE  /\ pc'[w] = "expire" =>
              Live(arg[w]) /\ expired[arg[w]] /\ Onward(w, "token", "expire")
         /\ pc'[w] = "exchange" => TakeToken(w)
         /\ pc'[w] = "update" => Rotate(w) \/ Reuse(w)
         /\ pc'[w] = "write" => TakeSettings(w)
<1> DEFINE Holding == {"expire", "exchange", "update", "write"}
<1>0. pc \in [Procs -> Labels]
  BY DEF Control, TypeOK, WorkerTypeOK
<1>1. ASSUME \/ Over(w) \/ QueueNew(w) \/ SoftDelete(w) \/ UpdateTokens(w) \/ WriteSettings(w)
             \/ Die(w) \/ MarkExpired(w) \/ (\E a \in todo[w] : QueueOne(w, a) \/ TakeUp(w, a))
             \/ SyncMark(w) \/ SyncIdle(w) \/ StoreResult(w) \/ SyncFailed(w) \/ Dequeue(w)
             \/ CreateIntegration(w) \/ StoreRegistration(w) \/ ReplaceSettings(w)
      PROVE  pc'[w] \notin Holding
  <2>1. CASE Finish(w)
    BY <1>0, <2>1 DEF Finish
  <2>2. ASSUME NEW label \in Labels \ Holding, Goto(w, label) PROVE pc'[w] \notin Holding
    BY <1>0, <2>2 DEF Goto
  <2>3. CASE pc[w] = "due" /\ UNCHANGED pc
    BY <2>3
  <2>4. \/ Finish(w) \/ (\E label \in Labels \ Holding : Goto(w, label))
        \/ pc[w] = "due" /\ UNCHANGED pc
    BY <1>1 DEF Over, QueueNew, SoftDelete, UpdateTokens, WriteSettings, Die, MarkExpired,
       QueueOne, TakeUp, SyncMark, SyncIdle, StoreResult, SyncFailed, Dequeue,
       CreateIntegration, StoreRegistration, ReplaceSettings, Labels
  <2> QED
    BY <2>1, <2>2, <2>3, <2>4
<1>2. CASE Reads(w)
  BY <1>0, <1>2 DEF Reads, Onward, Goto
<1>3. ASSUME TakeToken(w) \/ Rotate(w) \/ Reuse(w) \/ TakeSettings(w)
      PROVE  /\ pc'[w] = "exchange" => TakeToken(w)
             /\ pc'[w] = "update" => Rotate(w) \/ Reuse(w)
             /\ pc'[w] = "write" => TakeSettings(w)
             /\ pc'[w] # "expire"
  BY <1>0, <1>3 DEF TakeToken, Rotate, Reuse, Onward, TakeSettings, Goto
<1>4. CASE Starting(w)
  BY <1>0, <1>4 DEF Starting, StartTick, StartPass, StartConnect, StartDisconnect, StartTest,
     StartRefresh, StartSettings, StartRegister, StartEvents, Start, Goto
<1> QED
  BY <1>1, <1>2, <1>3, <1>4 DEF Moves

-----------------------------------------------------------------------------
(***************************************************************************)
(* The settings.                                                           *)
(***************************************************************************)
\* A step that writes the settings, or reads them to write them back.
Touches(w) ==
    WriteSettings(w) \/ ReplaceSettings(w) \/ CreateIntegration(w) \/ TakeSettings(w)

\* Nobody else changes the settings, or comes to hold what it has read of them.
LEMMA SettingsFrame ==
  ASSUME Control, [Next]_vars
  PROVE  \/ \E w \in Procs : Touches(w)
         \/ /\ UNCHANGED <<settings, raced>>
            /\ \A a \in Accounts : status'[a] = "absent" => status[a] = "absent"
            /\ \A v \in Procs : pc'[v] = "write" =>
                    pc[v] = "write" /\ arg'[v] = arg[v] /\ seen'[v] = seen[v]
<1>1. ASSUME NEW w \in Procs, Moves(w) \/ Starting(w), ~Touches(w)
      PROVE  /\ UNCHANGED <<settings, raced>>
             /\ \A v \in Procs : pc'[v] = "write" =>
                    pc[v] = "write" /\ arg'[v] = arg[v] /\ seen'[v] = seen[v]
  <2>1. UNCHANGED <<settings, raced>>
    BY <1>1 DEF Touches, Moves, Over, Reads, Onward, QueueOne, TakeUp, SyncMark, MarkExpired,
       SyncIdle, StoreResult, SyncFailed, Dequeue, QueueNew, SoftDelete, TakeToken,
       Rotate, Reuse, UpdateTokens, StoreRegistration, Die, rowVars, historyVars, Starting,
       StartTick, StartPass, StartConnect, StartDisconnect, StartTest, StartRefresh,
       StartSettings, StartRegister, StartEvents
  <2>2. pc'[w] # "write"
    BY <1>1, Arrives DEF Touches
  <2> QED
    BY <1>1, <2>1, <2>2, WorkerFit DEF Alone
<1>2. ASSUME NEW w \in Procs, Moves(w) \/ Starting(w)
      PROVE  \A a \in Accounts : status'[a] = "absent" => status[a] = "absent"
  BY <1>2, RowsStep
<1>3. CASE Elsewhere
  BY <1>3, ElsewhereOK DEF workerVars
<1>4. CASE UNCHANGED vars
  BY <1>4 DEF vars, rowVars, workerVars, historyVars
<1> QED
  BY <1>1, <1>2, <1>3, <1>4, Alternatives

\* A key of an account is lost only to a race, to the handler that replaces them all, or,
\* webhook_metadata, to a registration without any.
Kept(a) ==
    \A k \in settings[a] \ settings'[a] :
       \E w \in Workers :
          /\ arg[w] = a /\ pc'[w] # pc[w]
          /\ \/ pc[w] = "replace"
             \/ pc[w] = "write" /\ op[w] = "register" /\ k = MetadataKey

\* What is written to one row reaches those that have read it only through raced.
LEMMA SettingsWritten ==
  ASSUME Control, SettingsSeen, NEW w \in Procs, NEW ks, SetSettings(arg[w], ks),
         Race(w, arg[w]), Alone(w), pc'[w] # "write", UNCHANGED <<status, deleted>>
  PROVE  SettingsSeen' /\ \A a \in Accounts : a # arg[w] => settings'[a] = settings[a]
<1>0. settings \in [Accounts -> SUBSET Keys]
  BY DEF Control, TypeOK, RowTypeOK
<1>1. \A a \in Accounts : a # arg[w] => settings'[a] = settings[a]
  BY <1>0 DEF SetSettings
<1>2. ASSUME NEW a \in Accounts \ raced', NEW v \in Procs, pc'[v] = "write", arg'[v] = a
      PROVE  seen'[v] = settings'[a]
  <2>1. v # w /\ pc[v] = "write" /\ arg[v] = a /\ seen'[v] = seen[v]
    BY <1>2 DEF Alone
  <2>2. a # arg[w] /\ a \notin raced
    BY <1>2, <2>1 DEF Race
  <2> QED
    BY <1>1, <1>2, <2>1, <2>2 DEF SettingsSeen
<1>3. ASSUME NEW a \in Accounts, status'[a] = "absent" PROVE settings'[a] = {}
  BY <1>3 DEF SetSettings, SettingsSeen, Live
<1> QED
  BY <1>1, <1>2, <1>3 DEF SettingsSeen

\* What an update has read stays the row's settings until another one writes.
LEMMA SettingsStep ==
  ASSUME Control, SettingsSeen, [Next]_vars
  PROVE  SettingsSeen' /\ \A a \in Accounts \ raced : Kept(a)
<1> DEFINE Goal == SettingsSeen' /\ \A a \in Accounts \ raced : Kept(a)
<1>0. TypeOK /\ \A w \in Procs : Fit(w)
  BY DEF Control
<1>a. ASSUME NEW w \in Procs, Touches(w) PROVE Alone(w)
  <2>1. Moves(w)
    BY <1>a DEF Touches, Moves
  <2> QED
    BY <2>1, WorkerFit
<1>1. ASSUME NEW w \in Procs, WriteSettings(w) PROVE Goal
  <2>1. Alone(w) /\ pc'[w] = "free" /\ pc[w] = "write" /\ w \in Workers
    BY <1>0, <1>1, <1>a, FinishOK DEF Touches, WriteSettings, Fit
  <2>2. SettingsSeen' /\ \A a \in Accounts : a # arg[w] => settings'[a] = settings[a]
    BY <1>1, <2>1, SettingsWritten DEF WriteSettings
  <2>3. ASSUME NEW a \in Accounts \ raced, a = arg[w] PROVE Kept(a)
    <3>1. seen[w] = settings[a]
      BY <2>1, <2>3 DEF SettingsSeen
    <3>2. settings'[a] \in {settings[a], Merged(w)}
      BY <1>0, <1>1, <2>3 DEF WriteSettings, SetSettings, TypeOK, RowTypeOK
    <3>3. ASSUME NEW k \in settings[a] \ settings'[a] PROVE op[w] = "register" /\ k = MetadataKey
      BY <3>1, <3>2, <3>3 DEF Merged
    <3> QED
      BY <2>1, <2>3, <3>3 DEF Kept
  <2> QED
    BY <2>2, <2>3 DEF Kept
<1>2. ASSUME NEW w \in Procs, ReplaceSettings(w) PROVE Goal
  <2>1. Alone(w) /\ pc'[w] = "free" /\ pc[w] = "replace" /\ w \in Workers
    BY <1>0, <1>2, <1>a, FinishOK DEF Touches, ReplaceSettings, Fit
  <2>2. SettingsSeen' /\ \A a \in Accounts : a # arg[w] => settings'[a] = settings[a]
    BY <1>2, <2>1, SettingsWritten DEF ReplaceSettings
  <2> QED
    BY <2>1, <2>2 DEF Kept
<1>3. ASSUME NEW w \in Procs, CreateIntegration(w) PROVE Goal
  <2>1. Alone(w) /\ arg[w] \in Accounts /\ status[arg[w]] = "absent"
    BY <1>0, <1>3, <1>a DEF Touches, CreateIntegration, Fit
  <2>2. pc'[w] = "queueNew" /\ UNCHANGED <<arg, raced>>
    BY <1>0, <1>3 DEF CreateIntegration, Goto, TypeOK, WorkerTypeOK, historyVars
  <2>3. \A a \in Accounts : a # arg[w] => settings'[a] = settings[a] /\ status'[a] = status[a]
    BY <1>0, <1>3 DEF CreateIntegration, TypeOK, RowTypeOK
  <2>4. status'[arg[w]] = "active" /\ settings[arg[w]] = {}
    BY <1>0, <1>3, <2>1 DEF CreateIntegration, TypeOK, RowTypeOK, SettingsSeen
  <2>5. ASSUME NEW v \in Procs, pc'[v] = "write"
        PROVE  pc[v] = "write" /\ arg'[v] = arg[v] /\ seen'[v] = seen[v] /\ arg[v] # arg[w]
    <3>1. v # w /\ pc[v] = "write" /\ arg'[v] = arg[v] /\ seen'[v] = seen[v]
      BY <2>1, <2>2, <2>5 DEF Alone
    <3>2. status[arg[v]] # "absent"
      BY <1>0, <3>1 DEF Fit, Known, Labels
    <3> QED
      BY <2>1, <3>1, <3>2
  <2>6. SettingsSeen'
    BY <2>2, <2>3, <2>4, <2>5 DEF SettingsSeen
  <2> QED
    BY <2>3, <2>4, <2>6 DEF Kept
<1>4. ASSUME NEW w \in Procs, TakeSettings(w) PROVE Goal
  <2>1. Alone(w)
    BY <1>4, <1>a DEF Touches
  <2>2. UNCHANGED <<settings, raced, status>>
    BY <1>4 DEF TakeSettings, rowVars, historyVars
  <2>3. arg'[w] = arg[w] /\ seen'[w] = settings[arg[w]]
    BY <1>0, <1>4 DEF TakeSettings, TypeOK, WorkerTypeOK
  <2> QED
    BY <2>1, <2>2, <2>3 DEF SettingsSeen, Alone, Kept
<1>5. ASSUME UNCHANGED <<settings, raced>>,
             \A a \in Accounts : status'[a] = "absent" => status[a] = "absent",
             \A v \in Procs : pc'[v] = "write" =>
                pc[v] = "write" /\ arg'[v] = arg[v] /\ seen'[v] = seen[v]
      PROVE  Goal
  BY <1>5 DEF SettingsSeen, Kept
<1> QED
  BY <1>1, <1>2, <1>3, <1>4, <1>5, SettingsFrame DEF Touches

\* updateSettings and registerWebhook, which read the column, merge and write it back,
\* lose no key they do not name unless two updates of the row crossed; updateWebhookEvents
\* loses them all.
THEOREM SettingsAreKept == Spec => MergesKeepSettings
<1>1. Init => SettingsSeen
  BY DEF Init, SettingsSeen
<1>2. Control /\ SettingsSeen /\ [Next]_vars => SettingsSeen'
  BY SettingsStep
<1>3. Control /\ SettingsSeen /\ [Next]_vars =>
        [\A a \in Accounts \ raced : \A k \in settings[a] \ settings'[a] :
            \E w \in Workers :
               /\ arg[w] = a /\ pc'[w] # pc[w]
               /\ \/ pc[w] = "replace"
                  \/ pc[w] = "write" /\ op[w] = "register" /\ k = MetadataKey]_vars
  BY SettingsStep DEF Kept
<1> QED
  BY <1>1, <1>2, <1>3, ControlInit, ControlStep, PTL DEF Spec, MergesKeepSettings

-----------------------------------------------------------------------------
(***************************************************************************)
(* The expiry of access tokens.                                            *)
(***************************************************************************)
\* A row is marked expired for what was read, and still is so unless a refresh came between.
LEMMA ExpiryStep == Control /\ ExpirySeen /\ [Next]_vars => ExpirySeen'
<1> SUFFICES ASSUME Control, ExpirySeen, [Next]_vars PROVE ExpirySeen'
  OBVIOUS
<1>0. TypeOK /\ \A w \in Procs : Fit(w)
  BY DEF Control
<1>1. ASSUME \A a \in Accounts : expired[a] => expired'[a],
             late \subseteq late',
             \A a \in Accounts : status'[a] = "expired" => status[a] = "expired" \/ expired[a],
             \A v \in Procs : pc'[v] = "expire" =>
                \/ pc[v] = "expire" /\ arg'[v] = arg[v]
                \/ arg'[v] \in Accounts /\ expired[arg'[v]]
      PROVE  ExpirySeen'
  BY <1>1 DEF ExpirySeen
<1>2. ASSUME NEW w \in Procs, Moves(w) \/ Starting(w), ~MarkExpired(w), ~UpdateTokens(w)
      PROVE  ExpirySeen'
  <2>1. UNCHANGED <<expired, late>>
    BY <1>2 DEF Moves, Over, Reads, Onward, QueueOne, TakeUp, SyncMark, SyncIdle,
       StoreResult, SyncFailed, Dequeue, CreateIntegration, QueueNew, SoftDelete, TakeToken,
       Rotate, Reuse, TakeSettings, WriteSettings, ReplaceSettings, StoreRegistration, Die,
       rowVars, historyVars, Starting, StartTick, StartPass, StartConnect, StartDisconnect,
       StartTest, StartRefresh, StartSettings, StartRegister, StartEvents
  <2>2. UNCHANGED status \/ CreateIntegration(w)
    BY <1>2 DEF Moves, Over, Reads, Onward, QueueOne, TakeUp, SyncMark, SyncIdle,
       StoreResult, SyncFailed, Dequeue, QueueNew, SoftDelete, TakeToken,
       Rotate, Reuse, TakeSettings, WriteSettings, ReplaceSettings, StoreRegistration, Die,
       rowVars, Starting, StartTick, StartPass, StartConnect, StartDisconnect, StartTest,
       StartRefresh, StartSettings, StartRegister, StartEvents
  <2>3. \A a \in Accounts : status'[a] = "expired" => status[a] = "expired"
    BY <1>0, <2>2 DEF CreateIntegration, TypeOK, RowTypeOK
  <2>4. pc'[w] = "expire" => arg'[w] \in Accounts /\ expired[arg'[w]]
    <3>1. pc'[w] = "expire" => arg' = arg /\ pc[w] = "token" /\ expired[arg[w]]
      BY <1>2, Arrives DEF Onward
    <3> QED
      BY <1>0, <3>1 DEF Fit
  <2> QED
    BY <1>1, <1>2, <2>1, <2>3, <2>4, WorkerFit DEF Alone
<1>3. ASSUME NEW w \in Procs, MarkExpired(w) PROVE ExpirySeen'
  <2>1. Moves(w) /\ arg[w] \in Accounts
    BY <1>0, <1>3 DEF Moves, MarkExpired, Fit
  <2>2. pc'[w] # "expire"
    BY <1>3, <2>1, Arrives DEF Onward, MarkExpired
  <2>3. \A v \in Procs : pc'[v] = "expire" => pc[v] = "expire" /\ arg'[v] = arg[v]
    BY <2>1, <2>2, WorkerFit DEF Alone
  <2>4. UNCHANGED <<expired, late>>
    BY <1>3 DEF MarkExpired, historyVars
  <2>5. \A a \in Accounts : a # arg[w] => status'[a] = status[a]
    BY <1>0, <1>3 DEF MarkExpired, TypeOK, RowTypeOK
  <2>6. arg[w] \notin late => expired[arg[w]]
    BY <1>3, <2>1 DEF MarkExpired, ExpirySeen
  <2> QED
    BY <2>3, <2>4, <2>5, <2>6 DEF ExpirySeen
<1>4. ASSUME NEW w \in Procs, UpdateTokens(w) PROVE ExpirySeen'
  <2>1. Moves(w) /\ arg[w] \in Accounts
    BY <1>0, <1>4 DEF Moves, UpdateTokens, Fit
  <2>2. pc'[w] # "expire"
    BY <1>4, <2>1, Arrives DEF Onward, UpdateTokens
  <2>3. \A v \in Procs : pc'[v] = "expire" => pc[v] = "expire" /\ arg'[v] = arg[v]
    BY <2>1, <2>2, WorkerFit DEF Alone
  <2>4. \A a \in Accounts : a # arg[w] => status'[a] = status[a] /\ expired'[a] = expired[a]
    BY <1>0, <1>4 DEF UpdateTokens, TypeOK, RowTypeOK
  <2>5. late \subseteq late'
    BY <1>4 DEF UpdateTokens
  <2>6. ASSUME arg[w] \notin late', NEW v \in Procs PROVE ~(pc[v] = "expire" /\ arg[v] = arg[w])
    BY <1>4, <2>6 DEF UpdateTokens
  <2>7. \/ status'[arg[w]] = "active"
        \/ status' = status /\ expired' = expired
    BY <1>0, <1>4, <2>1 DEF UpdateTokens, TypeOK, RowTypeOK
  <2> QED
    BY <2>3, <2>4, <2>5, <2>6, <2>7 DEF ExpirySeen
<1>5. CASE Elsewhere
  <2>1. UNCHANGED <<status, pc, arg, late>>
    BY <1>5, ElsewhereOK DEF workerVars
  <2>2. \A a \in Accounts : expired[a] => expired'[a]
    BY <1>0, <1>5 DEF Elsewhere, RequestSync, TokenExpires, BecomesDue, rowVars, TypeOK, RowTypeOK
  <2> QED
    BY <1>1, <2>1, <2>2
<1>6. CASE UNCHANGED vars
  BY <1>6 DEF vars, rowVars, workerVars, historyVars, ExpirySeen
<1> QED
  BY <1>2, <1>3, <1>4, <1>5, <1>6, Alternatives

\* A row whose access token is good is marked expired only when a refresh ended between
\* the read and the write of getAccessToken.
THEOREM ExpiredIsLate == Spec => []ExpiredNeedsLateWrite
<1>1. Init => ExpirySeen
  BY DEF Init, ExpirySeen
<1>2. ExpirySeen => ExpiredNeedsLateWrite
  BY DEF ExpirySeen, ExpiredNeedsLateWrite
<1> QED
  BY <1>1, <1>2, ControlInit, ControlStep, ExpiryStep, PTL DEF Spec

-----------------------------------------------------------------------------
(***************************************************************************)
(* The refresh tokens.                                                     *)
(***************************************************************************)
\* What TokenHeld says of one account.
Held(a) ==
    a \notin cutoff \cup doubled =>
        /\ \A u, v \in Procs : Refreshing(u, a) /\ Refreshing(v, a) => u = v
        /\ \A v \in Procs : pc[v] = "update" /\ arg[v] = a => token[v] = accepted[a]
        /\ ~deleted[a] =>
              \/ refreshToken[a] = accepted[a]
              \/ \E v \in Procs : pc[v] = "update" /\ arg[v] = a

\* A worker that neither begins nor ends a refresh of an account keeps what holds of it.
LEMMA HeldQuiet ==
  ASSUME NEW a \in Accounts, Held(a), NEW w \in Procs, Alone(w),
         cutoff \subseteq cutoff', doubled \subseteq doubled', deleted[a] => deleted'[a],
         refreshToken'[a] = refreshToken[a], accepted'[a] = accepted[a],
         ~Refreshing(w, a)', ~(pc[w] = "update" /\ arg[w] = a)
  PROVE  Held(a)'
<1> SUFFICES ASSUME a \notin cutoff' \cup doubled'
             PROVE  /\ \A u, v \in Procs : Refreshing(u, a)' /\ Refreshing(v, a)' => u = v
                    /\ \A v \in Procs : pc'[v] = "update" /\ arg'[v] = a =>
                            token'[v] = accepted'[a]
                    /\ ~deleted'[a] =>
                          \/ refreshToken'[a] = accepted'[a]
                          \/ \E v \in Procs : pc'[v] = "update" /\ arg'[v] = a
  BY DEF Held
<1>1. \A v \in Procs : Refreshing(v, a)' => v # w /\ Refreshing(v, a)
  BY DEF Alone, Refreshing
<1>2. \A v \in Procs : pc'[v] = "update" /\ arg'[v] = a =>
         v # w /\ pc[v] = "update" /\ arg[v] = a /\ token'[v] = token[v]
  BY DEF Alone, Refreshing
<1>3. \A v \in Procs : pc[v] = "update" /\ arg[v] = a => pc'[v] = "update" /\ arg'[v] = a
  BY DEF Alone
<1> QED
  BY <1>1, <1>2, <1>3 DEF Held

\* A refresh keeps the token it read, then the one it was given, until it writes it or dies.
LEMMA HeldStep ==
  ASSUME Control, NEW w \in Procs, Moves(w) \/ Starting(w), NEW a \in Accounts, Held(a)
  PROVE  Held(a)'
<1>0. TypeOK /\ Fit(w) /\ Alone(w) /\ WorkerTypeOK'
  BY WorkerFit DEF Control
<1>1. CASE TakeToken(w)
  <2>1. UNCHANGED <<cutoff, deleted, refreshToken, accepted>> /\ doubled \subseteq doubled'
    BY <1>1 DEF TakeToken, rowVars
  <2>2. pc'[w] = "exchange" /\ arg'[w] = arg[w] /\ pc[w] = "refresh"
    BY <1>0, <1>1 DEF TakeToken, Goto, TypeOK, WorkerTypeOK
  <2>3. CASE a # arg[w]
    BY <1>0, <2>1, <2>2, <2>3, HeldQuiet DEF Refreshing
  <2>4. CASE a = arg[w]
    <3>1. SUFFICES ASSUME a \notin cutoff' \cup doubled' PROVE Held(a)'
      BY DEF Held
    <3>2. \A v \in Procs : ~Refreshing(v, a)
      BY <1>1, <2>4, <3>1 DEF TakeToken
    <3>3. a \notin cutoff \cup doubled
      BY <2>1, <3>1
    <3>4. ~deleted[a] => refreshToken[a] = accepted[a]
      BY <3>2, <3>3 DEF Held, Refreshing
    <3>5. \A v \in Procs : Refreshing(v, a)' => v = w
      BY <1>0, <3>2 DEF Alone, Refreshing
    <3> QED
      BY <2>1, <2>2, <3>4, <3>5 DEF Held, Refreshing
  <2> QED
    BY <2>3, <2>4
<1>2. CASE Rotate(w) \/ Reuse(w)
  <2>1. UNCHANGED <<cutoff, doubled, deleted, refreshToken>>
    BY <1>2 DEF Rotate, Reuse, Onward, rowVars, historyVars
  <2>2. pc'[w] = "update" /\ arg'[w] = arg[w] /\ pc[w] = "exchange"
    BY <1>0, <1>2 DEF Rotate, Reuse, Onward, Goto, TypeOK, WorkerTypeOK
  <2>3. CASE a # arg[w]
    <3>1. accepted'[a] = accepted[a]
      BY <1>0, <1>2, <2>3 DEF Rotate, Reuse, Onward, TypeOK, RowTypeOK
    <3> QED
      BY <1>0, <2>1, <2>2, <2>3, <3>1, HeldQuiet DEF Refreshing
  <2>4. CASE a = arg[w]
    <3>1. token'[w] = accepted'[a]
      BY <1>0, <1>2, <2>4 DEF Rotate, Reuse, Onward, TypeOK, RowTypeOK, WorkerTypeOK
    <3>2. a \notin cutoff' \cup doubled' => \A v \in Procs : Refreshing(v, a)' => v = w
      BY <1>0, <2>1, <2>2, <2>4 DEF Held, Alone, Refreshing
    <3> QED
      BY <2>2, <2>4, <3>1, <3>2 DEF Held, Refreshing
  <2> QED
    BY <2>3, <2>4
<1>3. CASE UpdateTokens(w)
  <2>1. UNCHANGED <<cutoff, doubled, deleted, accepted>>
    BY <1>3 DEF UpdateTokens
  <2>2. pc'[w] = "free" /\ pc[w] = "update"
    BY <1>0, <1>3, FinishOK DEF UpdateTokens
  <2>3. CASE a # arg[w]
    <3>1. refreshToken'[a] = refreshToken[a]
      BY <1>0, <1>3, <2>3 DEF UpdateTokens, TypeOK, RowTypeOK
    <3> QED
      BY <1>0, <2>1, <2>2, <2>3, <3>1, HeldQuiet DEF Refreshing
  <2>4. CASE a = arg[w]
    <3>1. SUFFICES ASSUME a \notin cutoff' \cup doubled' PROVE Held(a)'
      BY DEF Held
    <3>2. \A v \in Procs : ~Refreshing(v, a)'
      BY <1>0, <2>1, <2>2, <2>4, <3>1 DEF Held, Alone, Refreshing
    <3>3. token[w] = accepted[a]
      BY <2>1, <2>2, <2>4, <3>1 DEF Held
    <3>4. ~deleted[a] => Live(a)
      BY <1>0, <2>2, <2>4 DEF Fit, Known, Labels, Live
    <3>5. ~deleted[a] => refreshToken'[a] = token[w]
      BY <1>0, <1>3, <2>4, <3>4 DEF UpdateTokens, TypeOK, RowTypeOK
    <3> QED
      BY <2>1, <3>2, <3>3, <3>5 DEF Held, Refreshing
  <2> QED
    BY <2>3, <2>4
<1>4. CASE Die(w)
  <2>1. UNCHANGED <<doubled, deleted, accepted, refreshToken>>
    BY <1>4 DEF Die, rowVars
  <2>2. pc'[w] = "free"
    BY <1>0, <1>4, FinishOK DEF Die
  <2>3. CASE a # arg[w]
    <3>1. cutoff \subseteq cutoff'
      BY <1>4 DEF Die
    <3> QED
      BY <1>0, <2>1, <2>2, <2>3, <3>1, HeldQuiet DEF Refreshing
  <2>4. CASE a = arg[w]
    BY <1>4, <2>4 DEF Die, Held
  <2> QED
    BY <2>3, <2>4
<1>5. ASSUME ~TakeToken(w), ~Rotate(w), ~Reuse(w), ~UpdateTokens(w), ~Die(w) PROVE Held(a)'
  <2>1. /\ UNCHANGED <<doubled, accepted, refreshToken>> /\ cutoff \subseteq cutoff'
        /\ pc[w] # "update"
    BY <1>5 DEF Moves, Over, Reads, Onward, QueueOne, TakeUp, SyncMark, MarkExpired, SyncIdle,
       StoreResult, SyncFailed, Dequeue, CreateIntegration, QueueNew, SoftDelete, TakeSettings,
       WriteSettings, ReplaceSettings, StoreRegistration, rowVars, historyVars, Starting,
       StartTick, StartPass, StartConnect, StartDisconnect, StartTest, StartRefresh,
       StartSettings, StartRegister, StartEvents, Start
  <2>2. UNCHANGED deleted \/ SoftDelete(w)
    BY <1>5 DEF Moves, Over, Reads, Onward, QueueOne, TakeUp, SyncMark, MarkExpired, SyncIdle,
       StoreResult, SyncFailed, Dequeue, CreateIntegration, QueueNew, TakeSettings,
       WriteSettings, ReplaceSettings, StoreRegistration, rowVars, historyVars, Starting,
       StartTick, StartPass, StartConnect, StartDisconnect, StartTest, StartRefresh,
       StartSettings, StartRegister, StartEvents, Start
  <2>3. deleted[a] => deleted'[a]
    BY <1>0, <2>2 DEF SoftDelete, TypeOK, RowTypeOK
  <2>4. pc'[w] \notin {"exchange", "update"}
    BY <1>5, Arrives
  <2> QED
    BY <1>0, <2>1, <2>3, <2>4, HeldQuiet DEF Refreshing
<1> QED
  BY <1>1, <1>2, <1>3, <1>4, <1>5

\* TokenHeld is inductive.
LEMMA TokenStep == Control /\ TokenHeld /\ [Next]_vars => TokenHeld'
<1> SUFFICES ASSUME Control, TokenHeld, [Next]_vars PROVE TokenHeld'
  OBVIOUS
<1>1. \A a \in Accounts : Held(a)
  BY DEF TokenHeld, Held
<1>2. ASSUME \A a \in Accounts : Held(a)' PROVE TokenHeld'
  BY <1>2 DEF TokenHeld, Held
<1>3. ASSUME NEW w \in Procs, Moves(w) \/ Starting(w) PROVE TokenHeld'
  BY <1>1, <1>2, <1>3, HeldStep
<1>4. ASSUME UNCHANGED <<cutoff, doubled, deleted, refreshToken, accepted, pc, arg, token>>
      PROVE  TokenHeld'
  BY <1>4 DEF TokenHeld, Refreshing
<1>5. ASSUME Elsewhere \/ UNCHANGED vars
      PROVE  UNCHANGED <<cutoff, doubled, deleted, refreshToken, accepted, pc, arg, token>>
  BY <1>5, ElsewhereOK DEF vars, rowVars, workerVars, historyVars
<1> QED
  BY <1>3, <1>4, <1>5, Alternatives

\* The row holds the refresh token that the provider accepts, or a refresh is about to
\* store it, unless two refreshes of the account met or one died (refreshToken).
THEOREM RefreshTokenIsKept == Spec => []RefreshTokenKept
<1>1. Init => TokenHeld
  BY DEF Init, TokenHeld, Refreshing
<1>2. Control /\ TokenHeld => RefreshTokenKept
  <2> SUFFICES ASSUME Control, TokenHeld, NEW a \in Accounts \ (cutoff \cup doubled), Live(a),
                      refreshToken[a] # accepted[a]
               PROVE  \E w \in Workers : pc[w] = "update" /\ arg[w] = a /\ token[w] = accepted[a]
    BY DEF RefreshTokenKept
  <2>1. PICK v \in Procs : pc[v] = "update" /\ arg[v] = a
    BY DEF TokenHeld, Live
  <2>2. token[v] = accepted[a]
    BY <2>1 DEF TokenHeld
  <2>3. v \in Workers
    BY <2>1 DEF Control, Fit
  <2> QED
    BY <2>1, <2>2, <2>3
<1> QED
  BY <1>1, <1>2, ControlInit, ControlStep, TokenStep, PTL DEF Spec

-----------------------------------------------------------------------------
(***************************************************************************)
(* What sync_status says.                                                  *)
(***************************************************************************)
\* A sync between its mark and the end of its outcome.
Busy(v, a) == InSync(v, a) /\ (Marked(v, a) \/ pc[v] = "failed")

\* What Truthful says of one account.
Truth(a) ==
    a \notin crossed =>
        /\ \A u, v \in Procs : InSync(u, a) /\ InSync(v, a) => u = v
        /\ ~deleted[a] =>
              /\ \A v \in Procs : Marked(v, a) => syncStatus[a] = "syncing"
              /\ syncStatus[a] = "syncing" => (\E v \in Procs : Busy(v, a)) \/ a \in cutoff

\* A worker other than the one that moves is in a sync as before.
LEMMA SyncAlone ==
  ASSUME NEW w \in Procs, Alone(w), NEW v \in Procs, v # w, NEW a
  PROVE  /\ InSync(v, a) => InSync(v, a)'
         /\ InSync(v, a)' => InSync(v, a)
         /\ Marked(v, a) => Marked(v, a)'
         /\ Marked(v, a)' => Marked(v, a)
         /\ Busy(v, a) => Busy(v, a)'
<1>1. pc'[v] = pc[v] /\ op'[v] = op[v] /\ arg'[v] = arg[v]
  BY DEF Alone
<1> QED
  BY <1>1 DEF InSync, Marked, Busy

\* A worker that neither begins a sync, nor marks its row, nor ends one that was marked.
LEMMA TruthQuiet ==
  ASSUME NEW a \in Accounts, Truth(a), NEW w \in Procs, Alone(w),
         crossed \subseteq crossed', cutoff \subseteq cutoff', deleted[a] => deleted'[a],
         syncStatus'[a] = syncStatus[a],
         InSync(w, a)' => InSync(w, a), Marked(w, a)' => Marked(w, a),
         Busy(w, a) => Busy(w, a)' \/ a \in cutoff'
  PROVE  Truth(a)'
<1> SUFFICES ASSUME a \notin crossed'
             PROVE  /\ \A u, v \in Procs : InSync(u, a)' /\ InSync(v, a)' => u = v
                    /\ ~deleted'[a] =>
                          /\ \A v \in Procs : Marked(v, a)' => syncStatus'[a] = "syncing"
                          /\ syncStatus'[a] = "syncing" =>
                                (\E v \in Procs : Busy(v, a)') \/ a \in cutoff'
  BY DEF Truth
<1>1. \A v \in Procs : (InSync(v, a)' => InSync(v, a)) /\ (Marked(v, a)' => Marked(v, a))
  BY SyncAlone
<1>2. \A v \in Procs : Busy(v, a) => Busy(v, a)' \/ a \in cutoff'
  BY SyncAlone
<1>3. a \notin crossed
  OBVIOUS
<1>4. \A u, v \in Procs : InSync(u, a)' /\ InSync(v, a)' => u = v
  BY <1>1, <1>3 DEF Truth
<1>5. ~deleted'[a] => \A v \in Procs : Marked(v, a)' => syncStatus'[a] = "syncing"
  BY <1>1, <1>3 DEF Truth
<1>6. ~deleted'[a] /\ syncStatus'[a] = "syncing" =>
         (\E v \in Procs : Busy(v, a)') \/ a \in cutoff'
  BY <1>2, <1>3 DEF Truth
<1> QED
  BY <1>4, <1>5, <1>6

\* A worker that is in no sync before its step and after it.
LEMMA Outside ==
  ASSUME Control, NEW w \in Procs,
         \/ Over(w) \/ CreateIntegration(w) \/ QueueNew(w) \/ SoftDelete(w) \/ TakeToken(w)
         \/ Rotate(w) \/ Reuse(w) \/ UpdateTokens(w) \/ TakeSettings(w) \/ WriteSettings(w)
         \/ ReplaceSettings(w) \/ StoreRegistration(w)
         \/ (\E a \in todo[w] : QueueOne(w, a)) \/ Starting(w)
  PROVE  ~(op[w] = "pass" /\ pc[w] \in Syncing) /\ ~(op'[w] = "pass" /\ pc'[w] \in Syncing)
<1>0. pc \in [Procs -> Labels] /\ op \in [Procs -> Operations \cup {"none"}]
  BY DEF Control, TypeOK, WorkerTypeOK
<1>1. CASE Finish(w)
  BY <1>0, <1>1 DEF Over, CreateIntegration, QueueNew, SoftDelete, TakeToken, Rotate, Reuse,
     Onward, UpdateTokens, TakeSettings, WriteSettings, ReplaceSettings, StoreRegistration,
     QueueOne, Starting, StartTick, StartPass, StartConnect, StartDisconnect, StartTest,
     StartRefresh, StartSettings, StartRegister, StartEvents, Start, Finish, Syncing
<1>2. CASE \/ CreateIntegration(w) \/ TakeToken(w) \/ Rotate(w) \/ Reuse(w) \/ TakeSettings(w)
           \/ StoreRegistration(w)
  BY <1>0, <1>2 DEF CreateIntegration, TakeToken, Rotate, Reuse, Onward, TakeSettings,
     StoreRegistration, Goto, Syncing
<1>3. ASSUME NEW a \in todo[w], QueueOne(w, a), ~Finish(w)
      PROVE  pc[w] = "due" /\ pc'[w] = "due"
  BY <1>3 DEF QueueOne
<1>4. CASE Starting(w)
  BY <1>0, <1>4 DEF Starting, StartTick, StartPass, StartConnect, StartDisconnect, StartTest,
     StartRefresh, StartSettings, StartRegister, StartEvents, Start, Goto, Syncing
<1>5. ASSUME \/ Over(w) \/ QueueNew(w) \/ SoftDelete(w) \/ UpdateTokens(w) \/ WriteSettings(w)
             \/ ReplaceSettings(w)
      PROVE  Finish(w)
  BY <1>5 DEF Over, QueueNew, SoftDelete, UpdateTokens, WriteSettings, ReplaceSettings
<1> QED
  BY <1>1, <1>2, <1>3, <1>4, <1>5 DEF Syncing

\* sync_status follows the sync from its mark to its outcome.
LEMMA TruthStep ==
  ASSUME Control, NEW w \in Procs, Moves(w) \/ Starting(w), NEW a \in Accounts, Truth(a)
  PROVE  Truth(a)'
<1>0. TypeOK /\ Fit(w) /\ Alone(w)
  BY WorkerFit DEF Control
<1>a. pc \in [Procs -> Labels] /\ op \in [Procs -> Operations \cup {"none"}]
      /\ arg \in [Procs -> Accounts \cup {NoAccount}]
      /\ syncStatus \in [Accounts -> {"idle", "syncing", "failed"}]
  BY <1>0 DEF TypeOK, WorkerTypeOK, RowTypeOK
<1>1. ASSUME \/ Over(w) \/ CreateIntegration(w) \/ QueueNew(w) \/ SoftDelete(w) \/ TakeToken(w)
             \/ Rotate(w) \/ Reuse(w) \/ UpdateTokens(w) \/ TakeSettings(w) \/ WriteSettings(w)
             \/ ReplaceSettings(w) \/ StoreRegistration(w)
             \/ (\E b \in todo[w] : QueueOne(w, b)) \/ Starting(w)
      PROVE  Truth(a)'
  <2>1. ~InSync(w, a) /\ ~InSync(w, a)'
    BY <1>1, Outside DEF InSync
  <2>2. crossed \subseteq crossed' /\ cutoff \subseteq cutoff' /\ UNCHANGED syncStatus
    BY <1>1 DEF Over, CreateIntegration, QueueNew, SoftDelete, TakeToken, Rotate, Reuse, Onward,
       UpdateTokens, TakeSettings, WriteSettings, ReplaceSettings, StoreRegistration, QueueOne,
       Enqueue, Starting, StartTick, StartPass, StartConnect, StartDisconnect, StartTest,
       StartRefresh, StartSettings, StartRegister, StartEvents, rowVars, historyVars
  <2>3. UNCHANGED deleted \/ SoftDelete(w)
    BY <1>1 DEF Over, CreateIntegration, QueueNew, TakeToken, Rotate, Reuse, Onward,
       UpdateTokens, TakeSettings, WriteSettings, ReplaceSettings, StoreRegistration, QueueOne,
       Starting, StartTick, StartPass, StartConnect, StartDisconnect, StartTest, StartRefresh,
       StartSettings, StartRegister, StartEvents, rowVars
  <2>4. deleted[a] => deleted'[a]
    BY <1>0, <2>3 DEF SoftDelete, TypeOK, RowTypeOK
  <2> QED
    BY <1>0, <2>1, <2>2, <2>4, TruthQuiet DEF Marked, Busy
<1>2. ASSUME NEW b \in todo[w], TakeUp(w, b) PROVE Truth(a)'
  <2>1. pc[w] = "next" /\ pc'[w] = "read" /\ arg'[w] = b
    BY <1>a, <1>2 DEF TakeUp, Goto
  <2>2. UNCHANGED <<cutoff, deleted, syncStatus>> /\ crossed \subseteq crossed'
    BY <1>2 DEF TakeUp, rowVars
  <2>3. ~InSync(w, a) /\ ~Marked(w, a)' /\ ~Busy(w, a)'
    BY <2>1 DEF InSync, Marked, Busy, Syncing
  <2>4. CASE a # b
    <3>1. ~InSync(w, a)'
      BY <2>1, <2>4 DEF InSync
    <3> QED
      BY <1>0, <2>2, <2>3, <3>1, TruthQuiet DEF Marked, Busy
  <2>5. CASE a = b
    <3>1. SUFFICES ASSUME a \notin crossed' PROVE Truth(a)'
      BY DEF Truth
    <3>2. \A v \in Procs : ~InSync(v, a)
      BY <1>2, <2>5, <3>1 DEF TakeUp
    <3>3. \A v \in Procs : InSync(v, a)' => v = w
      BY <1>0, <3>2, SyncAlone
    <3>4. \A v \in Procs : ~Marked(v, a)'
      BY <2>3, <3>3 DEF Marked
    <3>5. a \notin crossed
      BY <2>2, <3>1
    <3>6. ~deleted[a] /\ syncStatus[a] = "syncing" => a \in cutoff
      BY <3>2, <3>5 DEF Truth, Busy
    <3> QED
      BY <2>2, <3>3, <3>4, <3>6 DEF Truth
  <2> QED
    BY <2>4, <2>5
<1>3. CASE Reads(w) \/ StoreResult(w) \/ Dequeue(w) \/ Die(w) \/ MarkExpired(w)
  <2>1. UNCHANGED <<crossed, deleted, syncStatus>> /\ cutoff \subseteq cutoff'
    BY <1>3 DEF Reads, Onward, StoreResult, Dequeue, Die, MarkExpired, rowVars, historyVars
  <2>2. InSync(w, a)' => InSync(w, a)
    BY <1>a, <1>3 DEF Reads, Onward, StoreResult, Dequeue, Die, MarkExpired, Finish, Goto,
       InSync, Syncing
  <2>3. Marked(w, a)' => Marked(w, a)
    BY <1>a, <1>3 DEF Reads, Onward, StoreResult, Dequeue, Die, MarkExpired, Finish, Goto,
       InSync, Marked, Syncing
  <2>4. CASE Die(w)
    <3>1. InSync(w, a) => a \in cutoff'
      BY <2>4 DEF Die, InSync
    <3> QED
      BY <1>0, <2>1, <2>2, <2>3, <3>1, TruthQuiet DEF Busy
  <2>5. CASE ~Die(w)
    <3>1. Busy(w, a) => Busy(w, a)'
      BY <1>a, <1>3, <2>5 DEF Reads, Onward, StoreResult, Dequeue, MarkExpired, Finish, Goto,
         InSync, Marked, Busy, Syncing
    <3> QED
      BY <1>0, <2>1, <2>2, <2>3, <3>1, TruthQuiet
  <2> QED
    BY <2>4, <2>5
<1>4. ASSUME NEW s \in {"syncing", "idle", "failed"}, SetSync(arg[w], s),
             op[w] = "pass", pc[w] \in Known \cap Syncing, UNCHANGED <<crossed, cutoff, deleted>>,
             op'[w] = "pass", arg'[w] = arg[w],
             s = "syncing" => pc'[w] = "token",
             s # "syncing" => pc'[w] \in {"store", "next"}
      PROVE  Truth(a)'
  <2>1. CASE a # arg[w]
    <3>1. syncStatus'[a] = syncStatus[a]
      BY <1>a, <1>4, <2>1 DEF SetSync
    <3>2. ~InSync(w, a) /\ ~InSync(w, a)'
      BY <1>4, <2>1 DEF InSync
    <3> QED
      BY <1>0, <1>4, <3>1, <3>2, TruthQuiet DEF Marked, Busy
  <2>2. CASE a = arg[w]
    <3>1. SUFFICES ASSUME a \notin crossed' PROVE Truth(a)'
      BY DEF Truth
    <3>2. InSync(w, a) /\ a \notin crossed
      BY <1>4, <2>2, <3>1 DEF InSync
    <3>3. \A v \in Procs : InSync(v, a)' => v = w
      BY <1>0, <3>2, SyncAlone DEF Truth
    <3>4. ~deleted[a] => syncStatus'[a] = s
      BY <1>0, <1>a, <1>4, <2>2 DEF Fit, Live, SetSync
    <3>5. CASE s = "syncing"
      <4>1. Busy(w, a)'
        BY <1>4, <2>2, <3>5 DEF Busy, Marked, InSync, Syncing
      <4> QED
        BY <1>4, <3>3, <3>4, <3>5, <4>1 DEF Truth
    <3>6. CASE s # "syncing"
      <4>1. ~Marked(w, a)'
        BY <1>4, <3>6 DEF Marked
      <4>2. \A v \in Procs : ~Marked(v, a)'
        BY <3>3, <4>1 DEF Marked
      <4> QED
        BY <1>4, <3>3, <3>4, <3>6, <4>2 DEF Truth
    <3> QED
      BY <3>5, <3>6
  <2> QED
    BY <2>1, <2>2
<1>5. CASE SyncMark(w)
  <2>1. /\ pc[w] = "mark" /\ SetSync(arg[w], "syncing") /\ pc'[w] = "token"
        /\ UNCHANGED <<crossed, cutoff, deleted, op, arg>>
    BY <1>a, <1>5 DEF SyncMark, Goto, historyVars
  <2>2. op[w] = "pass" /\ pc[w] \in Known \cap Syncing
    BY <1>0, <2>1 DEF Fit, Known, Syncing, Labels
  <2> QED
    BY <1>4, <2>1, <2>2
<1>6. CASE SyncIdle(w)
  <2>1. /\ pc[w] = "idle" /\ SetSync(arg[w], "idle") /\ pc'[w] = "store"
        /\ UNCHANGED <<crossed, cutoff, deleted, op, arg>>
    BY <1>a, <1>6 DEF SyncIdle, Goto, historyVars
  <2>2. op[w] = "pass" /\ pc[w] \in Known \cap Syncing
    BY <1>0, <2>1 DEF Fit, Known, Syncing, Labels
  <2> QED
    BY <1>4, <2>1, <2>2
<1>7. CASE SyncFailed(w)
  <2>1. /\ pc[w] = "failed" /\ SetSync(arg[w], "failed") /\ pc'[w] = "next"
        /\ UNCHANGED <<crossed, cutoff, deleted, op, arg>>
    BY <1>a, <1>7 DEF SyncFailed, Goto, historyVars
  <2>2. op[w] = "pass" /\ pc[w] \in Known \cap Syncing
    BY <1>0, <2>1 DEF Fit, Known, Syncing, Labels
  <2> QED
    BY <1>4, <2>1, <2>2
<1> QED
  BY <1>1, <1>2, <1>3, <1>5, <1>6, <1>7, Zenon DEF Moves

\* Truthful is inductive.
LEMMA TruthfulStep == Control /\ Truthful /\ [Next]_vars => Truthful'
<1> SUFFICES ASSUME Control, Truthful, [Next]_vars PROVE Truthful'
  OBVIOUS
<1>1. \A a \in Accounts : Truth(a)
  BY DEF Truthful, Truth, Busy
<1>2. ASSUME \A a \in Accounts : Truth(a)' PROVE Truthful'
  BY <1>2 DEF Truthful, Truth, Busy
<1>3. ASSUME NEW w \in Procs, Moves(w) \/ Starting(w) PROVE Truthful'
  BY <1>1, <1>2, <1>3, TruthStep
<1>4. ASSUME UNCHANGED <<cutoff, deleted, syncStatus, pc, op, arg>>, crossed \subseteq crossed'
      PROVE  Truthful'
  BY <1>4 DEF Truthful, InSync, Marked
<1>5. CASE Elsewhere
  <2>1. UNCHANGED <<cutoff, deleted, syncStatus, pc, op, arg>>
    BY <1>5, ElsewhereOK DEF workerVars
  <2>2. crossed \subseteq crossed'
    BY <1>5 DEF Elsewhere, RequestSync, Enqueue, TokenExpires, BecomesDue, historyVars
  <2> QED
    BY <1>4, <2>1, <2>2
<1>6. CASE UNCHANGED vars
  BY <1>4, <1>6 DEF vars, rowVars, workerVars, historyVars
<1> QED
  BY <1>3, <1>5, <1>6, Alternatives

\* sync_status says syncing when a sync runs, and only then, unless two syncs of the
\* account crossed or a process died on it (sync of IntegrationService).
THEOREM SyncingIsTruthful == Spec => []SyncingTruthful
<1>1. Init => Truthful
  BY DEF Init, Truthful, InSync, Marked, Syncing
<1>2. Control /\ Truthful => SyncingTruthful
  <2> SUFFICES ASSUME Control, Truthful, NEW a \in Accounts \ crossed, Live(a)
               PROVE  /\ (\E w \in Workers : op[w] = "pass" /\ arg[w] = a
                             /\ pc[w] \in {"token", "expire", "provider", "idle"})
                            => syncStatus[a] = "syncing"
                      /\ syncStatus[a] = "syncing" =>
                            \/ \E w \in Workers : op[w] = "pass" /\ arg[w] = a
                                  /\ pc[w] \in {"token", "expire", "provider", "idle", "failed"}
                            \/ a \in cutoff
    BY DEF SyncingTruthful
  <2>1. ASSUME NEW w \in Workers, op[w] = "pass", arg[w] = a,
               pc[w] \in {"token", "expire", "provider", "idle"}
        PROVE  syncStatus[a] = "syncing"
    <3>1. w \in Procs /\ Marked(w, a)
      BY <2>1 DEF Procs, Marked, InSync, Syncing
    <3> QED
      BY <3>1 DEF Truthful, Live
  <2>2. ASSUME syncStatus[a] = "syncing", a \notin cutoff
        PROVE  \E w \in Workers : op[w] = "pass" /\ arg[w] = a
                  /\ pc[w] \in {"token", "expire", "provider", "idle", "failed"}
    <3>1. PICK v \in Procs : InSync(v, a) /\ (Marked(v, a) \/ pc[v] = "failed")
      BY <2>2 DEF Truthful, Live
    <3>2. v \in Workers
      BY <3>1 DEF Control, Fit, InSync, Syncing
    <3> QED
      BY <3>1, <3>2 DEF InSync, Marked
  <2> QED
    BY <2>1, <2>2
<1> QED
  BY <1>1, <1>2, ControlInit, ControlStep, TruthfulStep, PTL DEF Spec
=============================================================================
