--------------------------- MODULE ReportJobs_proofs ---------------------------
(***************************************************************************)
(* Theorems about ReportJobs, for every set of reports, slots, handlers    *)
(* and executions, and every number of attempts, stalls, edits and faults. *)
(***************************************************************************)
EXTENDS ReportJobs, FiniteSetTheorems, TLAPS

USE ReportAssumption

\* Labels of an execution of a job.
Executing == {"start", "build", "progress", "complete", "fail"}

\* Only a slot executes jobs, only a request pauses or resumes.
Fit(w) ==
    /\ pc[w] = "idle" => op[w] = "none" /\ rep[w] = NoReport
    /\ pc[w] # "idle" => rep[w] \in Reports
    /\ w \in Slots => pc[w] \in Executing \cup {"idle"}
    /\ pc[w] \in Executing => w \in Slots
    /\ pc[w] = "schedule" => op[w] = "resume"
    /\ op[w] = "resume" => pc[w] = "schedule"
    /\ op[w] = "pause" => pc[w] = "write"
    /\ op[w] \in {"pause", "resume"} => w \in Handlers

\* A lock is held by the slot that executes the job, and a job that is not done has
\* attempts and stalls left.
Locked(r) ==
    /\ owner[r] # NoSlot => rep[owner[r]] = r
    /\ job[r] \in {"waiting", "active"} => tries[r] < JobAttempts /\ stalls[r] <= MaxStalls

Control ==
    /\ RowTypeOK /\ JobTypeOK /\ WorkerTypeOK /\ ScheduleTypeOK /\ BoundsOK
    /\ disturbed \in [Reports -> BOOLEAN]
    /\ stamped \in [Reports -> Nat]
    /\ delivered \in [Reports -> Nat]
    /\ \A w \in Workers : Fit(w)
    /\ \A r \in Reports : Locked(r)

\* A report that is not disturbed is executed by the slot that holds its lock alone, and
\* its row says so, or paused, once the execution has begun.
Tended(r) ==
    \A w \in Slots : rep[w] = r /\ ~disturbed[r] =>
        /\ owner[r] = w
        /\ pc[w] # "start" /\ ~deleted[r] => status[r] \in {"processing", "paused"}

\* Executions of a scheduled report before their stamp, and between stamp and notification.
Unstamped(r) == {w \in Workers : rep[w] = r /\ pc[w] \in {"generate", "stamp"}}
Notifying(r) == {w \in Workers : rep[w] = r /\ pc[w] = "notify"}

\* Every execution is stamped once before it notifies once.
Counted(r) ==
    /\ IsFiniteSet(Unstamped(r)) /\ IsFiniteSet(Notifying(r))
    /\ stamped[r] + Cardinality(Unstamped(r)) <= ticks
    /\ delivered[r] + Cardinality(Unstamped(r)) + Cardinality(Notifying(r)) <= ticks
    /\ ~deleted[r] => delivered[r] + Cardinality(Notifying(r)) <= stamped[r]

\* Whoever asked last without meeting another has what he asked for, or still asks.
Obeyed(r) ==
    /\ asked[r] = "pause" =>
          /\ ~cron[r]
          /\ \A w \in Workers : rep[w] = r => op[w] # "resume"
    /\ asked[r] = "resume" =>
          /\ status[r] # "absent"
          /\ cron[r] = scheduled[r] \/ \E w \in Workers : rep[w] = r /\ op[w] = "resume"

-----------------------------------------------------------------------------
(***************************************************************************)
(* The alternatives of the steps that branch.                              *)
(***************************************************************************)
\* A failure is counted.
Counts == faults' = faults \/ (faults < MaxFaults /\ faults' = faults + 1)

\* A scheduled generation throws; a request or a stamp fails in its statement.
GiveUp(w) ==
    /\ pc[w] \in {"generate", "queue", "write", "stamp"}
    /\ Leave(w)
    /\ Counts
    /\ UNCHANGED <<rowVars, jobVars, cron, mix, expiries, ticks, history>>

\* A worker goes on without writing.
Onward(w, label) ==
    /\ \/ pc[w] = "generate" /\ label = "stamp"
       \/ pc[w] = "build" /\ label \in {"progress", "fail"}
       \/ pc[w] \in {"progress", "complete"} /\ label = "fail"
    /\ Goto(w, label)
    /\ Counts
    /\ UNCHANGED <<rowVars, jobVars, cron, mix, expiries, ticks, history>>

\* An execution ends without writing to the row.
Breaks(w) ==
    /\ pc[w] \in {"start", "fail"}
    /\ Throw(w)
    /\ disturbed' = [disturbed EXCEPT ![rep[w]] = TRUE]
    /\ Counts
    /\ UNCHANGED <<rowVars, cron, mix, expiries, ticks, asked, stamped, delivered>>

\* A request begins.
Requests(w) ==
    \E r \in Reports :
        \/ CreateReport(w, r)
        \/ \E o \in {"generate", "edit", "delete"} : StartRequest(w, r, o)
        \/ StartPause(w, r) \/ StartResume(w, r)

\* What one worker does.
Moves(w) ==
    \/ w \in Handlers /\ Requests(w)
    \/ w \in Slots /\ \E r \in Reports : StartJob(w, r)
    \/ w \in Crons /\ \E r \in Reports : Tick(w, r)
    \/ GiveUp(w) \/ (\E label \in Label : Onward(w, label)) \/ Breaks(w)
    \/ Queue(w) \/ Edit(w) \/ Delete(w) \/ Pause(w) \/ Resume(w) \/ Stamp(w) \/ Notify(w)
    \/ StartProcessing(w) \/ ReportProgress(w) \/ MarkCompleted(w) \/ MarkFailed(w)

\* What happens without a worker.
Elsewhere == \E r \in Reports : CreateOnly(r) \/ ExpireJob(r) \/ Stall(r)

\* Every step is one of these.
LEMMA Alternatives ==
  ASSUME [Next]_vars
  PROVE  (\E w \in Workers : Moves(w)) \/ Elsewhere \/ Crash \/ UNCHANGED vars
<1>1. Handlers \subseteq Workers /\ Slots \subseteq Workers /\ Crons \subseteq Workers
  BY DEF Workers
<1>2. ASSUME NEW w \in Workers, GenerateScheduled(w) PROVE Moves(w)
  <2>1. Onward(w, "stamp") \/ GiveUp(w)
    BY <1>2 DEF GenerateScheduled, Onward, GiveUp, bounds, Counts
  <2> QED
    BY <2>1 DEF Moves, Label
<1>3. ASSUME NEW w \in Workers, Build(w) PROVE Moves(w)
  <2>1. Onward(w, "progress") \/ Onward(w, "fail")
    BY <1>3 DEF Build, Onward, bounds, Counts
  <2> QED
    BY <2>1 DEF Moves, Label
<1>4. ASSUME NEW w \in Workers, StatementFails(w) PROVE Moves(w)
  <2>1. CASE /\ pc[w] \in {"progress", "complete"}
             /\ Goto(w, "fail")
             /\ UNCHANGED <<jobVars, disturbed>>
    <3>1. Onward(w, "fail")
      BY <1>4, <2>1 DEF StatementFails, Onward, history, Counts
    <3> QED
      BY <3>1 DEF Moves, Label
  <2>2. CASE /\ pc[w] \in {"start", "fail"}
             /\ Throw(w)
             /\ disturbed' = [disturbed EXCEPT ![rep[w]] = TRUE]
    <3>1. Breaks(w)
      BY <1>4, <2>2 DEF StatementFails, Breaks, Counts
    <3> QED
      BY <3>1 DEF Moves
  <2>3. CASE pc[w] \in {"queue", "write", "stamp"} /\ Leave(w) /\ UNCHANGED <<jobVars, disturbed>>
    <3>1. GiveUp(w)
      BY <1>4, <2>3 DEF StatementFails, GiveUp, history, Counts
    <3> QED
      BY <3>1 DEF Moves
  <2> QED
    BY <1>4, <2>1, <2>2, <2>3 DEF StatementFails
<1>5. ASSUME NEW w \in Workers, Step(w) PROVE Moves(w)
  BY <1>2, <1>3, <1>5, Zenon DEF Step, Moves
<1>6. ASSUME NEW w \in Handlers, Request(w) PROVE Moves(w)
  BY <1>6, Zenon DEF Request, Requests, Moves
<1> QED
  BY <1>1, <1>4, <1>5, <1>6, Zenon DEF Next, Elsewhere, Moves

-----------------------------------------------------------------------------
(***************************************************************************)
(* How a worker moves on.                                                  *)
(***************************************************************************)
\* Nobody else moves.
Alone(w) ==
    \A v \in Workers \ {w} : pc'[v] = pc[v] /\ op'[v] = op[v] /\ rep'[v] = rep[v]

\* A worker that is done is idle.
LEMMA LeaveOK ==
  ASSUME WorkerTypeOK, NEW w \in Workers, Leave(w)
  PROVE  /\ WorkerTypeOK' /\ Alone(w)
         /\ pc'[w] = "idle" /\ op'[w] = "none" /\ rep'[w] = NoReport
<1>1. "idle" \in Label /\ "none" \in Operation
  BY DEF Label, Operation
<1> QED
  BY <1>1 DEF WorkerTypeOK, Leave, Alone

\* A worker that goes on stays with its report.
LEMMA GotoOK ==
  ASSUME WorkerTypeOK, NEW w \in Workers, NEW label \in Label, Goto(w, label)
  PROVE  /\ WorkerTypeOK' /\ Alone(w)
         /\ pc'[w] = label /\ op'[w] = op[w] /\ rep'[w] = rep[w]
  BY DEF WorkerTypeOK, Goto, Alone

\* A worker that begins takes up a report.
LEMMA BeginOK ==
  ASSUME WorkerTypeOK, NEW w \in Workers, NEW o \in Operation, NEW r \in Reports,
         NEW label \in Label, Begin(w, o, r, label)
  PROVE  /\ WorkerTypeOK' /\ Alone(w) /\ pc[w] = "idle"
         /\ pc'[w] = label /\ op'[w] = o /\ rep'[w] = r
  BY DEF WorkerTypeOK, Begin, Alone

\* A worker fits after its own step.
LEMMA WorkerFit ==
  ASSUME Control, NEW w \in Workers, Moves(w)
  PROVE  WorkerTypeOK' /\ Alone(w) /\ Fit(w)'
<1> DEFINE Goal == WorkerTypeOK' /\ Alone(w) /\ Fit(w)'
<1> SUFFICES Goal
  OBVIOUS
<1>0. WorkerTypeOK /\ Fit(w)
  BY DEF Control
<1>1. CASE Leave(w)
  BY <1>0, <1>1, LeaveOK DEF Fit, Executing
<1>2. ASSUME NEW label \in Label \ {"idle", "schedule"}, Goto(w, label), pc[w] # "idle",
             w \in Slots => label \in Executing, label \in Executing => w \in Slots,
             op[w] \notin {"pause", "resume"}
      PROVE  Goal
  BY <1>0, <1>2, GotoOK DEF Fit
<1>3. ASSUME NEW r \in Reports, NEW o \in Operation, NEW label \in Label \ {"idle"},
             Begin(w, o, r, label),
             w \in Slots => label \in Executing, label \in Executing => w \in Slots,
             label = "schedule" => o = "resume", o = "resume" => label = "schedule",
             o = "pause" => label = "write", o \in {"pause", "resume"} => w \in Handlers
      PROVE  Goal
  BY <1>0, <1>3, BeginOK DEF Fit
<1> HIDE DEF Goal
<1>4. CASE w \in Handlers /\ Requests(w)
  <2>1. w \notin Slots
    BY <1>4
  <2>2. /\ {"queue", "write", "schedule"} \subseteq Label \ {"idle"}
        /\ {"queue", "write", "schedule"} \cap Executing = {}
        /\ {"generate", "edit", "delete", "pause", "resume"} \subseteq Operation
    BY DEF Label, Executing, Operation
  <2>3. PICK r \in Reports :
           \/ Begin(w, "generate", r, "queue") \/ Begin(w, "edit", r, "write")
           \/ Begin(w, "delete", r, "write") \/ Begin(w, "pause", r, "write")
           \/ Begin(w, "resume", r, "schedule")
    BY <1>4 DEF Requests, CreateReport, StartRequest, StartPause, StartResume
  <2> QED
    BY <1>3, <1>4, <2>1, <2>2, <2>3
<1>5. ASSUME NEW r \in Reports, StartJob(w, r), w \in Slots PROVE Goal
  <2>1. "job" \in Operation /\ "start" \in Label \ {"idle"} /\ "start" \in Executing
    BY DEF Label, Executing, Operation
  <2> QED
    BY <1>3, <1>5, <2>1 DEF StartJob
<1>6. ASSUME NEW r \in Reports, Tick(w, r), w \in Crons PROVE Goal
  <2>1. "execute" \in Operation /\ "generate" \in Label \ {"idle"} /\ "generate" \notin Executing
    BY DEF Label, Executing, Operation
  <2> QED
    BY <1>3, <1>6, <2>1 DEF Tick
<1>7. ASSUME \/ GiveUp(w) \/ Breaks(w) \/ Queue(w) \/ Edit(w) \/ Delete(w) \/ Pause(w) \/ Resume(w)
             \/ Notify(w) \/ MarkCompleted(w) \/ MarkFailed(w)
      PROVE  Leave(w)
  BY <1>7 DEF GiveUp, Breaks, Throw, Queue, Edit, Delete, Pause, Resume, Notify, MarkCompleted,
     Return, MarkFailed
<1>8. ASSUME \/ (\E label \in Label : Onward(w, label)) \/ Stamp(w) \/ StartProcessing(w)
             \/ ReportProgress(w)
      PROVE  Goal
  <2>1. /\ {"stamp", "notify", "build", "progress", "complete", "fail"} \subseteq
              Label \ {"idle", "schedule"}
        /\ {"build", "progress", "complete", "fail"} \subseteq Executing
        /\ {"stamp", "notify"} \cap Executing = {}
    BY DEF Label, Executing
  <2>2. op[w] \notin {"pause", "resume"} /\ pc[w] # "idle"
    BY <1>0, <1>8 DEF Fit, Onward, Stamp, StartProcessing, ReportProgress
  <2>3. PICK label \in {"stamp", "notify", "build", "progress", "complete", "fail"} :
           Goto(w, label) /\ (label \in Executing <=> pc[w] \in Executing)
    BY <1>8 DEF Onward, Stamp, StartProcessing, ReportProgress, Executing
  <2>4. (w \in Slots => pc[w] \in Executing) /\ (pc[w] \in Executing => w \in Slots)
    BY <1>0, <2>2 DEF Fit
  <2> QED
    BY <1>2, <2>1, <2>2, <2>3, <2>4
<1> QED
  BY <1>1, <1>4, <1>5, <1>6, <1>7, <1>8, Zenon DEF Moves

-----------------------------------------------------------------------------
(***************************************************************************)
(* Control is inductive.                                                   *)
(***************************************************************************)
\* The rows, the cron entries and the history keep their types.
LEMMA RowsStep ==
  ASSUME Control, NEW w \in Workers, Moves(w)
  PROVE  /\ RowTypeOK' /\ ScheduleTypeOK' /\ BoundsOK'
         /\ disturbed' \in [Reports -> BOOLEAN]
         /\ stamped' \in [Reports -> Nat] /\ delivered' \in [Reports -> Nat]
<1> DEFINE Goal == /\ RowTypeOK' /\ ScheduleTypeOK' /\ BoundsOK'
                   /\ disturbed' \in [Reports -> BOOLEAN]
                   /\ stamped' \in [Reports -> Nat] /\ delivered' \in [Reports -> Nat]
<1> SUFFICES Goal
  OBVIOUS
<1>0. /\ RowTypeOK /\ JobTypeOK /\ WorkerTypeOK /\ ScheduleTypeOK /\ BoundsOK /\ Fit(w)
      /\ disturbed \in [Reports -> BOOLEAN]
      /\ stamped \in [Reports -> Nat] /\ delivered \in [Reports -> Nat]
  BY DEF Control
<1>a. Counts => faults' \in 0..MaxFaults
  BY <1>0 DEF Counts, BoundsOK
<1>1. ASSUME RowTypeOK', UNCHANGED <<cron, bounds, history>> PROVE Goal
  BY <1>0, <1>1 DEF ScheduleTypeOK, BoundsOK, bounds, history
<1>2. ASSUME UNCHANGED rowVars PROVE RowTypeOK'
  BY <1>0, <1>2 DEF RowTypeOK, rowVars
<1>3. ASSUME NEW r \in Reports, CreateReport(w, r) PROVE Goal
  <2>1. RowTypeOK'
    BY <1>0, <1>3 DEF CreateReport, RowTypeOK, RowStatus
  <2> QED
    BY <1>1, <1>3, <2>1 DEF CreateReport
<1>4. ASSUME NEW r \in Reports, NEW o, StartRequest(w, r, o) PROVE Goal
  BY <1>1, <1>2, <1>4 DEF StartRequest
<1>5. ASSUME NEW r \in Reports, StartPause(w, r) \/ StartResume(w, r) PROVE Goal
  <2>1. UNCHANGED <<rowVars, bounds, disturbed, stamped, delivered>>
    BY <1>5 DEF StartPause, StartResume
  <2>2. ScheduleTypeOK'
    BY <1>0, <1>5 DEF StartPause, StartResume, Ask, ScheduleTypeOK
  <2> QED
    BY <1>0, <1>2, <2>1, <2>2 DEF BoundsOK, bounds
<1>6. ASSUME NEW r \in Reports, Tick(w, r) PROVE Goal
  <2>1. UNCHANGED <<rowVars, cron, history, mix, expiries, faults>> /\ ticks' \in 0..MaxTicks
    BY <1>0, <1>6 DEF Tick, BoundsOK
  <2> QED
    BY <1>0, <1>2, <2>1 DEF ScheduleTypeOK, BoundsOK, history
<1>7. CASE Edit(w)
  <2>1. rep[w] \in Reports
    BY <1>0, <1>7 DEF Edit, Fit
  <2>2. content[rep[w]] \in 0..MaxEdits
    BY <1>0, <2>1 DEF RowTypeOK, Versions
  <2>3. content[rep[w]] = MaxEdits \/ content[rep[w]] + 1 \in 0..MaxEdits
    BY <2>2
  <2>4. content' \in [Reports -> Versions]
    BY <1>0, <1>7, <2>1, <2>3 DEF Edit, RowTypeOK, Versions
  <2>5. RowTypeOK'
    BY <1>0, <1>7, <2>4 DEF Edit, RowTypeOK
  <2> QED
    BY <1>1, <1>7, <2>5 DEF Edit
<1>8. CASE Delete(w)
  <2>1. RowTypeOK'
    BY <1>0, <1>8 DEF Delete, RowTypeOK
  <2> QED
    BY <1>1, <1>8, <2>1 DEF Delete
<1>9. CASE Pause(w)
  <2>1. RowTypeOK'
    BY <1>0, <1>9 DEF Pause, RowTypeOK, RowStatus
  <2> QED
    BY <1>1, <1>9, <2>1 DEF Pause
<1>10. CASE Resume(w)
  <2>1. UNCHANGED <<rowVars, bounds, history>> /\ rep[w] \in Reports
    BY <1>0, <1>10 DEF Resume, Fit
  <2>2. ScheduleTypeOK'
    BY <1>0, <1>10, <2>1 DEF Resume, ScheduleTypeOK, RowTypeOK, history
  <2> QED
    BY <1>0, <1>2, <2>1, <2>2 DEF BoundsOK, bounds, history
<1>11. CASE Stamp(w) \/ Notify(w)
  <2>1. UNCHANGED <<rowVars, cron, bounds, disturbed, asked>>
    BY <1>11 DEF Stamp, Notify
  <2>2. stamped' \in [Reports -> Nat] /\ delivered' \in [Reports -> Nat]
    BY <1>0, <1>11 DEF Stamp, Notify
  <2> QED
    BY <1>0, <1>2, <2>1, <2>2 DEF ScheduleTypeOK, BoundsOK, bounds
<1>12. ASSUME NEW r \in Reports, NEW s \in RowStatus, NEW p \in {0, 10, 80, 100},
              SetRow(r, s, p), UNCHANGED file
       PROVE  RowTypeOK'
  BY <1>0, <1>12 DEF SetRow, RowTypeOK
<1>13. CASE StartProcessing(w)
  <2>1. RowTypeOK'
    <3>1. rep[w] \in Reports /\ "processing" \in RowStatus
      BY <1>0, <1>13 DEF StartProcessing, Fit, RowStatus
    <3> QED
      BY <1>12, <1>13, <3>1 DEF StartProcessing
  <2>2. disturbed' \in [Reports -> BOOLEAN]
    <3> DEFINE value == /\ disturbed[rep[w]]
                        /\ \/ deleted[rep[w]] \/ owner[rep[w]] # w
                           \/ \E v \in Slots \ {w} : rep[v] = rep[w]
    <3>1. disturbed' = [disturbed EXCEPT ![rep[w]] = value]
      BY <1>13 DEF StartProcessing
    <3>2. rep[w] \in Reports /\ value \in BOOLEAN
      BY <1>0, <1>13 DEF StartProcessing, Fit
    <3> HIDE DEF value
    <3> QED
      BY <1>0, <3>1, <3>2
  <2> QED
    BY <1>0, <1>13, <2>1, <2>2 DEF StartProcessing, ScheduleTypeOK, BoundsOK, bounds
<1>14. CASE ReportProgress(w)
  <2>1. status[rep[w]] \in RowStatus /\ rep[w] \in Reports
    BY <1>0, <1>14 DEF ReportProgress, Fit, RowTypeOK
  <2>2. RowTypeOK'
    BY <1>12, <1>14, <2>1 DEF ReportProgress
  <2> QED
    BY <1>1, <1>14, <2>2 DEF ReportProgress
<1>15. CASE MarkCompleted(w)
  <2>1. rep[w] \in Reports /\ "completed" \in RowStatus
    BY <1>0, <1>15 DEF MarkCompleted, Fit, RowStatus
  <2>2. RowTypeOK'
    BY <1>0, <1>15, <2>1 DEF MarkCompleted, SetRow, RowTypeOK, JobTypeOK
  <2> QED
    BY <1>1, <1>15, <2>2 DEF MarkCompleted
<1>16. CASE MarkFailed(w)
  <2>1. "failed" \in RowStatus /\ progress[rep[w]] \in {0, 10, 80, 100} /\ rep[w] \in Reports
    BY <1>0, <1>16 DEF MarkFailed, Fit, RowTypeOK, RowStatus
  <2>2. RowTypeOK'
    BY <1>12, <1>16, <2>1 DEF MarkFailed
  <2> QED
    BY <1>1, <1>16, <2>2 DEF MarkFailed
<1>17. ASSUME NEW r \in Reports, StartJob(w, r) PROVE Goal
  BY <1>1, <1>2, <1>17 DEF StartJob
<1>18. CASE Queue(w)
  BY <1>1, <1>2, <1>18 DEF Queue
<1>19. ASSUME GiveUp(w) \/ (\E label \in Label : Onward(w, label)) PROVE Goal
  <2>1. UNCHANGED <<rowVars, cron, mix, expiries, ticks, history>> /\ Counts
    BY <1>19 DEF GiveUp, Onward
  <2> QED
    BY <1>0, <1>a, <1>2, <2>1 DEF ScheduleTypeOK, BoundsOK, history
<1>20. CASE Breaks(w)
  <2>1. disturbed' \in [Reports -> BOOLEAN]
    BY <1>0, <1>20 DEF Breaks
  <2> QED
    BY <1>0, <1>a, <1>2, <1>20, <2>1 DEF Breaks, ScheduleTypeOK, BoundsOK
<1> HIDE DEF Goal
<1> QED
  BY <1>3, <1>4, <1>5, <1>6, <1>7, <1>8, <1>9, <1>10, <1>11, <1>13, <1>14, <1>15, <1>16, <1>17,
     <1>18, <1>19, <1>20, Zenon DEF Moves, Requests

\* An execution that ends gives up its lock; no other job changes.
LEMMA EndOK ==
  ASSUME Control, NEW w \in Slots, Throw(w) \/ Return(w)
  PROVE  /\ JobTypeOK'
         /\ \A r \in Reports :
               /\ owner[r] = w => owner'[r] = NoSlot
               /\ owner[r] # w => owner'[r] = owner[r] /\ job'[r] = job[r]
                                  /\ tries'[r] = tries[r] /\ stalls'[r] = stalls[r]
               /\ job'[r] \in {"waiting", "active"} =>
                     tries'[r] < JobAttempts /\ stalls'[r] <= MaxStalls
         /\ data' = data
<1>0. JobTypeOK /\ (\A r \in Reports : Locked(r)) /\ w # NoSlot
  BY DEF Control
<1>1. ASSUME NEW r \in Reports, owner[r] = w
      PROVE  /\ job[r] = "active" /\ tries[r] < JobAttempts /\ stalls[r] <= MaxStalls
             /\ tries[r] + 1 \in 0..JobAttempts
  <2>1. job[r] = "active" /\ tries[r] < JobAttempts /\ stalls[r] <= MaxStalls /\ tries[r] \in Nat
    BY <1>0, <1>1 DEF JobTypeOK, Locked
  <2> QED
    BY <2>1
<1>2. CASE Return(w)
  <2>1. job' \in [Reports -> JobState] /\ owner' \in [Reports -> Slots \cup {NoSlot}]
    BY <1>0, <1>2 DEF Return, JobTypeOK, JobState
  <2>2. UNCHANGED <<tries, stalls, data>>
    BY <1>2 DEF Return
  <2>3. \A r \in Reports : /\ owner[r] = w => owner'[r] = NoSlot /\ job'[r] = "completed"
                           /\ owner[r] # w => owner'[r] = owner[r] /\ job'[r] = job[r]
    BY <1>2 DEF Return
  <2> QED
    BY <1>0, <1>1, <2>1, <2>2, <2>3 DEF JobTypeOK, Locked
<1>3. CASE Throw(w)
  <2>1. tries' \in [Reports -> 0..JobAttempts]
    BY <1>0, <1>1, <1>3 DEF Throw, JobTypeOK
  <2>2. job' \in [Reports -> JobState] /\ owner' \in [Reports -> Slots \cup {NoSlot}]
    BY <1>0, <1>3 DEF Throw, JobTypeOK, JobState
  <2>3. UNCHANGED <<stalls, data>>
    BY <1>3 DEF Throw
  <2>4. ASSUME NEW r \in Reports, owner[r] = w
        PROVE  /\ owner'[r] = NoSlot /\ tries'[r] = tries[r] + 1
               /\ job'[r] = IF tries[r] + 1 < JobAttempts THEN "waiting" ELSE "failed"
    BY <1>3, <2>4 DEF Throw
  <2>5. \A r \in Reports : owner[r] # w =>
           owner'[r] = owner[r] /\ job'[r] = job[r] /\ tries'[r] = tries[r]
    BY <1>3 DEF Throw
  <2>6. \A r \in Reports : (job'[r] = "active") = (owner'[r] # NoSlot)
    BY <1>0, <2>4, <2>5 DEF JobTypeOK
  <2>7. \A r \in Reports : job'[r] \in {"waiting", "active"} =>
           tries'[r] < JobAttempts /\ stalls'[r] <= MaxStalls
    BY <1>0, <1>1, <2>3, <2>4, <2>5 DEF Locked
  <2> QED
    BY <1>0, <2>1, <2>2, <2>3, <2>4, <2>5, <2>6, <2>7 DEF JobTypeOK
<1> QED
  BY <1>2, <1>3

\* Who executes a job stays with its report unless the execution ends.
LEMMA ExecutorStays ==
  ASSUME Control, NEW w \in Workers, Moves(w), w \in Slots, pc[w] # "idle"
  PROVE  rep'[w] = rep[w] \/ Throw(w) \/ Return(w)
<1>0. WorkerTypeOK /\ Fit(w)
  BY DEF Control
<1>1. pc[w] \in Executing /\ w \notin Handlers /\ w \notin Crons
  BY <1>0 DEF Fit
<1>2. ASSUME \/ (\E label \in Label : Onward(w, label)) \/ StartProcessing(w) \/ ReportProgress(w)
      PROVE  UNCHANGED rep
  BY <1>2 DEF Onward, StartProcessing, ReportProgress, Goto
<1>3. ASSUME Breaks(w) \/ MarkCompleted(w) \/ MarkFailed(w) PROVE Throw(w) \/ Return(w)
  BY <1>3 DEF Breaks, MarkCompleted, MarkFailed
<1>4. ASSUME \/ (\E r \in Reports : StartJob(w, r)) \/ GiveUp(w) \/ Queue(w) \/ Edit(w) \/ Delete(w)
             \/ Pause(w) \/ Resume(w) \/ Stamp(w) \/ Notify(w)
      PROVE  FALSE
  BY <1>1, <1>4 DEF StartJob, Begin, GiveUp, Queue, Edit, Delete, Pause, Resume, Stamp, Notify,
     Executing
<1> QED
  BY <1>1, <1>2, <1>3, <1>4, Zenon DEF Moves

\* The jobs keep their types, and locks are held by those who execute.
LEMMA JobsStep ==
  ASSUME Control, NEW w \in Workers, Moves(w)
  PROVE  JobTypeOK' /\ \A r \in Reports : Locked(r)'
<1>0. /\ JobTypeOK /\ WorkerTypeOK /\ Fit(w) /\ WorkerTypeOK' /\ Alone(w)
      /\ \A r \in Reports : Locked(r)
  BY WorkerFit DEF Control
<1>a. RowTypeOK /\ Slots \subseteq Workers
  BY DEF Control, Workers
<1>1. ASSUME Throw(w) \/ Return(w), w \in Slots PROVE JobTypeOK' /\ \A r \in Reports : Locked(r)'
  <2>1. JobTypeOK'
    BY <1>1, EndOK
  <2>2. ASSUME NEW r \in Reports, owner'[r] # NoSlot PROVE rep'[owner'[r]] = r
    <3>1. owner[r] # w /\ owner'[r] = owner[r]
      BY <1>1, <2>2, EndOK
    <3>2. owner[r] \in Slots
      BY <1>0, <2>2, <3>1 DEF JobTypeOK
    <3> QED
      BY <1>0, <1>a, <2>2, <3>1, <3>2 DEF Alone, Locked
  <2> QED
    BY <1>1, <2>1, <2>2, EndOK DEF Locked
<1> DEFINE Ends == w \in Slots /\ (Throw(w) \/ Return(w))
<1>2. ASSUME ~Ends, NEW r \in Reports, owner[r] # NoSlot
      PROVE  rep'[owner[r]] = r
  <2>1. owner[r] \in Slots /\ rep[owner[r]] = r
    BY <1>0, <1>2 DEF JobTypeOK, Locked
  <2>2. CASE owner[r] = w
    <3>1. pc[w] # "idle"
      BY <1>0, <2>1, <2>2 DEF Fit
    <3> QED
      BY <1>2, <2>1, <2>2, <3>1, ExecutorStays
  <2>3. CASE owner[r] # w
    BY <1>0, <1>a, <2>1, <2>3 DEF Alone
  <2> QED
    BY <2>2, <2>3
<1>3. CASE UNCHANGED jobVars /\ ~Ends
  <2>1. JobTypeOK'
    BY <1>0, <1>3 DEF JobTypeOK, jobVars
  <2> QED
    BY <1>0, <1>2, <1>3, <2>1 DEF Locked, jobVars
<1>4. ASSUME NEW b \in Reports, StartJob(w, b), w \in Slots
      PROVE  JobTypeOK' /\ \A r \in Reports : Locked(r)'
  <2>1. rep'[w] = b /\ pc[w] = "idle"
    BY <1>0, <1>4 DEF StartJob, Begin, WorkerTypeOK
  <2>2. JobTypeOK'
    BY <1>0, <1>4 DEF StartJob, JobTypeOK, JobState
  <2>3. ASSUME NEW r \in Reports PROVE Locked(r)'
    <3>1. CASE r = b
      <4>1. owner'[r] = w /\ job[r] = "waiting"
        BY <1>0, <1>4, <3>1 DEF StartJob, JobTypeOK
      <4> QED
        BY <1>0, <1>4, <2>1, <3>1, <4>1 DEF Locked, StartJob
    <3>2. CASE r # b
      <4>1. owner'[r] = owner[r] /\ job'[r] = job[r] /\ tries' = tries /\ stalls' = stalls
        BY <1>0, <1>4, <3>2 DEF StartJob, JobTypeOK
      <4>2. owner[r] # NoSlot => owner[r] \in Slots /\ owner[r] # w
        <5>1. owner[r] # NoSlot => owner[r] \in Slots /\ rep[owner[r]] = r
          BY <1>0 DEF JobTypeOK, Locked
        <5>2. rep[w] # r
          BY <1>0, <2>1 DEF Fit
        <5> QED
          BY <5>1, <5>2
      <4> QED
        BY <1>0, <1>a, <4>1, <4>2 DEF Locked, Alone
    <3> QED
      BY <3>1, <3>2
  <2> QED
    BY <2>2, <2>3
<1>5. CASE Queue(w) /\ job[rep[w]] = "absent"
  <2>1. rep[w] \in Reports /\ w \notin Slots
    BY <1>0, <1>5 DEF Queue, Fit, Executing
  <2>2. content[rep[w]] \in Versions /\ 0 \in 0..JobAttempts /\ 0 \in 0..(MaxStalls + 1)
    BY <1>a, <2>1 DEF RowTypeOK
  <2>3. /\ job' = [job EXCEPT ![rep[w]] = "waiting"] /\ owner' = owner
        /\ tries' = [tries EXCEPT ![rep[w]] = 0] /\ stalls' = [stalls EXCEPT ![rep[w]] = 0]
        /\ data' = [data EXCEPT ![rep[w]] = content[rep[w]]]
    BY <1>5 DEF Queue
  <2>4. JobTypeOK'
    BY <1>0, <1>5, <2>1, <2>2, <2>3 DEF JobTypeOK, JobState
  <2>5. \A r \in Reports : owner'[r] # NoSlot => rep'[owner'[r]] = r
    BY <1>2, <2>1, <2>3
  <2>6. \A r \in Reports : job'[r] \in {"waiting", "active"} =>
           tries'[r] < JobAttempts /\ stalls'[r] <= MaxStalls
    BY <1>0, <2>1, <2>3 DEF JobTypeOK, Locked
  <2> QED
    BY <2>4, <2>5, <2>6 DEF Locked
<1>6. CASE Queue(w) /\ job[rep[w]] # "absent"
  <2>1. UNCHANGED jobVars /\ w \notin Slots
    BY <1>0, <1>6 DEF Queue, Fit, Executing
  <2> QED
    BY <1>3, <2>1
<1>7. ASSUME ~Ends, ~Queue(w), ~\E r \in Reports : w \in Slots /\ StartJob(w, r)
      PROVE  UNCHANGED jobVars
  <2>1. CASE Requests(w)
    BY <2>1 DEF Requests, CreateReport, StartRequest, StartPause, StartResume
  <2>2. CASE w \notin Slots
    <3>1. pc[w] \notin Executing
      BY <1>0, <2>2 DEF Fit
    <3> QED
      BY <1>7, <2>1, <2>2, <3>1 DEF Moves, Tick, GiveUp, Onward, Breaks, Edit, Delete, Pause,
         Resume, Stamp, Notify, StartProcessing, ReportProgress, MarkCompleted, MarkFailed,
         Executing
  <2>3. CASE w \in Slots
    <3>1. w \notin Handlers /\ w \notin Crons
      BY <2>3
    <3> QED
      BY <1>7, <2>1, <2>3, <3>1 DEF Moves, GiveUp, Onward, Breaks, Edit, Delete, Pause,
         Resume, Stamp, Notify, StartProcessing, ReportProgress, MarkCompleted, MarkFailed
  <2> QED
    BY <2>2, <2>3
<1> QED
  BY <1>1, <1>3, <1>4, <1>5, <1>6, <1>7

\* A job that loses its lock waits again, or has failed.
LEMMA UnlockOK ==
  ASSUME Control, NEW rs \in SUBSET Reports, \A r \in rs : owner[r] # NoSlot, Unlock(rs)
  PROVE  /\ JobTypeOK'
         /\ \A r \in Reports :
               /\ r \in rs => owner'[r] = NoSlot
               /\ r \notin rs => owner'[r] = owner[r] /\ job'[r] = job[r]
               /\ job'[r] \in {"waiting", "active"} =>
                     tries'[r] < JobAttempts /\ stalls'[r] <= MaxStalls
         /\ data' = data
<1>0. JobTypeOK /\ \A r \in Reports : Locked(r)
  BY DEF Control
<1>1. ASSUME NEW r \in rs
      PROVE  /\ tries[r] < JobAttempts
             /\ stalls[r] + 1 \in 0..(MaxStalls + 1)
             /\ stalls[r] < MaxStalls => stalls[r] + 1 <= MaxStalls
  <2>1. job[r] = "active" /\ stalls[r] <= MaxStalls /\ stalls[r] \in Nat /\ tries[r] < JobAttempts
    BY <1>0, <1>1 DEF JobTypeOK, Locked
  <2> QED
    BY <2>1
<1>2. stalls' \in [Reports -> 0..(MaxStalls + 1)]
  BY <1>0, <1>1 DEF Unlock, JobTypeOK
<1>3. job' \in [Reports -> JobState] /\ owner' \in [Reports -> Slots \cup {NoSlot}]
  BY <1>0 DEF Unlock, JobTypeOK, JobState
<1>4. tries' = tries /\ data' = data
  BY DEF Unlock
<1>5. ASSUME NEW r \in rs
      PROVE  /\ owner'[r] = NoSlot /\ stalls'[r] = stalls[r] + 1
             /\ job'[r] = IF stalls[r] < MaxStalls THEN "waiting" ELSE "failed"
  BY <1>5 DEF Unlock
<1>6. \A r \in Reports : r \notin rs =>
         owner'[r] = owner[r] /\ job'[r] = job[r] /\ stalls'[r] = stalls[r]
  BY DEF Unlock
<1>7. \A r \in Reports : (job'[r] = "active") = (owner'[r] # NoSlot)
  BY <1>0, <1>5, <1>6 DEF JobTypeOK
<1>8. \A r \in Reports : job'[r] \in {"waiting", "active"} =>
         tries'[r] < JobAttempts /\ stalls'[r] <= MaxStalls
  BY <1>0, <1>1, <1>4, <1>5, <1>6 DEF Locked
<1> QED
  BY <1>0, <1>2, <1>3, <1>4, <1>5, <1>6, <1>7, <1>8 DEF JobTypeOK

\* Control holds at first.
LEMMA ControlInit == Init => Control
<1> SUFFICES ASSUME Init PROVE Control
  OBVIOUS
<1> USE DEF Init
<1>1. 0 \in 0..JobAttempts /\ 0 \in 0..(MaxStalls + 1) /\ 0 \in Versions
  BY DEF Versions
<1>2. RowTypeOK /\ JobTypeOK
  BY <1>1 DEF RowTypeOK, RowStatus, JobTypeOK, JobState
<1>3. WorkerTypeOK /\ ScheduleTypeOK /\ BoundsOK
  BY DEF WorkerTypeOK, Label, Operation, ScheduleTypeOK, BoundsOK
<1>4. \A w \in Workers : Fit(w)
  BY DEF Fit, Executing
<1>5. \A r \in Reports : Locked(r)
  BY DEF Locked
<1>6. /\ disturbed \in [Reports -> BOOLEAN]
      /\ stamped \in [Reports -> Nat] /\ delivered \in [Reports -> Nat]
  OBVIOUS
<1> QED
  BY <1>2, <1>3, <1>4, <1>5, <1>6 DEF Control

\* Control is inductive.
LEMMA ControlStep == Control /\ [Next]_vars => Control'
<1> SUFFICES ASSUME Control, [Next]_vars PROVE Control'
  OBVIOUS
<1>0. /\ RowTypeOK /\ JobTypeOK /\ WorkerTypeOK /\ ScheduleTypeOK /\ BoundsOK
      /\ disturbed \in [Reports -> BOOLEAN]
      /\ stamped \in [Reports -> Nat] /\ delivered \in [Reports -> Nat]
      /\ (\A w \in Workers : Fit(w)) /\ \A r \in Reports : Locked(r)
  BY DEF Control
<1>1. ASSUME NEW w \in Workers, Moves(w) PROVE Control'
  <2>1. /\ RowTypeOK' /\ ScheduleTypeOK' /\ BoundsOK'
        /\ disturbed' \in [Reports -> BOOLEAN]
        /\ stamped' \in [Reports -> Nat] /\ delivered' \in [Reports -> Nat]
    BY <1>1, RowsStep
  <2>2. JobTypeOK' /\ \A r \in Reports : Locked(r)'
    BY <1>1, JobsStep
  <2>3. WorkerTypeOK' /\ Alone(w) /\ Fit(w)'
    BY <1>1, WorkerFit
  <2>4. ASSUME NEW v \in Workers, v # w PROVE Fit(v)'
    BY <1>0, <2>3, <2>4 DEF Alone, Fit
  <2> QED
    BY <2>1, <2>2, <2>3, <2>4 DEF Control
<1>2. ASSUME UNCHANGED <<workerVars, tries, stalls, owner, data, cron, asked, stamped, delivered>>,
             RowTypeOK', BoundsOK', UNCHANGED disturbed, job' \in [Reports -> JobState],
             \A r \in Reports : job'[r] = job[r] \/ (job[r] # "active" /\ job'[r] = "absent")
      PROVE  Control'
  <2>1. JobTypeOK' /\ \A r \in Reports : Locked(r)'
    BY <1>0, <1>2 DEF JobTypeOK, Locked, workerVars
  <2>2. WorkerTypeOK' /\ ScheduleTypeOK' /\ \A w \in Workers : Fit(w)'
    BY <1>0, <1>2 DEF WorkerTypeOK, ScheduleTypeOK, workerVars, Fit
  <2> QED
    BY <1>0, <1>2, <2>1, <2>2 DEF Control
<1>3. ASSUME NEW b \in Reports, CreateOnly(b) PROVE Control'
  <2>1. RowTypeOK'
    BY <1>0, <1>3 DEF CreateOnly, RowTypeOK, RowStatus
  <2>2. /\ UNCHANGED <<workerVars, tries, stalls, owner, data, cron, asked, stamped, delivered>>
        /\ UNCHANGED <<disturbed, job, mix, expiries, ticks, faults>>
    BY <1>3 DEF CreateOnly, jobVars, bounds, history
  <2>3. BoundsOK' /\ job' \in [Reports -> JobState]
    BY <1>0, <2>2 DEF BoundsOK, JobTypeOK
  <2> QED
    BY <1>2, <2>1, <2>2, <2>3
<1>4. ASSUME NEW b \in Reports, ExpireJob(b) PROVE Control'
  <2>1. UNCHANGED rowVars => RowTypeOK'
    BY <1>0 DEF RowTypeOK, rowVars
  <2>2. expiries' \in 0..MaxExpiries /\ UNCHANGED <<mix, ticks, faults>>
    BY <1>0, <1>4 DEF ExpireJob, BoundsOK
  <2>3. /\ job' \in [Reports -> JobState]
        /\ \A r \in Reports : job'[r] = job[r] \/ (job[r] # "active" /\ job'[r] = "absent")
    BY <1>0, <1>4 DEF ExpireJob, JobTypeOK, JobState
  <2>4. /\ UNCHANGED <<workerVars, tries, stalls, owner, data, cron, asked, stamped, delivered>>
        /\ UNCHANGED <<disturbed, rowVars>>
    BY <1>4 DEF ExpireJob, history
  <2>5. BoundsOK'
    BY <1>0, <2>2 DEF BoundsOK
  <2> QED
    BY <1>2, <2>1, <2>3, <2>4, <2>5
<1>5. ASSUME NEW b \in Reports, Stall(b) PROVE Control'
  <2>1. {b} \in SUBSET Reports /\ Unlock({b}) /\ \A r \in {b} : owner[r] # NoSlot
    BY <1>5 DEF Stall
  <2>2. JobTypeOK'
    BY <2>1, UnlockOK
  <2>3. \A r \in Reports : Locked(r)'
    BY <1>0, <1>5, <2>1, UnlockOK DEF Locked, Stall, workerVars
  <2>4. /\ RowTypeOK' /\ WorkerTypeOK' /\ ScheduleTypeOK' /\ BoundsOK'
        /\ \A w \in Workers : Fit(w)'
    BY <1>0, <1>5 DEF Stall, RowTypeOK, WorkerTypeOK, ScheduleTypeOK, BoundsOK, Fit, rowVars,
       workerVars
  <2>5. disturbed' \in [Reports -> BOOLEAN] /\ UNCHANGED <<stamped, delivered>>
    BY <1>0, <1>5 DEF Stall
  <2> QED
    BY <1>0, <2>2, <2>3, <2>4, <2>5 DEF Control
<1>6. CASE Crash
  <2> DEFINE locked == {r \in Reports : owner[r] # NoSlot}
  <2>1. locked \in SUBSET Reports /\ Unlock(locked) /\ \A r \in locked : owner[r] # NoSlot
    BY <1>6 DEF Crash
  <2>2. JobTypeOK'
    BY <2>1, UnlockOK
  <2>3. ASSUME NEW r \in Reports PROVE Locked(r)'
    <3> HIDE DEF locked
    <3>1. owner'[r] = NoSlot
      <4>1. r \in locked => owner'[r] = NoSlot
        BY <2>1, UnlockOK
      <4>2. r \notin locked => owner'[r] = owner[r]
        BY <2>1, UnlockOK
      <4> QED
        BY <4>1, <4>2 DEF locked
    <3>2. job'[r] \in {"waiting", "active"} => tries'[r] < JobAttempts /\ stalls'[r] <= MaxStalls
      BY <2>1, UnlockOK
    <3> QED
      BY <3>1, <3>2 DEF Locked
  <2>4. /\ RowTypeOK' /\ WorkerTypeOK' /\ ScheduleTypeOK' /\ BoundsOK'
        /\ \A w \in Workers : Fit(w)'
    BY <1>0, <1>6 DEF Crash, RowTypeOK, WorkerTypeOK, ScheduleTypeOK, BoundsOK, Fit, rowVars,
       Label, Operation, Executing
  <2>5. disturbed' \in [Reports -> BOOLEAN] /\ UNCHANGED <<stamped, delivered>>
    <3>1. \A r \in Reports : (disturbed[r] \/ r \in locked) \in BOOLEAN
      OBVIOUS
    <3> QED
      BY <1>6, <3>1 DEF Crash
  <2> QED
    BY <1>0, <2>2, <2>3, <2>4, <2>5 DEF Control
<1>7. CASE UNCHANGED vars
  BY <1>0, <1>7 DEF vars, rowVars, jobVars, workerVars, bounds, history, Control, RowTypeOK,
     JobTypeOK, WorkerTypeOK, ScheduleTypeOK, BoundsOK, Fit, Locked
<1> QED
  BY <1>1, <1>3, <1>4, <1>5, <1>6, <1>7, Alternatives DEF Elsewhere

-----------------------------------------------------------------------------
(***************************************************************************)
(* What a row says of its job.                                             *)
(***************************************************************************)
\* A report that is completed is whole; once the queue is done with a job, the row says so.
Whole(r) == status[r] = "completed" /\ ~disturbed[r] => progress[r] = 100 /\ file[r] # NoFile

Told(r) ==
    /\ job[r] \in {"completed", "failed"}
    /\ \A w \in Slots : rep[w] # r
    /\ ~deleted[r] /\ ~disturbed[r]
    => /\ status[r] \in {job[r], "paused"}
       /\ job[r] = "completed" => file[r] = data[r]

Story(r) == Tended(r) /\ Whole(r) /\ Told(r)

\* The slots at work on a report stay at work on it, and no others join them.
Steady(r) ==
    \A v \in Slots :
        /\ rep'[v] = r => rep[v] = r
        /\ rep[v] = r => rep'[v] = r /\ (pc[v] = "start" => pc'[v] = "start")

\* A report that nobody writes to keeps its story, deleted or not, until its job goes on.
LEMMA StoryQuiet ==
  ASSUME NEW r \in Reports, Story(r), Steady(r),
         status'[r] = status[r], progress'[r] = progress[r], file'[r] = file[r],
         disturbed'[r] = disturbed[r], deleted[r] => deleted'[r], owner'[r] = owner[r],
         (job'[r] = job[r] /\ data'[r] = data[r]) \/ job'[r] \notin {"completed", "failed"}
  PROVE  Story(r)'
<1>1. Tended(r)'
  BY DEF Story, Tended, Steady
<1>2. Whole(r)'
  BY DEF Story, Whole
<1>3. Told(r)'
  BY DEF Story, Told, Steady
<1> QED
  BY <1>1, <1>2, <1>3 DEF Story

\* A report that is disturbed may have any story.
LEMMA StoryDisturbed ==
  ASSUME NEW r \in Reports, disturbed'[r]
  PROVE  Story(r)'
  BY DEF Story, Tended, Whole, Told

\* A report that is paused, or created, keeps its story.
LEMMA StoryPaused ==
  ASSUME NEW r \in Reports, Story(r), Steady(r), RowTypeOK,
         \/ status'[r] = "paused"
         \/ status[r] = "absent" /\ status'[r] = "pending",
         UNCHANGED <<file, deleted, job, owner, data, disturbed>>
  PROVE  Story(r)'
<1>1. Tended(r)'
  BY DEF Story, Tended, Steady
<1>2. Whole(r)'
  BY DEF Whole
<1>3. Told(r)'
  BY DEF Story, Told, Steady
<1> QED
  BY <1>1, <1>2, <1>3 DEF Story

\* Requests and scheduled executions leave the story of every report as it is.
LEMMA StoryOutside ==
  ASSUME Control, NEW w \in Workers \ Slots, Moves(w), NEW r \in Reports, Story(r)
  PROVE  Story(r)'
<1>0. RowTypeOK /\ JobTypeOK /\ Fit(w) /\ Alone(w)
  BY WorkerFit DEF Control
<1>1. Steady(r) /\ pc[w] \notin Executing
  BY <1>0 DEF Steady, Alone, Workers, Fit
<1>2. CASE UNCHANGED <<status, progress, file, disturbed, deleted, owner, job, data>>
  BY <1>1, <1>2, StoryQuiet
<1>3. ASSUME NEW b \in Reports, CreateReport(w, b) PROVE Story(r)'
  <2>1. UNCHANGED <<progress, file, disturbed, deleted, owner, job, data>>
    BY <1>3 DEF CreateReport, jobVars, history
  <2>2. CASE r = b
    <3>1. status[r] = "absent" /\ status'[r] = "pending"
      BY <1>0, <1>3, <2>2 DEF CreateReport, RowTypeOK
    <3> QED
      BY <1>0, <1>1, <2>1, <3>1, StoryPaused
  <2>3. CASE r # b
    <3>1. status'[r] = status[r]
      BY <1>0, <1>3, <2>3 DEF CreateReport, RowTypeOK
    <3> QED
      BY <1>1, <2>1, <3>1, StoryQuiet
  <2> QED
    BY <2>2, <2>3
<1>4. CASE Pause(w)
  <2>1. UNCHANGED <<progress, file, disturbed, deleted, owner, job, data>>
    BY <1>4 DEF Pause, jobVars, history
  <2>2. status'[r] = status[r] \/ status'[r] = "paused"
    BY <1>0, <1>4 DEF Pause, RowTypeOK
  <2> QED
    BY <1>0, <1>1, <2>1, <2>2, StoryPaused, StoryQuiet
<1>5. CASE Queue(w)
  <2>1. UNCHANGED <<status, progress, file, disturbed, deleted, owner>>
    BY <1>5 DEF Queue, jobVars, rowVars, history
  <2>2. rep[w] \in Reports
    BY <1>0, <1>5 DEF Queue, Fit
  <2>3. (job'[r] = job[r] /\ data'[r] = data[r]) \/ job'[r] \notin {"completed", "failed"}
    BY <1>0, <1>5, <2>2 DEF Queue, jobVars, JobTypeOK
  <2> QED
    BY <1>1, <2>1, <2>3, StoryQuiet
<1>6. CASE Delete(w)
  <2>1. UNCHANGED <<status, progress, file, disturbed, owner, job, data>>
    BY <1>6 DEF Delete, jobVars, history
  <2>2. deleted[r] => deleted'[r]
    BY <1>0, <1>6 DEF Delete, RowTypeOK
  <2> QED
    BY <1>1, <2>1, <2>2, StoryQuiet
<1>7. ASSUME ~Pause(w), ~Queue(w), ~Delete(w), ~\E b \in Reports : CreateReport(w, b)
      PROVE  UNCHANGED <<status, progress, file, disturbed, deleted, owner, job, data>>
  <2>1. CASE Requests(w)
    BY <1>7, <2>1 DEF Requests, StartRequest, StartPause, StartResume, rowVars, jobVars, history
  <2>2. CASE ~Requests(w)
    BY <1>1, <1>7, <2>2 DEF Moves, Tick, GiveUp, Onward, Breaks, Edit, Resume, Stamp, Notify,
       StartProcessing, ReportProgress, MarkCompleted, MarkFailed, Executing, rowVars, jobVars,
       history
  <2> QED
    BY <2>1, <2>2
<1> QED
  BY <1>2, <1>3, <1>4, <1>5, <1>6, <1>7

\* A slot leaves the story of every report but its own as it is.
LEMMA StoryOther ==
  ASSUME Control, NEW w \in Slots, Moves(w), NEW r \in Reports, Story(r), rep[w] # r,
         rep'[w] # r
  PROVE  Story(r)'
<1>0. /\ RowTypeOK /\ JobTypeOK /\ Fit(w) /\ Alone(w) /\ Locked(r) /\ w \in Workers
      /\ disturbed \in [Reports -> BOOLEAN]
  BY WorkerFit DEF Control, Workers
<1>1. /\ Steady(r) /\ w \notin Handlers /\ w \notin Crons /\ pc[w] \in Executing \cup {"idle"}
      /\ owner[r] # w /\ (pc[w] # "idle" => rep[w] \in Reports)
  BY <1>0 DEF Steady, Alone, Workers, Fit, Locked
<1>2. ASSUME Throw(w) \/ Return(w)
      PROVE  owner'[r] = owner[r] /\ job'[r] = job[r] /\ data'[r] = data[r]
  BY <1>1, <1>2, EndOK
<1>3. ASSUME NEW b \in Reports, StartJob(w, b)
      PROVE  /\ UNCHANGED <<status, progress, file, disturbed, deleted, data>>
             /\ owner'[r] = owner[r] /\ job'[r] = job[r]
  <2>1. r # b
    BY <1>0, <1>3 DEF StartJob, Begin, Control, WorkerTypeOK
  <2> QED
    BY <1>0, <1>3, <2>1 DEF StartJob, rowVars, history, JobTypeOK
<1>4. ASSUME \/ StartProcessing(w) \/ ReportProgress(w) \/ MarkCompleted(w) \/ MarkFailed(w)
             \/ Breaks(w) \/ \E label \in Label : Onward(w, label)
      PROVE  /\ status'[r] = status[r] /\ progress'[r] = progress[r] /\ file'[r] = file[r]
             /\ deleted' = deleted /\ disturbed'[r] = disturbed[r]
             /\ \/ Throw(w) \/ Return(w)
                \/ owner'[r] = owner[r] /\ job'[r] = job[r] /\ data'[r] = data[r]
  BY <1>0, <1>4 DEF StartProcessing, ReportProgress, MarkCompleted, MarkFailed, Breaks, Onward,
     SetRow, rowVars, jobVars, history, RowTypeOK
<1>5. ASSUME GiveUp(w) \/ Queue(w) \/ Edit(w) \/ Delete(w) \/ Pause(w) \/ Resume(w) \/ Stamp(w)
             \/ Notify(w)
      PROVE  FALSE
  BY <1>1, <1>5 DEF GiveUp, Queue, Edit, Delete, Pause, Resume, Stamp, Notify, Executing
<1>6. CASE \E b \in Reports : StartJob(w, b)
  BY <1>1, <1>3, <1>6, StoryQuiet
<1>7. CASE ~\E b \in Reports : StartJob(w, b)
  <2>1. /\ status'[r] = status[r] /\ progress'[r] = progress[r] /\ file'[r] = file[r]
        /\ deleted' = deleted /\ disturbed'[r] = disturbed[r]
        /\ \/ Throw(w) \/ Return(w)
           \/ owner'[r] = owner[r] /\ job'[r] = job[r] /\ data'[r] = data[r]
    BY <1>1, <1>4, <1>5, <1>7, Zenon DEF Moves
  <2>2. owner'[r] = owner[r] /\ job'[r] = job[r] /\ data'[r] = data[r]
    BY <1>2, <2>1
  <2> QED
    BY <1>1, <2>1, <2>2, StoryQuiet
<1> QED
  BY <1>6, <1>7

\* A slot that is alone on an undisturbed report tells its story.
LEMMA StoryOwn ==
  ASSUME Control, NEW w \in Slots, Moves(w), NEW r \in Reports, Story(r),
         rep[w] = r \/ rep'[w] = r
  PROVE  Story(r)'
<1> SUFFICES ASSUME ~disturbed'[r] PROVE Story(r)'
  BY StoryDisturbed
<1>0. /\ RowTypeOK /\ JobTypeOK /\ WorkerTypeOK /\ Fit(w) /\ Alone(w) /\ Locked(r)
      /\ w \in Workers /\ Slots \subseteq Workers
      /\ disturbed \in [Reports -> BOOLEAN] /\ WorkerTypeOK'
  BY WorkerFit DEF Control, Workers
<1>1. w \notin Handlers /\ w \notin Crons /\ pc[w] \in Executing \cup {"idle"}
  BY <1>0 DEF Fit
<1>a. \A v \in Slots : v # w => rep'[v] = rep[v] /\ pc'[v] = pc[v]
  BY <1>0 DEF Alone
<1>2. ASSUME NEW b \in Reports, StartJob(w, b) PROVE Story(r)'
  <2>1. pc[w] = "idle" /\ rep'[w] = b /\ pc'[w] = "start"
    BY <1>0, <1>2 DEF StartJob, Begin, WorkerTypeOK
  <2>2. b = r
    BY <1>0, <2>1 DEF Fit
  <2>3. /\ owner[r] = NoSlot /\ owner'[r] = w /\ job'[r] = "active"
        /\ UNCHANGED <<status, progress, file, disturbed, deleted, data>>
    BY <1>0, <1>2, <2>2 DEF StartJob, JobTypeOK, rowVars, history
  <2>4. \A v \in Slots : v # w => rep'[v] # r
    BY <1>a, <2>3 DEF Story, Tended
  <2>5. Tended(r)'
    BY <2>1, <2>3, <2>4 DEF Tended
  <2>6. Whole(r)' /\ Told(r)'
    BY <2>3 DEF Story, Whole, Told
  <2> QED
    BY <2>5, <2>6 DEF Story
<1>3. ASSUME NEW label \in Label, Onward(w, label) PROVE Story(r)'
  <2>1. UNCHANGED <<status, progress, file, disturbed, deleted, owner, job, data, rep>>
    BY <1>3 DEF Onward, Goto, rowVars, jobVars, history
  <2>2. pc[w] # "start"
    BY <1>3 DEF Onward
  <2>3. Steady(r)
    BY <1>a, <2>1, <2>2 DEF Steady
  <2> QED
    BY <2>1, <2>3, StoryQuiet
<1>4. ASSUME pc[w] # "idle", rep'[w] = rep[w] \/ rep'[w] = NoReport PROVE rep[w] = r
  BY <1>4
<1>5. CASE StartProcessing(w)
  <2>1. pc[w] = "start" /\ rep' = rep /\ pc'[w] = "build" /\ rep[w] = r
    BY <1>0, <1>5 DEF StartProcessing, Goto, WorkerTypeOK
  <2>2. UNCHANGED <<file, deleted, owner, job, data>>
    BY <1>5 DEF StartProcessing, SetRow, jobVars
  <2>3. /\ ~deleted[r] => status'[r] = "processing"
        /\ deleted[r] => status'[r] = status[r] /\ progress'[r] = progress[r]
    BY <1>0, <1>5, <2>1 DEF StartProcessing, SetRow, RowTypeOK
  <2>4. disturbed'[r] = (/\ disturbed[r]
                         /\ \/ deleted[r] \/ owner[r] # w
                            \/ \E v \in Slots \ {w} : rep[v] = r)
    BY <1>0, <1>5, <2>1 DEF StartProcessing
  <2>5. owner[r] = w /\ \A v \in Slots : rep[v] = r => v = w
    <3>1. CASE disturbed[r]
      BY <2>4, <3>1
    <3>2. CASE ~disturbed[r]
      BY <2>1, <3>2 DEF Story, Tended
    <3> QED
      BY <3>1, <3>2
  <2>6. Tended(r)'
    BY <2>1, <2>2, <2>3, <2>5 DEF Tended
  <2>7. Whole(r)'
    <3>1. CASE deleted[r]
      <4>1. ~disturbed[r]
        BY <2>4, <3>1
      <4> QED
        BY <2>2, <2>3, <3>1, <4>1 DEF Story, Whole
    <3>2. CASE ~deleted[r]
      BY <2>3, <3>2 DEF Whole
    <3> QED
      BY <3>1, <3>2
  <2>8. Told(r)'
    BY <2>1 DEF Told
  <2> QED
    BY <2>6, <2>7, <2>8 DEF Story
<1>6. CASE ReportProgress(w)
  <2>1. pc[w] = "progress" /\ rep' = rep /\ pc'[w] = "complete" /\ rep[w] = r
    BY <1>0, <1>6 DEF ReportProgress, Goto, WorkerTypeOK
  <2>2. UNCHANGED <<file, deleted, owner, job, data, disturbed>>
    BY <1>6 DEF ReportProgress, SetRow, jobVars, history
  <2>3. status'[r] = status[r] /\ (deleted[r] => progress'[r] = progress[r])
    BY <1>0, <1>6, <2>1 DEF ReportProgress, SetRow, RowTypeOK
  <2>4. Tended(r)'
    BY <1>a, <2>1, <2>2, <2>3 DEF Story, Tended
  <2>5. Whole(r)'
    BY <2>1, <2>2, <2>3 DEF Story, Tended, Whole
  <2>6. Told(r)'
    BY <2>1 DEF Told
  <2> QED
    BY <2>4, <2>5, <2>6 DEF Story
<1>7. CASE MarkCompleted(w) \/ MarkFailed(w)
  <2>1. pc[w] \in {"complete", "fail"} /\ rep'[w] = NoReport /\ rep[w] = r
    BY <1>0, <1>7 DEF MarkCompleted, MarkFailed, Return, Throw, Leave, WorkerTypeOK
  <2>2. UNCHANGED <<deleted, data, disturbed>>
    BY <1>7 DEF MarkCompleted, MarkFailed, Return, Throw, SetRow, history
  <2>3. owner[r] = w /\ \A v \in Slots : rep[v] = r => v = w
    BY <2>1, <2>2 DEF Story, Tended
  <2>4. Tended(r)'
    BY <1>a, <2>1, <2>3 DEF Tended
  <2>5. data[r] \in Versions /\ data[r] # NoFile
    BY <1>0 DEF JobTypeOK
  <2>6. deleted[r] => status'[r] = status[r] /\ progress'[r] = progress[r] /\ file'[r] = file[r]
    BY <1>0, <1>7, <2>1 DEF MarkCompleted, MarkFailed, SetRow, RowTypeOK
  <2>7. CASE MarkCompleted(w)
    <3>1. /\ ~deleted[r] => status'[r] = "completed" /\ progress'[r] = 100 /\ file'[r] = data[r]
          /\ job'[r] = "completed"
      BY <1>0, <2>1, <2>3, <2>7 DEF MarkCompleted, SetRow, Return, RowTypeOK
    <3>2. Whole(r)'
      BY <2>2, <2>5, <2>6, <3>1 DEF Story, Whole
    <3>3. Told(r)'
      BY <2>2, <3>1 DEF Told
    <3> QED
      BY <2>4, <3>2, <3>3 DEF Story
  <2>8. CASE MarkFailed(w)
    <3>1. /\ ~deleted[r] => status'[r] = "failed"
          /\ job'[r] \in {"waiting", "failed"}
      BY <1>0, <2>1, <2>3, <2>8 DEF MarkFailed, SetRow, Throw, RowTypeOK
    <3>2. Whole(r)'
      BY <2>2, <2>6, <3>1 DEF Story, Whole
    <3>3. Told(r)'
      BY <2>2, <3>1 DEF Told
    <3> QED
      BY <2>4, <3>2, <3>3 DEF Story
  <2> QED
    BY <1>7, <2>7, <2>8
<1>8. CASE Breaks(w)
  <2>1. rep'[w] = NoReport /\ rep[w] = r
    BY <1>0, <1>8 DEF Breaks, Throw, Leave, WorkerTypeOK
  <2> QED
    BY <1>0, <1>8, <2>1 DEF Breaks
<1>9. ASSUME GiveUp(w) \/ Queue(w) \/ Edit(w) \/ Delete(w) \/ Pause(w) \/ Resume(w) \/ Stamp(w)
             \/ Notify(w)
      PROVE  FALSE
  BY <1>1, <1>9 DEF GiveUp, Queue, Edit, Delete, Pause, Resume, Stamp, Notify, Executing
<1> QED
  BY <1>1, <1>2, <1>3, <1>5, <1>6, <1>7, <1>8, <1>9, Zenon DEF Moves

\* Every story goes on.
LEMMA StoryStep ==
  ASSUME Control, [Next]_vars, NEW r \in Reports, Story(r)
  PROVE  Story(r)'
<1>0. /\ RowTypeOK /\ JobTypeOK /\ disturbed \in [Reports -> BOOLEAN] /\ Slots \subseteq Workers
      /\ WorkerTypeOK
  BY DEF Control, Workers
<1>1. ASSUME NEW w \in Workers, Moves(w) PROVE Story(r)'
  BY <1>1, StoryOutside, StoryOther, StoryOwn
<1>2. UNCHANGED workerVars => Steady(r)
  BY DEF Steady, workerVars
<1>3. ASSUME NEW b \in Reports, CreateOnly(b) PROVE Story(r)'
  <2>1. UNCHANGED <<progress, file, disturbed, deleted, owner, job, data>> /\ Steady(r)
    BY <1>2, <1>3 DEF CreateOnly, jobVars, history
  <2>2. status'[r] = status[r] \/ (status[r] = "absent" /\ status'[r] = "pending")
    BY <1>0, <1>3 DEF CreateOnly, RowTypeOK
  <2> QED
    BY <1>0, <2>1, <2>2, StoryPaused, StoryQuiet
<1>4. ASSUME NEW b \in Reports, ExpireJob(b) PROVE Story(r)'
  <2>1. UNCHANGED <<status, progress, file, disturbed, deleted, owner, data>> /\ Steady(r)
    BY <1>2, <1>4 DEF ExpireJob, rowVars, history
  <2>2. job'[r] \in {job[r], "absent"}
    BY <1>0, <1>4 DEF ExpireJob, JobTypeOK
  <2> QED
    BY <2>1, <2>2, StoryQuiet
<1>5. ASSUME NEW b \in Reports, Stall(b) PROVE Story(r)'
  <2>1. Steady(r) /\ UNCHANGED <<status, progress, file, deleted>>
    BY <1>2, <1>5 DEF Stall, rowVars
  <2>2. CASE r = b
    BY <1>0, <1>5, <2>2, StoryDisturbed DEF Stall
  <2>3. CASE r # b
    <3>1. owner'[r] = owner[r] /\ job'[r] = job[r] /\ data' = data /\ disturbed'[r] = disturbed[r]
      BY <1>0, <1>5, <2>3 DEF Stall, Unlock
    <3> QED
      BY <2>1, <3>1, StoryQuiet
  <2> QED
    BY <2>2, <2>3
<1>6. CASE Crash
  <2>1. CASE disturbed[r] \/ owner[r] # NoSlot
    <3>1. disturbed'[r] = (disturbed[r] \/ owner[r] # NoSlot)
      BY <1>6 DEF Crash
    <3> QED
      BY <2>1, <3>1, StoryDisturbed
  <2>2. CASE ~disturbed[r] /\ owner[r] = NoSlot
    <3>1. UNCHANGED <<status, progress, file, deleted>> /\ disturbed'[r] = disturbed[r]
      BY <1>0, <1>6, <2>2 DEF Crash, rowVars
    <3>2. owner'[r] = owner[r] /\ job'[r] = job[r] /\ data' = data
      BY <1>6, <2>2 DEF Crash, Unlock
    <3>3. \A v \in Slots : rep[v] # r /\ rep'[v] # r
      <4>1. \A v \in Slots : rep[v] # r
        BY <2>2 DEF Story, Tended
      <4>2. \A v \in Slots : rep'[v] = NoReport
        BY <1>0, <1>6 DEF Crash
      <4> QED
        BY <4>1, <4>2
    <3>4. Steady(r)
      BY <3>3 DEF Steady
    <3> QED
      BY <3>1, <3>2, <3>4, StoryQuiet
  <2> QED
    BY <2>1, <2>2
<1>7. CASE UNCHANGED vars
  <2>1. /\ UNCHANGED <<status, progress, file, disturbed, deleted, owner, job, data>>
        /\ Steady(r)
    BY <1>2, <1>7 DEF vars, rowVars, jobVars, workerVars, history
  <2> QED
    BY <2>1, StoryQuiet
<1> QED
  BY <1>1, <1>3, <1>4, <1>5, <1>6, <1>7, Alternatives DEF Elsewhere

-----------------------------------------------------------------------------
(***************************************************************************)
(* What pauses and resumes leave.                                          *)
(***************************************************************************)
\* What was asked of a report is still obeyed if neither its schedule nor its resumes change.
LEMMA ObeyedQuiet ==
  ASSUME NEW r \in Reports, Obeyed(r), cron'[r] = cron[r], asked'[r] = asked[r],
         status[r] # "absent" => status'[r] # "absent" /\ scheduled'[r] = scheduled[r],
         \A v \in Workers : (rep'[v] = r /\ op'[v] = "resume") = (rep[v] = r /\ op[v] = "resume")
  PROVE  Obeyed(r)'
  BY DEF Obeyed

\* A pause or a resume that begins is what was asked last, or meets another.
LEMMA ObeyedAsk ==
  ASSUME Control, NEW w \in Workers, NEW r \in Reports, NEW b \in Reports, Obeyed(r),
         StartPause(w, b) \/ StartResume(w, b)
  PROVE  Obeyed(r)'
<1>0. /\ ScheduleTypeOK /\ WorkerTypeOK /\ UNCHANGED rowVars
      /\ "write" \in Label /\ "schedule" \in Label /\ {"pause", "resume"} \subseteq Operation
  BY DEF Control, StartPause, StartResume, Label, Operation
<1>1. \/ op'[w] = "pause" /\ StartPause(w, b)
      \/ op'[w] = "resume" /\ StartResume(w, b)
  BY <1>0, BeginOK DEF StartPause, StartResume
<1>2. Alone(w) /\ rep'[w] = b /\ pc[w] = "idle"
  BY <1>0, BeginOK DEF StartPause, StartResume
<1>3. op[w] = "none" /\ rep[w] = NoReport
  BY <1>2 DEF Control, Fit
<1>4. CASE r # b
  <2>1. cron'[r] = cron[r] /\ asked'[r] = asked[r]
    BY <1>0, <1>4 DEF StartPause, StartResume, Ask, ScheduleTypeOK
  <2>2. \A v \in Workers : (rep'[v] = r /\ op'[v] = "resume") = (rep[v] = r /\ op[v] = "resume")
    BY <1>2, <1>3, <1>4 DEF Alone
  <2> QED
    BY <1>0, <2>1, <2>2, ObeyedQuiet DEF rowVars
<1>5. CASE r = b /\ StartPause(w, b) /\ op'[w] = "pause"
  <2>1. ~cron'[r]
    BY <1>0, <1>5 DEF StartPause, ScheduleTypeOK
  <2>2. /\ asked'[r] \in {"pause", "both"}
        /\ asked'[r] = "pause" => \A v \in Workers : rep[v] = r => op[v] # "resume"
    BY <1>0, <1>5 DEF StartPause, Ask, ScheduleTypeOK
  <2> QED
    BY <1>2, <1>5, <2>1, <2>2 DEF Obeyed, Alone
<1>6. CASE r = b /\ StartResume(w, b) /\ op'[w] = "resume"
  <2>1. asked'[r] \in {"resume", "both"}
    BY <1>0, <1>6 DEF StartResume, Ask, ScheduleTypeOK
  <2>2. status'[r] # "absent"
    BY <1>0, <1>6 DEF StartResume, Exists, rowVars
  <2> QED
    BY <1>2, <1>6, <2>1, <2>2 DEF Obeyed
<1> QED
  BY <1>1, <1>4, <1>5, <1>6

\* A resume puts the entry the row asks for.
LEMMA ObeyedResume ==
  ASSUME Control, NEW w \in Workers, NEW r \in Reports, Obeyed(r), Resume(w)
  PROVE  Obeyed(r)'
<1>1. /\ Alone(w) /\ rep'[w] = NoReport /\ op'[w] = "none"
      /\ op[w] = "resume" /\ rep[w] \in Reports
      /\ cron \in [Reports -> BOOLEAN] /\ UNCHANGED <<asked, rowVars>>
  BY LeaveOK DEF Control, Resume, Fit, history, ScheduleTypeOK
<1>2. CASE rep[w] = r
  BY <1>1, <1>2 DEF Obeyed, Resume, rowVars
<1>3. CASE rep[w] # r
  <2>1. cron'[r] = cron[r]
    BY <1>1, <1>3 DEF Resume
  <2>2. \A v \in Workers : (rep'[v] = r /\ op'[v] = "resume") = (rep[v] = r /\ op[v] = "resume")
    BY <1>1, <1>3 DEF Alone
  <2> QED
    BY <1>1, <2>1, <2>2, ObeyedQuiet DEF rowVars
<1> QED
  BY <1>2, <1>3

\* Every step leaves what was asked last obeyed.
LEMMA ObeyedStep ==
  ASSUME Control, [Next]_vars, NEW r \in Reports, Obeyed(r)
  PROVE  Obeyed(r)'
<1>0. RowTypeOK /\ ScheduleTypeOK /\ WorkerTypeOK /\ \A w \in Workers : Fit(w)
  BY DEF Control
<1>1. ASSUME NEW w \in Workers, Moves(w) PROVE Obeyed(r)'
  <2>1. Alone(w) /\ WorkerTypeOK' /\ Fit(w)' /\ Fit(w)
    BY <1>0, <1>1, WorkerFit
  <2>2. CASE Resume(w) \/ \E b \in Reports : StartPause(w, b) \/ StartResume(w, b)
    BY <2>2, ObeyedAsk, ObeyedResume
  <2>3. CASE ~(Resume(w) \/ \E b \in Reports : StartPause(w, b) \/ StartResume(w, b))
    <3>1. /\ UNCHANGED <<cron, asked, scheduled>> /\ pc[w] # "schedule" /\ pc'[w] # "schedule"
      <4>1. ASSUME w \in Handlers, Requests(w)
            PROVE  UNCHANGED <<cron, asked, scheduled>> /\ pc[w] # "schedule" /\ pc'[w] # "schedule"
        <5>1. PICK b \in Reports :
                \/ CreateReport(w, b)
                \/ \E o \in {"generate", "edit", "delete"} : StartRequest(w, b, o)
          BY <2>3, <4>1 DEF Requests
        <5> QED
          BY <1>0, <5>1 DEF CreateReport, StartRequest, Begin, WorkerTypeOK, rowVars, history
      <4>2. ASSUME \/ \E b \in Reports : StartJob(w, b)
                   \/ \E b \in Reports : Tick(w, b)
                   \/ GiveUp(w) \/ (\E label \in Label : Onward(w, label)) \/ Breaks(w)
                   \/ Queue(w) \/ Edit(w) \/ Delete(w) \/ Pause(w) \/ Stamp(w) \/ Notify(w)
                   \/ StartProcessing(w) \/ ReportProgress(w) \/ MarkCompleted(w) \/ MarkFailed(w)
            PROVE  UNCHANGED <<cron, asked, scheduled>> /\ pc[w] # "schedule" /\ pc'[w] # "schedule"
        BY <1>0, <4>2 DEF StartJob, Tick, GiveUp, Onward, Breaks, Queue, Edit, Delete, Pause, Stamp,
           Notify, StartProcessing, ReportProgress, MarkCompleted, MarkFailed, SetRow, Return,
           Throw, Leave, Goto, Begin, WorkerTypeOK, rowVars, jobVars, history, bounds
      <4> QED
        BY <1>1, <2>3, <4>1, <4>2, Zenon DEF Moves
    <3>2. op[w] # "resume" /\ op'[w] # "resume"
      BY <2>1, <3>1 DEF Fit
    <3>3. \A v \in Workers : (rep'[v] = r /\ op'[v] = "resume") = (rep[v] = r /\ op[v] = "resume")
      BY <2>1, <3>2 DEF Alone
    <3>4. status[r] # "absent" => status'[r] # "absent"
      BY <1>0, <1>1 DEF Moves, Requests, CreateReport, StartRequest, StartPause, StartResume,
         StartJob, Tick, GiveUp, Onward, Breaks, Queue, Edit, Delete, Pause, Resume, Stamp, Notify,
         StartProcessing, ReportProgress, MarkCompleted, MarkFailed, SetRow, rowVars, RowTypeOK
    <3> QED
      BY <3>1, <3>3, <3>4, ObeyedQuiet
  <2> QED
    BY <2>2, <2>3
<1>2. ASSUME NEW b \in Reports, CreateOnly(b) PROVE Obeyed(r)'
  <2>1. UNCHANGED <<cron, asked, workerVars>>
    BY <1>2 DEF CreateOnly, history
  <2>2. status[r] # "absent" => status'[r] # "absent" /\ scheduled'[r] = scheduled[r]
    BY <1>0, <1>2 DEF CreateOnly, RowTypeOK
  <2> QED
    BY <2>1, <2>2, ObeyedQuiet DEF workerVars
<1>3. ASSUME NEW b \in Reports, ExpireJob(b) \/ Stall(b) PROVE Obeyed(r)'
  <2>1. UNCHANGED <<cron, asked, workerVars, rowVars>>
    BY <1>3 DEF ExpireJob, Stall, history
  <2> QED
    BY <2>1, ObeyedQuiet DEF workerVars, rowVars
<1>4. CASE Crash
  BY <1>4 DEF Crash, Obeyed
<1>5. CASE UNCHANGED vars
  BY <1>5, ObeyedQuiet DEF vars, workerVars, rowVars, history
<1> QED
  BY <1>1, <1>2, <1>3, <1>4, <1>5, Alternatives DEF Elsewhere

-----------------------------------------------------------------------------
(***************************************************************************)
(* Executions, stamps and notifications.                                   *)
(***************************************************************************)
\* When one worker moves, each group of executions gains or loses at most that worker.
LEMMA GroupChanges ==
  ASSUME NEW w \in Workers, Alone(w), NEW r \in Reports
  PROVE  /\ Unstamped(r)' = IF rep'[w] = r /\ pc'[w] \in {"generate", "stamp"}
                            THEN Unstamped(r) \cup {w} ELSE Unstamped(r) \ {w}
         /\ Notifying(r)' = IF rep'[w] = r /\ pc'[w] = "notify"
                            THEN Notifying(r) \cup {w} ELSE Notifying(r) \ {w}
         /\ w \in Unstamped(r) <=> rep[w] = r /\ pc[w] \in {"generate", "stamp"}
         /\ w \in Notifying(r) <=> rep[w] = r /\ pc[w] = "notify"
  BY DEF Alone, Unstamped, Notifying, Workers

\* The groups stay as they are while the worker that moves is in the same one.
LEMMA GroupsStay ==
  ASSUME NEW w \in Workers, Alone(w), NEW r \in Reports,
         (rep'[w] = r /\ pc'[w] \in {"generate", "stamp"}) =
             (rep[w] = r /\ pc[w] \in {"generate", "stamp"}),
         (rep'[w] = r /\ pc'[w] = "notify") = (rep[w] = r /\ pc[w] = "notify")
  PROVE  Unstamped(r)' = Unstamped(r) /\ Notifying(r)' = Notifying(r)
  BY DEF Alone, Unstamped, Notifying

\* The counts stay in order while nothing is stamped or delivered and no group grows.
LEMMA CountedQuiet ==
  ASSUME Control, NEW r \in Reports, Counted(r),
         stamped'[r] = stamped[r], delivered'[r] = delivered[r],
         ticks' \in Int, ticks <= ticks', deleted[r] => deleted'[r],
         Unstamped(r)' = Unstamped(r) \/ Unstamped(r)' = {},
         Notifying(r)' = Notifying(r) \/ Notifying(r)' = {}
  PROVE  Counted(r)'
<1>1. /\ stamped[r] \in Nat /\ delivered[r] \in Nat /\ ticks \in Nat
      /\ IsFiniteSet(Unstamped(r)) /\ IsFiniteSet(Notifying(r))
  BY DEF Control, Counted, BoundsOK
<1>2. Cardinality(Unstamped(r)) \in Nat /\ Cardinality(Notifying(r)) \in Nat
  BY <1>1, FS_CardinalityType
<1>3. IsFiniteSet({}) /\ Cardinality({}) = 0
  BY FS_EmptySet
<1>4. /\ IsFiniteSet(Unstamped(r)') /\ Cardinality(Unstamped(r)') \in Nat
      /\ Cardinality(Unstamped(r)') <= Cardinality(Unstamped(r))
  <2>1. CASE Unstamped(r)' = Unstamped(r)
    BY <1>1, <1>2, <2>1
  <2>2. CASE Unstamped(r)' = {}
    BY <1>2, <1>3, <2>2
  <2> QED
    BY <2>1, <2>2
<1>5. /\ IsFiniteSet(Notifying(r)') /\ Cardinality(Notifying(r)') \in Nat
      /\ Cardinality(Notifying(r)') <= Cardinality(Notifying(r))
  <2>1. CASE Notifying(r)' = Notifying(r)
    BY <1>1, <1>2, <2>1
  <2>2. CASE Notifying(r)' = {}
    BY <1>2, <1>3, <2>2
  <2> QED
    BY <2>1, <2>2
<1> QED
  BY <1>1, <1>2, <1>4, <1>5 DEF Counted

\* An execution begins, is stamped, notifies or gives up.
LEMMA CountedExecution ==
  ASSUME Control, NEW w \in Workers, NEW r \in Reports, Counted(r), rep[w] = r \/ rep'[w] = r,
         Alone(w), WorkerTypeOK',
         (\E b \in Reports : Tick(w, b)) \/ Stamp(w) \/ Notify(w) \/ GiveUp(w)
  PROVE  Counted(r)'
<1> DEFINE u == Cardinality(Unstamped(r))
           n == Cardinality(Notifying(r))
<1>1. /\ stamped \in [Reports -> Nat] /\ delivered \in [Reports -> Nat]
      /\ ticks \in Nat /\ WorkerTypeOK /\ Fit(w) /\ NoReport \notin Reports
      /\ IsFiniteSet(Unstamped(r)) /\ IsFiniteSet(Notifying(r))
  BY DEF Control, Counted, BoundsOK
<1>2. u \in Nat /\ n \in Nat
  BY <1>1, FS_CardinalityType
<1>3. /\ stamped[r] + u <= ticks /\ delivered[r] + u + n <= ticks
      /\ ~deleted[r] => delivered[r] + n <= stamped[r]
  BY DEF Counted
<1>4. /\ Unstamped(r)' = IF rep'[w] = r /\ pc'[w] \in {"generate", "stamp"}
                         THEN Unstamped(r) \cup {w} ELSE Unstamped(r) \ {w}
      /\ Notifying(r)' = IF rep'[w] = r /\ pc'[w] = "notify"
                         THEN Notifying(r) \cup {w} ELSE Notifying(r) \ {w}
      /\ w \in Unstamped(r) <=> rep[w] = r /\ pc[w] \in {"generate", "stamp"}
      /\ w \in Notifying(r) <=> rep[w] = r /\ pc[w] = "notify"
  BY GroupChanges
<1>5. /\ IsFiniteSet(Unstamped(r) \cup {w})
      /\ Cardinality(Unstamped(r) \cup {w}) = IF w \in Unstamped(r) THEN u ELSE u + 1
      /\ IsFiniteSet(Notifying(r) \cup {w})
      /\ Cardinality(Notifying(r) \cup {w}) = IF w \in Notifying(r) THEN n ELSE n + 1
  BY <1>1, FS_AddElement
<1>6. /\ IsFiniteSet(Unstamped(r) \ {w})
      /\ Cardinality(Unstamped(r) \ {w}) = IF w \in Unstamped(r) THEN u - 1 ELSE u
      /\ IsFiniteSet(Notifying(r) \ {w})
      /\ Cardinality(Notifying(r) \ {w}) = IF w \in Notifying(r) THEN n - 1 ELSE n
  BY <1>1, FS_RemoveElement
<1> DEFINE u1 == Cardinality(Unstamped(r)')
           n1 == Cardinality(Notifying(r)')
<1>7. IsFiniteSet(Unstamped(r)') /\ IsFiniteSet(Notifying(r)')
  BY <1>4, <1>5, <1>6
<1>8. SUFFICES /\ stamped'[r] + u1 <= ticks' /\ delivered'[r] + u1 + n1 <= ticks'
               /\ ~deleted'[r] => delivered'[r] + n1 <= stamped'[r]
  BY <1>7 DEF Counted
<1>9. CASE \E b \in Reports : Tick(w, b)
  <2>1. /\ rep'[w] = r /\ pc'[w] = "generate" /\ pc[w] = "idle" /\ rep[w] = NoReport
        /\ ticks' = ticks + 1 /\ UNCHANGED <<stamped, delivered, deleted>>
    BY <1>1, <1>9 DEF Tick, Begin, WorkerTypeOK, Fit, history, rowVars
  <2>2. u1 = u + 1 /\ n1 = n
    BY <1>1, <1>4, <1>5, <1>6, <2>1
  <2> HIDE DEF u, n, u1, n1
  <2> QED
    BY <1>1, <1>2, <1>3, <2>1, <2>2
<1>10. CASE Stamp(w)
  <2>1. /\ rep[w] = r /\ rep'[w] = r /\ pc'[w] = "notify" /\ pc[w] = "stamp"
        /\ UNCHANGED <<ticks, delivered, deleted>>
    BY <1>1, <1>10 DEF Stamp, Goto, WorkerTypeOK, bounds, rowVars
  <2>2. u1 = u - 1 /\ n1 = n + 1
    BY <1>4, <1>5, <1>6, <2>1
  <2>3. stamped'[r] = IF deleted[r] THEN stamped[r] ELSE stamped[r] + 1
    BY <1>1, <1>10, <2>1 DEF Stamp
  <2> HIDE DEF u, n, u1, n1
  <2> QED
    BY <1>1, <1>2, <1>3, <2>1, <2>2, <2>3
<1>11. CASE Notify(w)
  <2>1. /\ rep[w] = r /\ rep'[w] = NoReport /\ pc[w] = "notify"
        /\ UNCHANGED <<ticks, stamped, deleted>>
    BY <1>1, <1>11 DEF Notify, Leave, WorkerTypeOK, bounds, rowVars
  <2>2. u1 = u /\ n1 = n - 1
    BY <1>1, <1>4, <1>6, <2>1
  <2>3. delivered'[r] \in {delivered[r], delivered[r] + 1}
    BY <1>1, <1>11, <2>1 DEF Notify
  <2> HIDE DEF u, n, u1, n1
  <2> QED
    BY <1>1, <1>2, <1>3, <2>1, <2>2, <2>3
<1>12. CASE GiveUp(w)
  <2>1. /\ rep[w] = r /\ rep'[w] = NoReport /\ pc[w] # "notify"
        /\ UNCHANGED <<ticks, stamped, delivered, deleted>>
    BY <1>1, <1>12 DEF GiveUp, Leave, WorkerTypeOK, history, rowVars
  <2>2. u1 \in {u - 1, u} /\ n1 = n
    BY <1>1, <1>4, <1>6, <2>1
  <2> HIDE DEF u, n, u1, n1
  <2> QED
    BY <1>1, <1>2, <1>3, <2>1, <2>2
<1> QED
  BY <1>9, <1>10, <1>11, <1>12

\* Every step keeps the counts in order.
LEMMA CountedStep ==
  ASSUME Control, [Next]_vars, NEW r \in Reports, Counted(r)
  PROVE  Counted(r)'
<1>0. /\ RowTypeOK /\ WorkerTypeOK /\ BoundsOK /\ NoReport \notin Reports
      /\ stamped \in [Reports -> Nat] /\ delivered \in [Reports -> Nat]
      /\ \A w \in Workers : Fit(w)
  BY DEF Control
<1>a. ticks \in Nat
  BY <1>0 DEF BoundsOK
<1>b. UNCHANGED workerVars => Unstamped(r)' = Unstamped(r) /\ Notifying(r)' = Notifying(r)
  BY DEF workerVars, Unstamped, Notifying
<1>1. ASSUME NEW w \in Workers, Moves(w) PROVE Counted(r)'
  <2>1. Alone(w) /\ WorkerTypeOK' /\ Fit(w)' /\ Fit(w)
    BY <1>0, <1>1, WorkerFit
  <2> DEFINE Executes == (\E b \in Reports : Tick(w, b)) \/ Stamp(w) \/ Notify(w) \/ GiveUp(w)
  <2>2. CASE Executes /\ (rep[w] = r \/ rep'[w] = r)
    BY <2>1, <2>2, CountedExecution
  <2>3. CASE Executes /\ rep[w] # r /\ rep'[w] # r
    <3>1. Unstamped(r)' = Unstamped(r) /\ Notifying(r)' = Notifying(r)
      BY <2>1, <2>3, GroupsStay
    <3>2. /\ ticks' \in {ticks, ticks + 1} /\ deleted' = deleted
          /\ stamped'[r] = stamped[r] /\ delivered'[r] = delivered[r]
      BY <1>0, <2>3 DEF Tick, Stamp, Notify, GiveUp, bounds, history, rowVars
    <3> QED
      BY <1>a, <3>1, <3>2, CountedQuiet
  <2>4. CASE ~Executes
    <3>1. /\ UNCHANGED <<ticks, stamped, delivered>>
          /\ deleted[r] => deleted'[r]
      BY <1>0, <1>1, <2>4 DEF Moves, Requests, CreateReport, StartRequest, StartPause, StartResume,
         StartJob, Onward, Breaks, Queue, Edit, Delete, Pause, Resume, StartProcessing,
         ReportProgress, MarkCompleted, MarkFailed, SetRow, rowVars, bounds, history, RowTypeOK
    <3>2. \/ /\ pc[w] \notin {"generate", "stamp", "notify"}
             /\ pc'[w] \notin {"generate", "stamp", "notify"}
          \/ pc[w] = "generate" /\ pc'[w] = "stamp" /\ rep'[w] = rep[w]
      <4>1. ASSUME w \in Handlers, Requests(w)
            PROVE  pc[w] = "idle" /\ pc'[w] \in {"queue", "write", "schedule"}
        BY <1>0, <4>1 DEF Requests, CreateReport, StartRequest, StartPause, StartResume, Begin,
           WorkerTypeOK
      <4>2. ASSUME \E b \in Reports : StartJob(w, b)
            PROVE  pc[w] = "idle" /\ pc'[w] = "start"
        BY <1>0, <4>2 DEF StartJob, Begin, WorkerTypeOK
      <4>3. ASSUME Breaks(w) \/ Queue(w) \/ Edit(w) \/ Delete(w) \/ Pause(w) \/ Resume(w)
                   \/ MarkCompleted(w) \/ MarkFailed(w)
            PROVE  pc[w] \notin {"generate", "stamp", "notify"} /\ pc'[w] = "idle"
        BY <1>0, <4>3 DEF Breaks, Queue, Edit, Delete, Pause, Resume, MarkCompleted, MarkFailed,
           Return, Throw, Leave, WorkerTypeOK
      <4>4. ASSUME StartProcessing(w) \/ ReportProgress(w)
            PROVE  /\ pc[w] \notin {"generate", "stamp", "notify"}
                   /\ pc'[w] \notin {"generate", "stamp", "notify"}
        BY <1>0, <4>4 DEF StartProcessing, ReportProgress, Goto, WorkerTypeOK
      <4>5. ASSUME NEW label \in Label, Onward(w, label)
            PROVE  \/ /\ pc[w] \notin {"generate", "stamp", "notify"}
                      /\ pc'[w] \notin {"generate", "stamp", "notify"}
                   \/ pc[w] = "generate" /\ pc'[w] = "stamp" /\ rep'[w] = rep[w]
        BY <1>0, <4>5 DEF Onward, Goto, WorkerTypeOK
      <4>6. \/ w \in Handlers /\ Requests(w)
            \/ \E b \in Reports : StartJob(w, b)
            \/ Breaks(w) \/ Queue(w) \/ Edit(w) \/ Delete(w) \/ Pause(w) \/ Resume(w)
            \/ MarkCompleted(w) \/ MarkFailed(w)
            \/ StartProcessing(w) \/ ReportProgress(w)
            \/ \E label \in Label : Onward(w, label)
        BY <1>1, <2>4, Zenon DEF Moves
      <4> QED
        BY <4>1, <4>2, <4>3, <4>4, <4>5, <4>6
    <3>3. Unstamped(r)' = Unstamped(r) /\ Notifying(r)' = Notifying(r)
      BY <2>1, <3>2, GroupsStay
    <3> QED
      BY <1>a, <3>1, <3>3, CountedQuiet
  <2> QED
    BY <2>2, <2>3, <2>4
<1>2. ASSUME NEW b \in Reports, CreateOnly(b) \/ ExpireJob(b) \/ Stall(b) PROVE Counted(r)'
  <2>1. UNCHANGED <<workerVars, ticks, stamped, delivered, deleted>>
    BY <1>2 DEF CreateOnly, ExpireJob, Stall, history, bounds, rowVars
  <2> QED
    BY <1>a, <1>b, <2>1, CountedQuiet
<1>3. CASE Crash
  <2>1. UNCHANGED <<ticks, stamped, delivered, deleted>> /\ \A w \in Workers : rep'[w] = NoReport
    BY <1>3 DEF Crash, rowVars
  <2>2. Unstamped(r)' = {} /\ Notifying(r)' = {}
    BY <1>0, <2>1 DEF Unstamped, Notifying, Workers
  <2> QED
    BY <1>a, <2>1, <2>2, CountedQuiet
<1>4. CASE UNCHANGED vars
  <2>1. UNCHANGED <<workerVars, ticks, stamped, delivered, deleted>>
    BY <1>4 DEF vars, history, bounds, rowVars
  <2> QED
    BY <1>a, <1>b, <2>1, CountedQuiet
<1> QED
  BY <1>1, <1>2, <1>3, <1>4, Alternatives DEF Elsewhere

-----------------------------------------------------------------------------
(***************************************************************************)
(* The theorems.                                                           *)
(***************************************************************************)
\* What is proved of every behaviour, report by report.
Ordered == Control /\ \A r \in Reports : Story(r) /\ Obeyed(r) /\ Counted(r)

\* At the start nothing is queued, asked or sent.
LEMMA OrderedInit == Init => Ordered
<1> SUFFICES ASSUME Init, NEW r \in Reports PROVE Story(r) /\ Obeyed(r) /\ Counted(r)
  BY ControlInit DEF Ordered
<1>1. \A w \in Workers : rep[w] # r
  BY DEF Init
<1>2. Slots \subseteq Workers
  BY DEF Workers
<1>3. Story(r)
  BY <1>1, <1>2 DEF Story, Tended, Whole, Told, Init
<1>4. Obeyed(r)
  BY DEF Obeyed, Init
<1>5. Unstamped(r) = {} /\ Notifying(r) = {}
  BY <1>1 DEF Unstamped, Notifying
<1>6. Counted(r)
  BY <1>5, FS_EmptySet DEF Counted, Init
<1> QED
  BY <1>3, <1>4, <1>6

\* Every step keeps all of it.
LEMMA OrderedStep == Ordered /\ [Next]_vars => Ordered'
<1> SUFFICES ASSUME Ordered, [Next]_vars PROVE Ordered'
  OBVIOUS
<1>1. Control'
  BY ControlStep DEF Ordered
<1>2. ASSUME NEW r \in Reports PROVE Story(r)' /\ Obeyed(r)' /\ Counted(r)'
  BY StoryStep, ObeyedStep, CountedStep DEF Ordered
<1> QED
  BY <1>1, <1>2 DEF Ordered

\* Reports are in order in every reachable state.
LEMMA AlwaysOrdered == Spec => []Ordered
  BY OrderedInit, OrderedStep, PTL DEF Spec

\* Every variable ranges over the values the code can give it, and a job is active exactly
\* while a slot holds its lock.
THEOREM TypeCorrect == Spec => []TypeOK
<1>1. Ordered => TypeOK
  <2> SUFFICES ASSUME Ordered PROVE TypeOK
    OBVIOUS
  <2>1. ASSUME NEW r \in Reports PROVE stamped[r] \in 0..MaxTicks /\ delivered[r] \in 0..MaxTicks
    <3>1. Counted(r) /\ stamped[r] \in Nat /\ delivered[r] \in Nat /\ ticks \in 0..MaxTicks
          /\ MaxTicks \in Nat
      BY DEF Ordered, Control, BoundsOK
    <3>2. Cardinality(Unstamped(r)) \in Nat /\ Cardinality(Notifying(r)) \in Nat
      BY <3>1, FS_CardinalityType DEF Counted
    <3> QED
      BY <3>1, <3>2 DEF Counted
  <2> QED
    BY <2>1 DEF Ordered, Control, TypeOK
<1> QED
  BY <1>1, AlwaysOrdered, PTL

\* A report that is completed has its file and full progress, unless an execution that lost
\* its lock wrote to the row (processReport).
THEOREM CompletedHasFile == Spec => []CompletedIsWhole
<1>1. Ordered => CompletedIsWhole
  BY DEF Ordered, Story, Whole, CompletedIsWhole
<1> QED
  BY <1>1, AlwaysOrdered, PTL

\* Once the queue is done with a report, the row says what became of the job, unless it is
\* paused, deleted or disturbed (processReport).
THEOREM RowTellsOutcome == Spec => []RowFollowsJob
<1>1. Ordered => RowFollowsJob
  BY DEF Ordered, Story, Told, RowFollowsJob
<1> QED
  BY <1>1, AlwaysOrdered, PTL

\* Once nobody is pausing or resuming it, a report runs on its schedule exactly if it was
\* last resumed (pauseReport, resumeReport).
THEOREM LastRequestHolds == Spec => []ScheduleFollowsRequests
<1>1. Ordered => ScheduleFollowsRequests
  <2> SUFFICES ASSUME Ordered, NEW r \in Reports,
                      \A w \in Handlers : rep[w] = r => op[w] \notin {"pause", "resume"}
               PROVE  /\ asked[r] = "pause" => ~cron[r]
                      /\ asked[r] = "resume" => cron[r] = scheduled[r]
    BY DEF ScheduleFollowsRequests
  <2>1. \A w \in Workers : rep[w] = r => op[w] # "resume"
    BY DEF Ordered, Control, Fit
  <2> QED
    BY <2>1 DEF Ordered, Obeyed
<1> QED
  BY <1>1, AlwaysOrdered, PTL

\* Nothing is sent that the row does not know to be sent, unless the report was deleted
\* under its schedule (executeReport).
THEOREM StampedFirst == Spec => []StampBeforeDelivery
<1>1. Ordered => StampBeforeDelivery
  <2> SUFFICES ASSUME Ordered, NEW r \in Reports, ~deleted[r] PROVE ~(delivered[r] > stamped[r])
    BY DEF StampBeforeDelivery
  <2>1. Counted(r) /\ stamped[r] \in Nat /\ delivered[r] \in Nat
    BY DEF Ordered, Control
  <2>2. Cardinality(Notifying(r)) \in Nat
    BY <2>1, FS_CardinalityType DEF Counted
  <2> QED
    BY <2>1, <2>2 DEF Counted
<1> QED
  BY <1>1, AlwaysOrdered, PTL
=============================================================================
