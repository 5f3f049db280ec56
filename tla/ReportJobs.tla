----------------------------- MODULE ReportJobs -----------------------------
(***************************************************************************)
(* Reports: the row (src/src/models/Report.ts), the job that generates the *)
(* file (src/src/services/queue/ReportQueue.ts), the cron entries of       *)
(* scheduled reports (src/src/services/reporting/ScheduledReportService.ts)*)
(* and the requests on them (src/src/controllers/ReportController.ts).     *)
(*                                                                         *)
(* A worker is a slot of the queue, a request or an execution of a cron    *)
(* entry, cut at its awaits.  A slot may lose the lock of its job without  *)
(* noticing and go on, while BullMQ gives the job to another one.  The     *)
(* versions of parameters stand for what a report is about.  disturbed,    *)
(* asked, stamped and delivered are history: no action reads them.         *)
(* Definitions marked Slip are not part of the specification: each is a    *)
(* plausible mistake that a property below has to notice.                  *)
(***************************************************************************)
EXTENDS Integers

CONSTANTS
    Reports,        \* rows of reports
    Slots,          \* jobs the queue runs at once
    Handlers,       \* concurrent requests
    Crons,          \* concurrent executions of scheduled reports
    NoReport, NoSlot, NoFile,
    JobAttempts,    \* attempts of a job
    MaxStalls,      \* BullMQ's maxStalledCount, which the code leaves at its default
    Mixes,          \* bound: the kinds of operation that meet in one behaviour
    MaxEdits,       \* bound on the versions of a report's parameters
    MaxExpiries,    \* bound on finished jobs the queue forgets
    MaxTicks,       \* bound on executions of scheduled reports
    MaxFaults       \* bound on stalls, failed statements and crashes

Workers == Slots \cup Handlers \cup Crons
Versions == 0..MaxEdits
Kinds == {"create", "schedule", "generate", "edit", "delete", "pause", "resume"}

ASSUME ReportAssumption ==
    /\ Slots \cap Handlers = {} /\ Slots \cap Crons = {} /\ Handlers \cap Crons = {}
    /\ NoReport \notin Reports
    /\ NoSlot \notin Slots
    /\ NoFile \notin Versions
    /\ JobAttempts \in Nat \ {0}
    /\ Mixes # {} /\ \A m \in Mixes : m \subseteq Kinds
    /\ {MaxStalls, MaxEdits, MaxExpiries, MaxTicks, MaxFaults} \subseteq Nat

VARIABLES
    mix,
    status, progress, file, content,    \* columns of reports; file: the version it shows
    scheduled, deleted,
    job, tries, stalls, owner, data,    \* BullMQ's record of report-<id>
    cron,                               \* the jobs map of this process
    pc, op, rep,                        \* what each worker is at, and its report
    expiries, ticks, faults,
    disturbed,  \* since the row last became processing, an execution failed to keep it up
    asked,      \* pause or resume, whichever was asked last, or both at once
    stamped,    \* executions recorded in last_sent
    delivered   \* executions whose notifications were sent

rowVars    == <<status, progress, file, content, scheduled, deleted>>
jobVars    == <<job, tries, stalls, owner, data>>
workerVars == <<pc, op, rep>>
history    == <<disturbed, asked, stamped, delivered>>
bounds     == <<mix, expiries, ticks, faults>>
vars == <<rowVars, jobVars, cron, workerVars, bounds, history>>

Init ==
    /\ mix \in Mixes
    /\ status = [r \in Reports |-> "absent"]
    /\ progress = [r \in Reports |-> 0]
    /\ file = [r \in Reports |-> NoFile]
    /\ content = [r \in Reports |-> 0]
    /\ scheduled = [r \in Reports |-> FALSE]
    /\ deleted = [r \in Reports |-> FALSE]
    /\ job = [r \in Reports |-> "absent"]
    /\ tries = [r \in Reports |-> 0]
    /\ stalls = [r \in Reports |-> 0]
    /\ owner = [r \in Reports |-> NoSlot]
    /\ data = [r \in Reports |-> 0]
    /\ cron = [r \in Reports |-> FALSE]
    /\ pc = [w \in Workers |-> "idle"]
    /\ op = [w \in Workers |-> "none"]
    /\ rep = [w \in Workers |-> NoReport]
    /\ expiries = 0 /\ ticks = 0 /\ faults = 0
    /\ disturbed = [r \in Reports |-> FALSE]
    /\ asked = [r \in Reports |-> "none"]
    /\ stamped = [r \in Reports |-> 0]
    /\ delivered = [r \in Reports |-> 0]

Exists(r) == status[r] # "absent" /\ ~deleted[r]

Goto(w, label) ==
    /\ pc' = [pc EXCEPT ![w] = label]
    /\ UNCHANGED <<op, rep>>

Begin(w, o, r, label) ==
    /\ pc[w] = "idle"
    /\ pc' = [pc EXCEPT ![w] = label]
    /\ op' = [op EXCEPT ![w] = o]
    /\ rep' = [rep EXCEPT ![w] = r]

Leave(w) ==
    /\ pc' = [pc EXCEPT ![w] = "idle"]
    /\ op' = [op EXCEPT ![w] = "none"]
    /\ rep' = [rep EXCEPT ![w] = NoReport]

\* BullMQ settles a job only for the slot that still holds its lock.
Return(w) ==
    /\ Leave(w)
    /\ job' = [r \in Reports |-> IF owner[r] = w THEN "completed" ELSE job[r]]
    /\ owner' = [r \in Reports |-> IF owner[r] = w THEN NoSlot ELSE owner[r]]
    /\ UNCHANGED <<tries, stalls, data>>

\* Slip: the last attempt is followed by another one.
ThrowOnceMore(w) ==
    /\ Leave(w)
    /\ tries' = [r \in Reports |-> IF owner[r] = w THEN tries[r] + 1 ELSE tries[r]]
    /\ job' = [r \in Reports |->
                 IF owner[r] # w THEN job[r]
                 ELSE IF tries[r] + 1 <= JobAttempts THEN "waiting" ELSE "failed"]
    /\ owner' = [r \in Reports |-> IF owner[r] = w THEN NoSlot ELSE owner[r]]
    /\ UNCHANGED <<stalls, data>>

Throw(w) ==
    /\ Leave(w)
    /\ tries' = [r \in Reports |-> IF owner[r] = w THEN tries[r] + 1 ELSE tries[r]]
    /\ job' = [r \in Reports |->
                 IF owner[r] # w THEN job[r]
                 ELSE IF tries[r] + 1 < JobAttempts THEN "waiting" ELSE "failed"]
    /\ owner' = [r \in Reports |-> IF owner[r] = w THEN NoSlot ELSE owner[r]]
    /\ UNCHANGED <<stalls, data>>

-----------------------------------------------------------------------------
\* createReport: the row, then its job.
CreateReport(w, r) ==
    /\ "create" \in mix
    /\ status[r] = "absent"
    /\ status' = [status EXCEPT ![r] = "pending"]
    /\ Begin(w, "generate", r, "queue")
    /\ UNCHANGED <<progress, file, content, scheduled, deleted>>
    /\ UNCHANGED <<jobVars, cron, bounds, history>>

\* scheduleReport and duplicateReport only create the row: a scheduled report runs
\* once somebody resumes it, since nothing calls initialize.
CreateOnly(r) ==
    /\ "schedule" \in mix
    /\ status[r] = "absent"
    /\ status' = [status EXCEPT ![r] = "pending"]
    /\ \E s \in BOOLEAN : scheduled' = [scheduled EXCEPT ![r] = s]
    /\ UNCHANGED <<progress, file, content, deleted>>
    /\ UNCHANGED <<jobVars, cron, workerVars, bounds, history>>

\* generateReport, updateReport and deleteReport read the row, then write.
StartRequest(w, r, o) ==
    /\ o \in mix
    /\ Exists(r)
    /\ \/ o = "generate" /\ Begin(w, o, r, "queue")
       \/ o \in {"edit", "delete"} /\ Begin(w, o, r, "write")
    /\ UNCHANGED <<rowVars, jobVars, cron, bounds, history>>

\* Slip: the job is added under an id of its own, whatever runs for the report.
QueueAgain(w) ==
    /\ pc[w] = "queue"
    /\ LET r == rep[w] IN
       /\ job' = [job EXCEPT ![r] = "waiting"]
       /\ data' = [data EXCEPT ![r] = content[r]]
       /\ tries' = [tries EXCEPT ![r] = 0]
       /\ stalls' = [stalls EXCEPT ![r] = 0]
       /\ owner' = [owner EXCEPT ![r] = NoSlot]
    /\ Leave(w)
    /\ UNCHANGED <<rowVars, cron, bounds, history>>

\* The job id is report-<id>: while the queue knows a job of that id, finished or not,
\* adding another does nothing.
Queue(w) ==
    /\ pc[w] = "queue"
    /\ LET r == rep[w] IN
       IF job[r] = "absent"
       THEN /\ job' = [job EXCEPT ![r] = "waiting"]
            /\ data' = [data EXCEPT ![r] = content[r]]
            /\ tries' = [tries EXCEPT ![r] = 0]
            /\ stalls' = [stalls EXCEPT ![r] = 0]
            /\ UNCHANGED owner
       ELSE UNCHANGED jobVars
    /\ Leave(w)
    /\ UNCHANGED <<rowVars, cron, bounds, history>>

\* The queue drops a completed job after a day and a failed one after a week.
ExpireJob(r) ==
    /\ expiries < MaxExpiries
    /\ job[r] \in {"completed", "failed"}
    /\ expiries' = expiries + 1
    /\ job' = [job EXCEPT ![r] = "absent"]
    /\ UNCHANGED <<tries, stalls, owner, data, rowVars, cron, workerVars>>
    /\ UNCHANGED <<mix, ticks, faults, history>>

\* An UPDATE of a deleted row changes nothing and reports nothing.
Edit(w) ==
    /\ pc[w] = "write" /\ op[w] = "edit"
    /\ LET r == rep[w] IN
       content' = [content EXCEPT ![r] = IF deleted[r] \/ @ = MaxEdits THEN @ ELSE @ + 1]
    /\ Leave(w)
    /\ UNCHANGED <<status, progress, file, scheduled, deleted>>
    /\ UNCHANGED <<jobVars, cron, bounds, history>>

\* Neither the job nor the cron entry of the report is told.
Delete(w) ==
    /\ pc[w] = "write" /\ op[w] = "delete"
    /\ deleted' = [deleted EXCEPT ![rep[w]] = TRUE]
    /\ Leave(w)
    /\ UNCHANGED <<status, progress, file, content, scheduled>>
    /\ UNCHANGED <<jobVars, cron, bounds, history>>

-----------------------------------------------------------------------------
\* pauseReport stops the cron entry before anything else; resumeReport reads first.
Ask(w, r, o) ==
    asked' = [asked EXCEPT ![r] =
                IF \E v \in Workers : op[v] \in {"pause", "resume"} /\ rep[v] = r
                THEN "both" ELSE o]

\* Slip: the row is marked, the cron entry stays.
StartPauseRowOnly(w, r) ==
    /\ "pause" \in mix
    /\ Begin(w, "pause", r, "write")
    /\ Ask(w, r, "pause")
    /\ UNCHANGED <<cron, rowVars, jobVars, bounds, disturbed, stamped, delivered>>

StartPause(w, r) ==
    /\ "pause" \in mix
    /\ cron' = [cron EXCEPT ![r] = FALSE]
    /\ Begin(w, "pause", r, "write")
    /\ Ask(w, r, "pause")
    /\ UNCHANGED <<rowVars, jobVars, bounds, disturbed, stamped, delivered>>

Pause(w) ==
    /\ pc[w] = "write" /\ op[w] = "pause"
    /\ LET r == rep[w] IN
       status' = [status EXCEPT ![r] = IF Exists(r) THEN "paused" ELSE @]
    /\ Leave(w)
    /\ UNCHANGED <<progress, file, content, scheduled, deleted>>
    /\ UNCHANGED <<jobVars, cron, bounds, history>>

StartResume(w, r) ==
    /\ "resume" \in mix
    /\ Exists(r)
    /\ Begin(w, "resume", r, "schedule")
    /\ Ask(w, r, "resume")
    /\ UNCHANGED <<rowVars, jobVars, cron, bounds, disturbed, stamped, delivered>>

\* scheduleReport awaits only cancelReport before it sets the new entry, which waits for
\* nothing itself, so no other handler runs in between; a row without a schedule makes it
\* fail, which it swallows.  The status "active" stays in memory.
Resume(w) ==
    /\ pc[w] = "schedule"
    /\ cron' = [cron EXCEPT ![rep[w]] = scheduled[rep[w]]]
    /\ Leave(w)
    /\ UNCHANGED <<rowVars, jobVars, bounds, history>>

\* executeReport works on the row as it was at the last resume, deleted or not.
Tick(w, r) ==
    /\ ticks < MaxTicks
    /\ cron[r]
    /\ ticks' = ticks + 1
    /\ Begin(w, "execute", r, "generate")
    /\ UNCHANGED <<rowVars, jobVars, cron, mix, expiries, faults, history>>

\* Whatever throws in executeReport ends it: logError does not exist, and the
\* rejection nobody handles is only logged.
GenerateScheduled(w) ==
    /\ pc[w] = "generate"
    /\ Goto(w, "stamp") \/ Leave(w)
    /\ UNCHANGED <<rowVars, jobVars, cron, bounds, history>>

\* Slip: the notifications go out first.
StampLater(w) ==
    /\ pc[w] = "stamp"
    /\ delivered' = [delivered EXCEPT ![rep[w]] = @ + 1]
    /\ Goto(w, "notify")
    /\ UNCHANGED <<rowVars, jobVars, cron, bounds, disturbed, asked, stamped>>

Stamp(w) ==
    /\ pc[w] = "stamp"
    /\ stamped' = [stamped EXCEPT ![rep[w]] = IF deleted[rep[w]] THEN @ ELSE @ + 1]
    /\ Goto(w, "notify")
    /\ UNCHANGED <<rowVars, jobVars, cron, bounds, disturbed, asked, delivered>>

Notify(w) ==
    /\ pc[w] = "notify"
    /\ \/ delivered' = [delivered EXCEPT ![rep[w]] = @ + 1]
       \/ UNCHANGED delivered
    /\ Leave(w)
    /\ UNCHANGED <<rowVars, jobVars, cron, bounds, disturbed, asked, stamped>>

-----------------------------------------------------------------------------
StartJob(w, r) ==
    /\ job[r] = "waiting"
    /\ job' = [job EXCEPT ![r] = "active"]
    /\ owner' = [owner EXCEPT ![r] = w]
    /\ Begin(w, "job", r, "start")
    /\ UNCHANGED <<tries, stalls, data, rowVars, cron, bounds, history>>

SetRow(r, s, p) ==
    /\ status' = [status EXCEPT ![r] = IF deleted[r] THEN @ ELSE s]
    /\ progress' = [progress EXCEPT ![r] = IF deleted[r] THEN @ ELSE p]
    /\ UNCHANGED <<content, scheduled, deleted>>

\* updateProgress(10, processing), before the try block.
StartProcessing(w) ==
    /\ pc[w] = "start"
    /\ SetRow(rep[w], "processing", 10)
    /\ disturbed' = [disturbed EXCEPT ![rep[w]] =
                       @ /\ \/ deleted[rep[w]] \/ owner[rep[w]] # w
                            \/ \E v \in Slots \ {w} : rep[v] = rep[w]]
    /\ Goto(w, "build")
    /\ UNCHANGED <<file, jobVars, cron, bounds, asked, stamped, delivered>>

Build(w) ==
    /\ pc[w] = "build"
    /\ Goto(w, "progress") \/ Goto(w, "fail")
    /\ UNCHANGED <<rowVars, jobVars, cron, bounds, history>>

\* updateProgress(80) leaves the status alone.
ReportProgress(w) ==
    /\ pc[w] = "progress"
    /\ SetRow(rep[w], status[rep[w]], 80)
    /\ Goto(w, "complete")
    /\ UNCHANGED <<file, jobVars, cron, bounds, history>>

\* Slip: the status is written, the rest of the row is left to updateProgress.
MarkStatusCompleted(w) ==
    /\ pc[w] = "complete"
    /\ LET r == rep[w] IN
       /\ SetRow(r, "completed", progress[r])
       /\ file' = [file EXCEPT ![r] = IF deleted[r] THEN @ ELSE data[r]]
    /\ Return(w)
    /\ UNCHANGED <<cron, bounds, history>>

\* Reading the row first changes only whether the UPDATE is sent at all.
MarkCompleted(w) ==
    /\ pc[w] = "complete"
    /\ LET r == rep[w] IN
       /\ SetRow(r, "completed", 100)
       /\ file' = [file EXCEPT ![r] = IF deleted[r] THEN @ ELSE data[r]]
    /\ Return(w)
    /\ UNCHANGED <<cron, bounds, history>>

\* Slip: the failure is recorded and not passed on to BullMQ.
MarkFailedAndReturn(w) ==
    /\ pc[w] = "fail"
    /\ SetRow(rep[w], "failed", progress[rep[w]])
    /\ Return(w)
    /\ UNCHANGED <<file, cron, bounds, history>>

MarkFailed(w) ==
    /\ pc[w] = "fail"
    /\ SetRow(rep[w], "failed", progress[rep[w]])
    /\ Throw(w)
    /\ UNCHANGED <<file, cron, bounds, history>>

-----------------------------------------------------------------------------
\* A statement or a call to Redis fails.
StatementFails(w) ==
    /\ pc[w] # "idle"
    /\ faults < MaxFaults
    /\ faults' = faults + 1
    /\ \/ /\ pc[w] \in {"progress", "complete"}
          /\ Goto(w, "fail")
          /\ UNCHANGED <<jobVars, disturbed>>
       \/ /\ pc[w] \in {"start", "fail"}
          /\ Throw(w)
          /\ disturbed' = [disturbed EXCEPT ![rep[w]] = TRUE]
       \/ /\ pc[w] \in {"queue", "write", "stamp"}
          /\ Leave(w)
          /\ UNCHANGED <<jobVars, disturbed>>
    /\ UNCHANGED <<rowVars, cron, mix, expiries, ticks, asked, stamped, delivered>>

\* BullMQ puts a job without a lock back, or fails it after too many stalls.
Unlock(rs) ==
    /\ job' = [r \in Reports |->
                 IF r \notin rs THEN job[r]
                 ELSE IF stalls[r] < MaxStalls THEN "waiting" ELSE "failed"]
    /\ stalls' = [r \in Reports |-> IF r \in rs THEN stalls[r] + 1 ELSE stalls[r]]
    /\ owner' = [r \in Reports |-> IF r \in rs THEN NoSlot ELSE owner[r]]
    /\ UNCHANGED <<tries, data>>

\* The event loop is held up longer than the lock of the job lasts.
Stall(r) ==
    /\ faults < MaxFaults
    /\ faults' = faults + 1
    /\ owner[r] # NoSlot
    /\ Unlock({r})
    /\ disturbed' = [disturbed EXCEPT ![r] = TRUE]
    /\ UNCHANGED <<rowVars, cron, workerVars, mix, expiries, ticks, asked, stamped, delivered>>

\* The process restarts: its cron entries are gone.
Crash ==
    /\ faults < MaxFaults
    /\ faults' = faults + 1
    /\ LET active == {r \in Reports : owner[r] # NoSlot} IN
       /\ Unlock(active)
       /\ disturbed' = [r \in Reports |-> disturbed[r] \/ r \in active]
    /\ pc' = [w \in Workers |-> "idle"]
    /\ op' = [w \in Workers |-> "none"]
    /\ rep' = [w \in Workers |-> NoReport]
    /\ cron' = [r \in Reports |-> FALSE]
    /\ asked' = [r \in Reports |-> "none"]
    /\ UNCHANGED <<rowVars, mix, expiries, ticks, stamped, delivered>>

Request(w) ==
    \E r \in Reports :
        \/ CreateReport(w, r)
        \/ \E o \in {"generate", "edit", "delete"} : StartRequest(w, r, o)
        \/ StartPause(w, r) \/ StartResume(w, r)

Step(w) ==
    \/ Queue(w) \/ Edit(w) \/ Delete(w) \/ Pause(w) \/ Resume(w)
    \/ GenerateScheduled(w) \/ Stamp(w) \/ Notify(w)
    \/ StartProcessing(w) \/ Build(w) \/ ReportProgress(w)
    \/ MarkCompleted(w) \/ MarkFailed(w)

Next ==
    \/ \E w \in Handlers : Request(w)
    \/ \E w \in Slots, r \in Reports : StartJob(w, r)
    \/ \E w \in Crons, r \in Reports : Tick(w, r)
    \/ \E w \in Workers : Step(w) \/ StatementFails(w)
    \/ \E r \in Reports : CreateOnly(r) \/ ExpireJob(r) \/ Stall(r)
    \/ Crash

Spec == Init /\ [][Next]_vars

\* Every await of a worker ends, and a free slot takes a waiting job.
Fairness ==
    /\ \A w \in Workers : WF_vars(Step(w))
    /\ \A r \in Reports : WF_vars(\E w \in Slots : StartJob(w, r))

FairSpec == Spec /\ Fairness

-----------------------------------------------------------------------------
RowStatus == {"absent", "pending", "processing", "completed", "failed", "paused"}
JobState == {"absent", "waiting", "active", "completed", "failed"}
Label == {"idle", "queue", "write", "schedule", "generate", "stamp", "notify",
          "start", "build", "progress", "complete", "fail"}
Operation == {"none", "job", "generate", "edit", "delete", "pause", "resume", "execute"}

\* Every variable ranges over the values the code can give it, and a job is active
\* exactly while a slot holds its lock.
RowTypeOK ==
    /\ status \in [Reports -> RowStatus]
    /\ progress \in [Reports -> {0, 10, 80, 100}]
    /\ file \in [Reports -> Versions \cup {NoFile}]
    /\ content \in [Reports -> Versions]
    /\ scheduled \in [Reports -> BOOLEAN]
    /\ deleted \in [Reports -> BOOLEAN]

JobTypeOK ==
    /\ job \in [Reports -> JobState]
    /\ tries \in [Reports -> 0..JobAttempts]
    /\ stalls \in [Reports -> 0..(MaxStalls + 1)]
    /\ owner \in [Reports -> Slots \cup {NoSlot}]
    /\ \A r \in Reports : (job[r] = "active") = (owner[r] # NoSlot)
    /\ data \in [Reports -> Versions]

WorkerTypeOK ==
    /\ pc \in [Workers -> Label]
    /\ op \in [Workers -> Operation]
    /\ rep \in [Workers -> Reports \cup {NoReport}]

ScheduleTypeOK ==
    /\ cron \in [Reports -> BOOLEAN]
    /\ asked \in [Reports -> {"none", "pause", "resume", "both"}]

BoundsOK ==
    /\ mix \in Mixes
    /\ expiries \in 0..MaxExpiries /\ ticks \in 0..MaxTicks /\ faults \in 0..MaxFaults

TypeOK ==
    /\ RowTypeOK /\ JobTypeOK /\ WorkerTypeOK /\ ScheduleTypeOK /\ BoundsOK
    /\ disturbed \in [Reports -> BOOLEAN]
    /\ stamped \in [Reports -> 0..MaxTicks]
    /\ delivered \in [Reports -> 0..MaxTicks]

\* Whoever sees a report completed can download the whole of it: unless an execution
\* that lost its lock still wrote to the row, completed goes with a file and full
\* progress, however pauses, edits, retries and restarts fall (processReport).
CompletedIsWhole ==
    \A r \in Reports :
        status[r] = "completed" /\ ~disturbed[r] => progress[r] = 100 /\ file[r] # NoFile

\* When the queue is done with a report, the row tells the same story: completed, with a
\* file of what was queued, or failed.  Only a pause may hide it, and only an execution
\* that died or could not write to the row leaves another story there.
RowFollowsJob ==
    \A r \in Reports :
        /\ job[r] \in {"completed", "failed"}
        /\ \A w \in Slots : rep[w] # r
        /\ ~deleted[r] /\ ~disturbed[r]
        => /\ status[r] \in {job[r], "paused"}
           /\ job[r] = "completed" => file[r] = data[r]

\* Once nobody is pausing or resuming it, a report runs on its schedule exactly if it was
\* last resumed, in this process: a resume that meets a pause may win or lose.
ScheduleFollowsRequests ==
    \A r \in Reports :
        (\A w \in Handlers : rep[w] = r => op[w] \notin {"pause", "resume"})
        => /\ asked[r] = "pause" => ~cron[r]
           /\ asked[r] = "resume" => cron[r] = scheduled[r]

\* Recipients never hold a report the row does not know to be sent, unless the report
\* was deleted under its schedule: a failure in between loses notifications, it does not
\* send them unrecorded (executeReport).
StampBeforeDelivery ==
    \A r \in Reports : delivered[r] > stamped[r] => deleted[r]

\* A queued generation comes to an end, whatever fails, stalls or restarts.
JobsSettle ==
    \A r \in Reports :
        job[r] \in {"waiting", "active"} ~> job[r] \in {"completed", "failed"}
=============================================================================
