-------------------------- MODULE WebhookDelivery --------------------------
(***************************************************************************)
(* Delivery of received webhooks                                           *)
(* (src/src/services/webhook/WebhookProcessor.ts, WebhookService.ts and    *)
(* src/src/services/queue/WebhookQueue.ts), for the events of one          *)
(* registration.                                                           *)
(*                                                                         *)
(* The registration is one JSON value in Redis.  Whoever changes it reads  *)
(* it, and writes it back whole at a later await.  A job of BullMQ drives  *)
(* one delivery; it runs again when it throws and when its process died.   *)
(* delivered, lossy, stale and overtaken are history: no action reads them.*)
(* Definitions marked Slip are not part of the specification: each is a    *)
(* plausible mistake that a property below has to notice.                  *)
(***************************************************************************)
EXTENDS Integers

CONSTANTS
    Events,         \* rows of webhook_events, which are also the ids of the jobs
    Slots,          \* concurrent jobs of the webhook queue
    Handlers,       \* concurrent requests
    NoEvent, NoReg,
    JobAttempts,    \* attempts of a job
    MaxStalls,      \* BullMQ's maxStalledCount, which the code leaves at its default
    MaxAttempts,    \* webhook_events.max_attempts
    PauseAt,        \* failures that pause a registration
    MaxExpiries,    \* bound on finished jobs whose retention ends
    MaxFaults       \* bound on lost replies, failed statements and crashes

Workers == Slots \cup Handlers

Registration == [paused : BOOLEAN, failures : Nat]

ASSUME DeliveryAssumption ==
    /\ Slots \cap Handlers = {}
    /\ NoEvent \notin Events
    /\ NoReg \notin Registration
    /\ JobAttempts \in Nat \ {0}
    /\ MaxStalls \in Nat
    /\ MaxAttempts \in Nat \ {0}
    /\ PauseAt \in Nat \ {0}
    /\ MaxExpiries \in Nat
    /\ MaxFaults \in Nat

VARIABLES
    reg,                    \* the value of webhook:<id>
    eventStatus, attempts,  \* columns of webhook_events
    job, made, stalls,      \* BullMQ's record of webhook-<event>: attemptsMade, stalls
    pc, event, kind, seen, retriable,   \* what each worker is at, and its locals
    requeued,       \* the job was queued by retryWebhook
    expiries, faults,
    delivered,      \* times the receiver has answered 2xx
    lossy,          \* a run lost the knowledge that the receiver had
    stale,          \* a registration was overwritten that had changed since its read
    overtaken       \* retryWebhook has reset an event that was no longer failed

eventVars  == <<eventStatus, attempts>>
jobVars    == <<job, made, stalls, requeued>>
workerVars == <<pc, event, kind, seen, retriable>>
bounds     == <<expiries, faults>>
history    == <<delivered, lossy, stale, overtaken>>
vars == <<reg, eventVars, jobVars, workerVars, bounds, history>>

Init ==
    /\ reg = [paused |-> FALSE, failures |-> 0]
    /\ eventStatus = [e \in Events |-> "absent"]
    /\ attempts = [e \in Events |-> 0]
    /\ job = [e \in Events |-> "absent"]
    /\ made = [e \in Events |-> 0]
    /\ stalls = [e \in Events |-> 0]
    /\ pc = [w \in Workers |-> "idle"]
    /\ event = [w \in Workers |-> NoEvent]
    /\ kind = [w \in Workers |-> "none"]
    /\ seen = [w \in Workers |-> NoReg]
    /\ retriable = [w \in Workers |-> FALSE]
    /\ requeued = [e \in Events |-> FALSE]
    /\ expiries = 0 /\ faults = 0
    /\ delivered = [e \in Events |-> 0]
    /\ lossy = [e \in Events |-> FALSE]
    /\ stale = FALSE
    /\ overtaken = [e \in Events |-> FALSE]

Goto(w, label) ==
    /\ pc' = [pc EXCEPT ![w] = label]
    /\ UNCHANGED <<event, kind, seen, retriable>>

Begin(w, e, k, label) ==
    /\ pc[w] = "idle"
    /\ pc' = [pc EXCEPT ![w] = label]
    /\ event' = [event EXCEPT ![w] = e]
    /\ kind' = [kind EXCEPT ![w] = k]
    /\ UNCHANGED <<seen, retriable>>

Leave(w) ==
    /\ pc' = [pc EXCEPT ![w] = "idle"]
    /\ event' = [event EXCEPT ![w] = NoEvent]
    /\ kind' = [kind EXCEPT ![w] = "none"]
    /\ seen' = [seen EXCEPT ![w] = NoReg]
    /\ retriable' = [retriable EXCEPT ![w] = FALSE]

-----------------------------------------------------------------------------
(***************************************************************************)
(* Read, change and write back the registration.                           *)
(***************************************************************************)
\* Slip: the counter is set back by a fresh registration, which is not paused.
EditAfresh(k, r) ==
    CASE k = "count"  -> [r EXCEPT !.failures = @ + 1]
      [] k = "pause"  -> [r EXCEPT !.paused = TRUE]
      [] k \in {"reset", "resume"} -> [paused |-> FALSE, failures |-> 0]
      [] k = "events" -> r

Edit(k, r) ==
    CASE k = "count"  -> [r EXCEPT !.failures = @ + 1]
      [] k = "reset"  -> [r EXCEPT !.failures = 0]
      [] k = "pause"  -> [r EXCEPT !.paused = TRUE]
      [] k = "resume" -> [paused |-> FALSE, failures |-> 0]
      [] k = "events" -> r

\* Where the worker goes on once the registration is written, or was not there.
After(w) ==
    CASE kind[w] = "count" -> IF retriable[w] THEN "schedule" ELSE "markFailed"
      [] kind[w] = "reset" -> "succeed"
      [] kind[w] = "pause" /\ w \in Slots -> "fail"
      [] OTHER -> "idle"

Proceed(w) ==
    IF After(w) = "idle" THEN Leave(w)
    ELSE /\ pc' = [pc EXCEPT ![w] = After(w)]
         /\ seen' = [seen EXCEPT ![w] = NoReg]
         /\ UNCHANGED <<event, kind, retriable>>

\* retryWebhook queues the job under the integration's id, which no registration has.
RegOf(w) == IF w \in Slots /\ requeued[event[w]] THEN NoReg ELSE reg

ReadRegistration(w) ==
    /\ pc[w] = "read"
    /\ \/ /\ RegOf(w) # NoReg
          /\ seen' = [seen EXCEPT ![w] = reg]
          /\ pc' = [pc EXCEPT ![w] = "write"]
          /\ UNCHANGED <<event, kind, retriable>>
       \/ RegOf(w) = NoReg /\ Proceed(w)
    /\ UNCHANGED <<reg, eventVars, jobVars, bounds, history>>

WriteRegistration(w) ==
    /\ pc[w] = "write"
    /\ reg' = Edit(kind[w], seen[w])
    /\ stale' = (stale \/ reg # seen[w])
    /\ Proceed(w)
    /\ UNCHANGED <<eventVars, jobVars, bounds, delivered, lossy, overtaken>>

\* pauseWebhook, resumeWebhook, updateWebhookEvents.
StartEdit(w, k) ==
    /\ k \in {"pause", "resume", "events"}
    /\ Begin(w, NoEvent, k, "read")
    /\ UNCHANGED <<reg, eventVars, jobVars, bounds, history>>

\* unregisterWebhook, and the 30 days of the key.
Unregister ==
    /\ reg # NoReg
    /\ reg' = NoReg
    /\ UNCHANGED <<eventVars, jobVars, workerVars, bounds, history>>

-----------------------------------------------------------------------------
\* processIncomingWebhook stores the event, then queues its job; the sender is told
\* 200 whatever happens.
Receive(w, e) ==
    /\ reg # NoReg
    /\ eventStatus[e] = "absent"
    /\ eventStatus' = [eventStatus EXCEPT ![e] = "pending"]
    /\ Begin(w, e, "none", "enqueue")
    /\ UNCHANGED <<reg, attempts, jobVars, bounds, history>>

\* The job id is the event's: while BullMQ keeps a job, adding it again does nothing.
AddJob(e, again) ==
    /\ job' = [job EXCEPT ![e] = IF @ = "absent" THEN "waiting" ELSE @]
    /\ requeued' = [requeued EXCEPT ![e] = IF job[e] = "absent" THEN again ELSE @]
    /\ UNCHANGED <<made, stalls>>

Enqueue(w) ==
    /\ pc[w] = "enqueue"
    /\ AddJob(event[w], FALSE)
    /\ Leave(w)
    /\ UNCHANGED <<reg, eventVars, bounds, history>>

\* retryWebhook: reads the event, resets it, and queues its job again.
StartRetry(w, e) ==
    /\ eventStatus[e] = "failed"
    /\ Begin(w, e, "none", "retry")
    /\ UNCHANGED <<reg, eventVars, jobVars, bounds, history>>

ResetEvent(w) ==
    /\ pc[w] = "retry"
    /\ eventStatus' = [eventStatus EXCEPT ![event[w]] = "pending"]
    /\ attempts' = [attempts EXCEPT ![event[w]] = 0]
    /\ overtaken' = [overtaken EXCEPT ![event[w]] = @ \/ eventStatus[event[w]] # "failed"]
    /\ Goto(w, "requeue")
    /\ UNCHANGED <<reg, jobVars, bounds, delivered, lossy, stale>>

\* An integration without a URL or a secret leaves the event pending.
Requeue(w) ==
    /\ pc[w] = "requeue"
    /\ AddJob(event[w], TRUE) \/ UNCHANGED jobVars
    /\ Leave(w)
    /\ UNCHANGED <<reg, eventVars, bounds, history>>

\* removeOnComplete and removeOnFail keep a finished job for a day and for a week,
\* so no request that concerns it is still running.
ExpireJob(e) ==
    /\ job[e] \in {"completed", "failed"}
    /\ \A w \in Workers : event[w] # e
    /\ expiries < MaxExpiries
    /\ expiries' = expiries + 1
    /\ job' = [job EXCEPT ![e] = "absent"]
    /\ made' = [made EXCEPT ![e] = 0]
    /\ stalls' = [stalls EXCEPT ![e] = 0]
    /\ UNCHANGED <<requeued, reg, eventVars, workerVars, faults, history>>

-----------------------------------------------------------------------------
(***************************************************************************)
(* One run of the job: WebhookQueue.processWebhook around                  *)
(* WebhookProcessor.process.                                               *)
(***************************************************************************)
StartJob(w, e) ==
    /\ job[e] = "waiting"
    /\ job' = [job EXCEPT ![e] = "active"]
    /\ Begin(w, e, "none", "check")
    /\ UNCHANGED <<reg, eventVars, made, stalls, requeued, bounds, history>>

CheckPaused(w) ==
    /\ pc[w] = "check"
    /\ Goto(w, IF RegOf(w) # NoReg /\ reg.paused THEN "markPaused" ELSE "send")
    /\ UNCHANGED <<reg, eventVars, jobVars, bounds, history>>

\* handleWebhookError starts with incrementFailureCount.
Fail(w, again) ==
    /\ pc' = [pc EXCEPT ![w] = "read"]
    /\ kind' = [kind EXCEPT ![w] = "count"]
    /\ retriable' = [retriable EXCEPT ![w] = again]
    /\ seen' = [seen EXCEPT ![w] = NoReg]
    /\ UNCHANGED event

\* Slip: any answer is taken for a delivery.
SendUnvalidated(w) ==
    /\ pc[w] = "send"
    /\ \/ delivered' = [delivered EXCEPT ![event[w]] = @ + 1] /\ Goto(w, "markCompleted")
       \/ UNCHANGED delivered /\ Goto(w, "markCompleted")
    /\ UNCHANGED <<reg, eventVars, jobVars, bounds, lossy, stale, overtaken>>

Succeed(w) == Goto(w, "markCompleted")

Send(w) ==
    /\ pc[w] = "send"
    /\ \/ /\ delivered' = [delivered EXCEPT ![event[w]] = @ + 1]
          /\ \/ Succeed(w) /\ UNCHANGED <<faults, lossy>>
             \/ /\ faults < MaxFaults
                /\ faults' = faults + 1
                /\ lossy' = [lossy EXCEPT ![event[w]] = TRUE]
                /\ Fail(w, TRUE)
       \/ /\ \E again \in BOOLEAN : Fail(w, again)
          /\ UNCHANGED <<delivered, faults, lossy>>
    /\ UNCHANGED <<reg, eventVars, jobVars, expiries, stale, overtaken>>

MarkCompleted(w) ==
    /\ pc[w] = "markCompleted"
    /\ eventStatus' = [eventStatus EXCEPT ![event[w]] = "completed"]
    /\ pc' = [pc EXCEPT ![w] = "read"]
    /\ kind' = [kind EXCEPT ![w] = "reset"]
    /\ UNCHANGED <<event, seen, retriable, reg, attempts, jobVars, bounds, history>>

\* retryCount is attemptsMade + 1, which a job never takes past maxRetries.
ScheduleRetry(w) ==
    /\ pc[w] = "schedule"
    /\ eventStatus' = [eventStatus EXCEPT ![event[w]] = "pending"]
    /\ attempts' = [attempts EXCEPT ![event[w]] = made[event[w]] + 1]
    /\ Goto(w, "fail")
    /\ UNCHANGED <<reg, jobVars, bounds, history>>

MarkFailed(w, label) ==
    /\ eventStatus' = [eventStatus EXCEPT ![event[w]] =
                         IF attempts[event[w]] >= MaxAttempts THEN "failed" ELSE "pending"]
    /\ Goto(w, label)
    /\ UNCHANGED <<reg, attempts, jobVars, bounds, history>>

MarkPaused(w) == pc[w] = "markPaused" /\ MarkFailed(w, "fail")

MarkEventFailed(w) == pc[w] = "markFailed" /\ MarkFailed(w, "limit")

\* checkAndPauseWebhook
OverLimit(w) == RegOf(w) # NoReg /\ reg.failures >= PauseAt

CheckLimit(w) ==
    /\ pc[w] = "limit"
    /\ \/ /\ OverLimit(w)
          /\ pc' = [pc EXCEPT ![w] = "read"]
          /\ kind' = [kind EXCEPT ![w] = "pause"]
          /\ UNCHANGED <<event, seen, retriable>>
       \/ ~OverLimit(w) /\ Goto(w, "fail")
    /\ UNCHANGED <<reg, eventVars, jobVars, bounds, history>>

\* Slip: the result is not returned, and the queue takes the run for a failure.
CompleteJobUnreturned(w) ==
    /\ pc[w] = "succeed"
    /\ job' = [job EXCEPT ![event[w]] = "waiting"]
    /\ Leave(w)
    /\ UNCHANGED <<reg, eventVars, made, stalls, requeued, bounds, history>>

CompleteJob(w) ==
    /\ pc[w] = "succeed"
    /\ job' = [job EXCEPT ![event[w]] = "completed"]
    /\ Leave(w)
    /\ UNCHANGED <<reg, eventVars, made, stalls, requeued, bounds, history>>

\* Slips: the attempt is not counted; one attempt more than the limit.
FailJobUncounted(w) ==
    /\ pc[w] = "fail"
    /\ job' = [job EXCEPT ![event[w]] = "waiting"]
    /\ Leave(w)
    /\ UNCHANGED <<reg, eventVars, made, stalls, requeued, bounds, history>>

FailJobOnceMore(w) ==
    /\ pc[w] = "fail"
    /\ made' = [made EXCEPT ![event[w]] = @ + 1]
    /\ job' = [job EXCEPT ![event[w]] =
                 IF made[event[w]] < JobAttempts THEN "waiting" ELSE "failed"]
    /\ Leave(w)
    /\ UNCHANGED <<reg, eventVars, stalls, requeued, bounds, history>>

FailJob(w) ==
    /\ pc[w] = "fail"
    /\ made' = [made EXCEPT ![event[w]] = @ + 1]
    /\ job' = [job EXCEPT ![event[w]] =
                 IF made[event[w]] + 1 < JobAttempts THEN "waiting" ELSE "failed"]
    /\ Leave(w)
    /\ UNCHANGED <<reg, eventVars, stalls, requeued, bounds, history>>

-----------------------------------------------------------------------------
\* The receiver has accepted the event in this run, and only the run knows.
Knows(w) ==
    \/ pc[w] \in {"markCompleted", "succeed"}
    \/ pc[w] \in {"read", "write"} /\ kind[w] = "reset"

\* Inside the try block of process: a failure is handled as a failed delivery.
Guarded(w) ==
    \/ pc[w] \in {"check", "markPaused", "markCompleted"}
    \/ pc[w] \in {"read", "write"} /\ kind[w] = "reset"

StatementFails(w) ==
    /\ pc[w] \notin {"idle", "send", "succeed", "fail"}
    /\ faults < MaxFaults
    /\ faults' = faults + 1
    /\ \/ w \in Slots /\ Guarded(w) /\ Fail(w, TRUE)
       \/ w \in Slots /\ ~Guarded(w) /\ Goto(w, "fail")
       \/ w \in Handlers /\ Leave(w)
    /\ lossy' = [e \in Events |-> lossy[e] \/ (Knows(w) /\ event[w] = e)]
    /\ UNCHANGED <<reg, eventVars, jobVars, expiries, delivered, stale, overtaken>>

\* The process dies and restarts: BullMQ finds its active jobs stalled and puts them
\* back, or fails those that have stalled too often.
Crash ==
    /\ faults < MaxFaults
    /\ faults' = faults + 1
    /\ pc' = [w \in Workers |-> "idle"]
    /\ event' = [w \in Workers |-> NoEvent]
    /\ kind' = [w \in Workers |-> "none"]
    /\ seen' = [w \in Workers |-> NoReg]
    /\ retriable' = [w \in Workers |-> FALSE]
    /\ stalls' = [e \in Events |-> stalls[e] + (IF job[e] = "active" THEN 1 ELSE 0)]
    /\ job' = [e \in Events |-> IF job[e] # "active" THEN job[e]
                               ELSE IF stalls[e] < MaxStalls THEN "waiting" ELSE "failed"]
    /\ lossy' = [e \in Events |->
                   lossy[e] \/ \E w \in Workers : Knows(w) /\ event[w] = e]
    /\ UNCHANGED <<reg, eventVars, made, requeued, expiries, delivered, stale, overtaken>>

Request(w) ==
    \/ \E e \in Events : Receive(w, e) \/ StartRetry(w, e)
    \/ \E k \in {"pause", "resume", "events"} : StartEdit(w, k)

Step(w) ==
    \/ ReadRegistration(w) \/ WriteRegistration(w) \/ Enqueue(w)
    \/ ResetEvent(w) \/ Requeue(w)
    \/ CheckPaused(w) \/ Send(w) \/ MarkCompleted(w) \/ ScheduleRetry(w)
    \/ MarkPaused(w) \/ MarkEventFailed(w) \/ CheckLimit(w)
    \/ CompleteJob(w) \/ FailJob(w)

Next ==
    \/ \E w \in Slots, e \in Events : StartJob(w, e)
    \/ \E w \in Handlers : Request(w)
    \/ \E w \in Workers : Step(w) \/ StatementFails(w)
    \/ \E e \in Events : ExpireJob(e)
    \/ Unregister
    \/ Crash

Spec == Init /\ [][Next]_vars

\* Every await ends, by an answer or a time-out, and a free slot of the queue takes a
\* waiting job.  No request has to arrive.
Fairness ==
    /\ \A w \in Workers : WF_vars(Step(w))
    /\ \A e \in Events : WF_vars(\E w \in Slots : StartJob(w, e))

FairSpec == Spec /\ Fairness

-----------------------------------------------------------------------------
EventStatus == {"absent", "pending", "completed", "failed"}
JobState == {"absent", "waiting", "active", "completed", "failed"}
Kind == {"none", "count", "reset", "pause", "resume", "events"}
Label == {"idle", "read", "write", "enqueue", "retry", "requeue", "check", "markPaused", "send",
          "markCompleted", "schedule", "markFailed", "limit", "succeed", "fail"}

EventTypeOK ==
    /\ eventStatus \in [Events -> EventStatus]
    /\ attempts \in [Events -> 0..JobAttempts]

JobTypeOK ==
    /\ job \in [Events -> JobState]
    /\ made \in [Events -> 0..JobAttempts]
    /\ stalls \in [Events -> 0..(MaxStalls + 1)]
    /\ requeued \in [Events -> BOOLEAN]

WorkerTypeOK ==
    /\ pc \in [Workers -> Label]
    /\ event \in [Workers -> Events \cup {NoEvent}]
    /\ kind \in [Workers -> Kind]
    /\ seen \in [Workers -> Registration \cup {NoReg}]
    /\ retriable \in [Workers -> BOOLEAN]

HistoryTypeOK ==
    /\ delivered \in [Events -> Nat]
    /\ lossy \in [Events -> BOOLEAN]
    /\ stale \in BOOLEAN
    /\ overtaken \in [Events -> BOOLEAN]

\* Every variable ranges over the values the code can give it.
TypeOK ==
    /\ reg \in Registration \cup {NoReg}
    /\ EventTypeOK /\ JobTypeOK /\ WorkerTypeOK /\ HistoryTypeOK
    /\ expiries \in 0..MaxExpiries
    /\ faults \in 0..MaxFaults

\* The three records of an event agree on its delivery: an event is completed only if
\* its receiver took it, and a finished job leaves a completed event, whatever
\* failed, crashed or was retried by hand before, unless two retries by hand overlap
\* (process, retryWebhook).
CompletedMeansDelivered ==
    \A e \in Events :
        /\ eventStatus[e] = "completed" => delivered[e] > 0
        /\ job[e] = "completed" /\ ~overtaken[e] => eventStatus[e] = "completed"

\* The receiver sees an event twice only if a run lost the news of the first
\* delivery: retries by BullMQ, requeueing by hand and a paused registration never
\* send again what is known to have arrived.
RedeliveryNeedsLoss == \A e \in Events : delivered[e] > 1 => lossy[e]

\* A paused registration goes back to work only by resumeWebhook, as long as nobody
\* has written back a value that had changed since it was read.
PauseSticks ==
    [][reg # NoReg /\ reg'  # NoReg /\ ~stale' =>
         (reg.paused /\ ~reg'.paused =>
            \E w \in Handlers : kind[w] = "resume" /\ pc[w] = "write" /\ pc'[w] = "idle")]_vars

\* Every job comes to an end, whatever the receiver answers.
JobsSettle ==
    \A e \in Events : job[e] \in {"waiting", "active"} ~> job[e] \in {"completed", "failed"}

\* An event that has used all its attempts, and whose job has used its own, is marked
\* failed: the comment "Max retries exceeded or non-retryable error" of
\* handleWebhookError, and what retryWebhook asks for before it sends again.
ExhaustedEventsFail ==
    \A e \in Events :
        job[e] = "failed" /\ attempts[e] >= MaxAttempts => eventStatus[e] = "failed"
=============================================================================
