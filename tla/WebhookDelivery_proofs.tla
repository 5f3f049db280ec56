------------------------ MODULE WebhookDelivery_proofs ------------------------
(***************************************************************************)
(* Theorems about WebhookDelivery, for every number of events, slots of    *)
(* the queue, requests, attempts, expiries and faults.                     *)
(***************************************************************************)
EXTENDS WebhookDelivery, TLAPS

USE DeliveryAssumption

SlotLabel == {"idle", "read", "write", "check", "markPaused", "send", "markCompleted",
              "schedule", "markFailed", "limit", "succeed", "fail"}
HandlerLabel == {"idle", "read", "write", "enqueue", "retry", "requeue"}

\* Where a worker is says which locals it has set.
Placed(w) ==
    /\ pc[w] = "idle" => event[w] = NoEvent
    /\ w \in Slots => pc[w] \in SlotLabel
    /\ w \in Handlers => pc[w] \in HandlerLabel
    /\ w \in Slots /\ pc[w] # "idle" => event[w] \in Events
    /\ w \in Handlers /\ pc[w] \in {"enqueue", "retry", "requeue"} => event[w] \in Events
    /\ w \in Slots /\ pc[w] \in {"read", "write"} => kind[w] \in {"count", "reset", "pause"}
    /\ w \in Handlers /\ pc[w] \in {"read", "write"} =>
          kind[w] \in {"pause", "resume", "events"} /\ event[w] = NoEvent
    /\ pc[w] = "write" => seen[w] \in Registration

\* The job of a slot at work is active.
Running(w) == w \in Slots /\ pc[w] # "idle" => job[event[w]] = "active"

\* The event is marked completed; resetFailureCount and the end of the job are left.
Resetting(w) == pc[w] = "succeed" \/ (pc[w] \in {"read", "write"} /\ kind[w] = "reset")

\* A run marks completed what its receiver took; after that only retryWebhook touches
\* the row.
Delivering(w) ==
    /\ pc[w] = "markCompleted" => delivered[event[w]] > 0
    /\ Resetting(w) =>
          /\ delivered[event[w]] > 0
          /\ \/ eventStatus[event[w]] = "completed"
             \/ eventStatus[event[w]] = "pending" /\ overtaken[event[w]]

Fit(w) == Placed(w) /\ Running(w) /\ Delivering(w)

\* A job that may run again has an attempt left and has not stalled too often; a job
\* has one runner.
Queued ==
    /\ \A e \in Events :
          /\ job[e] = "absent" => made[e] = 0 /\ stalls[e] = 0
          /\ job[e] \in {"waiting", "active"} => made[e] < JobAttempts /\ stalls[e] <= MaxStalls
    /\ \A v, w \in Slots : pc[v] # "idle" /\ pc[w] # "idle" /\ event[v] = event[w] => v = w

Control == TypeOK /\ Queued /\ \A w \in Workers : Fit(w)

\* A run that is still at work knows of the delivery.
Told(e) == \E w \in Workers : Knows(w) /\ event[w] = e

\* Nothing is left that would send the event again.
Done(e) ==
    /\ eventStatus[e] \in {"completed", "pending"}
    /\ \/ job[e] = "completed"
       \/ job[e] = "absent" /\ \A w \in Workers : event[w] # e

\* Until nothing is left, and unless the news was lost, a run knows of the delivery.
Settled == \A e \in Events : delivered[e] > 0 /\ ~lossy[e] => Told(e) \/ Done(e)

-----------------------------------------------------------------------------
(***************************************************************************)
(* How a worker moves on.                                                  *)
(***************************************************************************)
\* Nobody else moves.
Alone(w) ==
    \A v \in Workers \ {w} :
        /\ pc'[v] = pc[v] /\ event'[v] = event[v] /\ kind'[v] = kind[v]
        /\ seen'[v] = seen[v]

\* A worker that returns is idle again.
LEMMA LeaveOK ==
  ASSUME TypeOK, NEW w \in Workers, Leave(w)
  PROVE  WorkerTypeOK' /\ Alone(w) /\ pc'[w] = "idle" /\ event'[w] = NoEvent
<1>1. WorkerTypeOK'
  BY DEF TypeOK, WorkerTypeOK, Leave, Label, Kind
<1>2. Alone(w)
  BY DEF TypeOK, WorkerTypeOK, Leave, Alone
<1> QED
  BY <1>1, <1>2 DEF TypeOK, WorkerTypeOK, Leave

\* A worker that goes on within its handler keeps its locals.
LEMMA GotoOK ==
  ASSUME TypeOK, NEW w \in Workers, NEW label \in Label, Goto(w, label)
  PROVE  WorkerTypeOK' /\ Alone(w) /\ pc'[w] = label /\ event'[w] = event[w]
         /\ kind'[w] = kind[w] /\ seen'[w] = seen[w]
  BY DEF TypeOK, WorkerTypeOK, Goto, Alone

\* A job or a request begins on an idle worker.
LEMMA BeginOK ==
  ASSUME TypeOK, NEW w \in Workers, NEW e \in Events \cup {NoEvent}, NEW k \in Kind,
         NEW label \in Label, Begin(w, e, k, label)
  PROVE  WorkerTypeOK' /\ Alone(w) /\ pc[w] = "idle" /\ pc'[w] = label
         /\ event'[w] = e /\ kind'[w] = k
<1>1. WorkerTypeOK'
  BY DEF TypeOK, WorkerTypeOK, Begin
<1>2. Alone(w)
  BY DEF TypeOK, WorkerTypeOK, Begin, Alone
<1> QED
  BY <1>1, <1>2 DEF TypeOK, WorkerTypeOK, Begin

\* The error handler of a run starts by counting the failure.
LEMMA FailOK ==
  ASSUME TypeOK, NEW w \in Workers, NEW again \in BOOLEAN, Fail(w, again)
  PROVE  WorkerTypeOK' /\ Alone(w) /\ pc'[w] = "read" /\ event'[w] = event[w]
         /\ kind'[w] = "count"
<1>1. WorkerTypeOK'
  BY DEF TypeOK, WorkerTypeOK, Fail, Label, Kind
<1>2. Alone(w)
  BY DEF TypeOK, WorkerTypeOK, Fail, Alone
<1> QED
  BY <1>1, <1>2 DEF TypeOK, WorkerTypeOK, Fail

\* Once the registration is dealt with a run goes on, and a request is over.
LEMMA ProceedOK ==
  ASSUME TypeOK, NEW w \in Workers, Placed(w), pc[w] \in {"read", "write"}, Proceed(w)
  PROVE  /\ WorkerTypeOK' /\ Alone(w)
         /\ w \in Slots => /\ pc'[w] \in {"schedule", "markFailed", "succeed", "fail"}
                           /\ pc'[w] = "succeed" <=> kind[w] = "reset"
                           /\ event'[w] = event[w] /\ kind'[w] = kind[w]
         /\ w \in Handlers => pc'[w] = "idle" /\ event'[w] = NoEvent
<1>1. CASE w \in Slots
  <2>1. kind[w] \in {"count", "reset", "pause"}
    BY <1>1 DEF Placed
  <2>2. /\ After(w) \in {"schedule", "markFailed", "succeed", "fail"}
        /\ After(w) = "succeed" <=> kind[w] = "reset"
    BY <1>1, <2>1 DEF After
  <2>3. /\ pc' = [pc EXCEPT ![w] = After(w)] /\ After(w) \in Label
        /\ seen' = [seen EXCEPT ![w] = NoReg] /\ UNCHANGED <<event, kind, retriable>>
    BY <2>2 DEF Proceed, Label
  <2>4. WorkerTypeOK'
    BY <2>3 DEF TypeOK, WorkerTypeOK
  <2>5. Alone(w)
    BY <2>3 DEF TypeOK, WorkerTypeOK, Alone
  <2>6. pc'[w] = After(w)
    BY <2>3 DEF TypeOK, WorkerTypeOK
  <2> QED
    BY <1>1, <2>2, <2>3, <2>4, <2>5, <2>6
<1>2. CASE w \in Handlers
  <2>1. After(w) = "idle"
    BY <1>2 DEF After, Placed
  <2> QED
    BY <1>2, <2>1, LeaveOK DEF Proceed
<1> QED
  BY <1>1, <1>2 DEF Workers

\* What a worker keeps while the others move: its own place.
LEMMA OtherPlaced ==
  ASSUME NEW w \in Workers, NEW v \in Workers, v # w, Alone(w), Placed(v)
  PROVE  Placed(v)'
  BY DEF Alone, Placed

-----------------------------------------------------------------------------
(***************************************************************************)
(* The alternatives of the actions that have several.                      *)
(***************************************************************************)
ReadValue(w) ==
    /\ pc[w] = "read" /\ reg # NoReg
    /\ seen' = [seen EXCEPT ![w] = reg]
    /\ pc' = [pc EXCEPT ![w] = "write"]
    /\ UNCHANGED <<event, kind, retriable, reg, eventVars, jobVars, bounds, history>>

ReadNothing(w) ==
    /\ pc[w] = "read"
    /\ Proceed(w)
    /\ UNCHANGED <<reg, eventVars, jobVars, bounds, history>>

RequeueJob(w) ==
    /\ pc[w] = "requeue"
    /\ AddJob(event[w], TRUE)
    /\ Leave(w)
    /\ UNCHANGED <<reg, eventVars, bounds, history>>

RequeueNothing(w) ==
    /\ pc[w] = "requeue"
    /\ Leave(w)
    /\ UNCHANGED <<reg, eventVars, jobVars, bounds, history>>

\* Steps of a run that change only where it is.
Checked(w, label) ==
    /\ \/ pc[w] = "check" /\ label \in {"markPaused", "send"}
       \/ pc[w] = "limit" /\ label = "fail"
    /\ Goto(w, label)
    /\ UNCHANGED <<reg, eventVars, jobVars, bounds, history>>

LimitPause(w) ==
    /\ pc[w] = "limit"
    /\ pc' = [pc EXCEPT ![w] = "read"]
    /\ kind' = [kind EXCEPT ![w] = "pause"]
    /\ UNCHANGED <<event, seen, retriable, reg, eventVars, jobVars, bounds, history>>

SendHeard(w) ==
    /\ pc[w] = "send"
    /\ delivered' = [delivered EXCEPT ![event[w]] = @ + 1]
    /\ Goto(w, "markCompleted")
    /\ UNCHANGED <<reg, eventVars, jobVars, bounds, lossy, stale, overtaken>>

SendLost(w) ==
    /\ pc[w] = "send"
    /\ delivered' = [delivered EXCEPT ![event[w]] = @ + 1]
    /\ faults < MaxFaults /\ faults' = faults + 1
    /\ lossy' = [lossy EXCEPT ![event[w]] = TRUE]
    /\ Fail(w, TRUE)
    /\ UNCHANGED <<reg, eventVars, jobVars, expiries, stale, overtaken>>

SendFailed(w, again) ==
    /\ pc[w] = "send"
    /\ Fail(w, again)
    /\ UNCHANGED <<reg, eventVars, jobVars, bounds, history>>

\* A failed statement of a run, inside the try block of process and outside, and of a request.
LoseNews(w) ==
    /\ pc[w] \notin {"idle", "send", "succeed", "fail"}
    /\ faults < MaxFaults /\ faults' = faults + 1
    /\ lossy' = [e \in Events |-> lossy[e] \/ (Knows(w) /\ event[w] = e)]
    /\ UNCHANGED <<reg, eventVars, jobVars, expiries, delivered, stale, overtaken>>

GuardedFails(w)   == w \in Slots /\ LoseNews(w) /\ Fail(w, TRUE)
UnguardedFails(w) == w \in Slots /\ LoseNews(w) /\ Goto(w, "fail")
RequestFails(w)   == w \in Handlers /\ LoseNews(w) /\ Leave(w)

\* A worker takes a step.
Moves(w) ==
    \/ \E e \in Events : w \in Slots /\ StartJob(w, e)
    \/ \E e \in Events : w \in Handlers /\ (Receive(w, e) \/ StartRetry(w, e))
    \/ \E k \in {"pause", "resume", "events"} : w \in Handlers /\ StartEdit(w, k)
    \/ ReadValue(w) \/ ReadNothing(w) \/ WriteRegistration(w)
    \/ Enqueue(w) \/ ResetEvent(w) \/ RequeueJob(w) \/ RequeueNothing(w)
    \/ \E label \in {"markPaused", "send", "fail"} : Checked(w, label)
    \/ SendHeard(w) \/ SendLost(w) \/ \E again \in BOOLEAN : SendFailed(w, again)
    \/ MarkCompleted(w) \/ ScheduleRetry(w) \/ MarkPaused(w) \/ MarkEventFailed(w)
    \/ LimitPause(w) \/ CompleteJob(w) \/ FailJob(w)
    \/ GuardedFails(w) \/ UnguardedFails(w) \/ RequestFails(w)

\* Every step is one of these.
LEMMA Alternatives ==
  ASSUME [Next]_vars
  PROVE  \/ \E w \in Workers : Moves(w)
         \/ \E e \in Events : ExpireJob(e)
         \/ Unregister \/ Crash \/ UNCHANGED vars
<1>1. ASSUME NEW w \in Workers, ReadRegistration(w) PROVE ReadValue(w) \/ ReadNothing(w)
  BY <1>1 DEF ReadRegistration, ReadValue, ReadNothing, RegOf
<1>2. ASSUME NEW w \in Workers, Requeue(w) PROVE RequeueJob(w) \/ RequeueNothing(w)
  BY <1>2 DEF Requeue, RequeueJob, RequeueNothing
<1>3. ASSUME NEW w \in Workers, CheckPaused(w)
      PROVE  \E label \in {"markPaused", "send", "fail"} : Checked(w, label)
  BY <1>3, Zenon DEF CheckPaused, Checked
<1>4. ASSUME NEW w \in Workers, CheckLimit(w)
      PROVE  LimitPause(w) \/ \E label \in {"markPaused", "send", "fail"} : Checked(w, label)
  BY <1>4 DEF CheckLimit, LimitPause, Checked
<1>5. ASSUME NEW w \in Workers, Send(w)
      PROVE  SendHeard(w) \/ SendLost(w) \/ \E again \in BOOLEAN : SendFailed(w, again)
  BY <1>5 DEF Send, Succeed, SendHeard, SendLost, SendFailed, bounds, history
<1>6. ASSUME NEW w \in Workers, StatementFails(w)
      PROVE  GuardedFails(w) \/ UnguardedFails(w) \/ RequestFails(w)
  BY <1>6, Zenon DEF StatementFails, LoseNews, GuardedFails, UnguardedFails, RequestFails
<1>7. ASSUME NEW w \in Workers, Step(w) \/ StatementFails(w) PROVE Moves(w)
  BY <1>1, <1>2, <1>3, <1>4, <1>5, <1>6, <1>7, Zenon DEF Step, Moves
<1>8. ASSUME NEW w \in Handlers, Request(w) PROVE w \in Workers /\ Moves(w)
  BY <1>8, Zenon DEF Request, Moves, Workers
<1>9. ASSUME NEW w \in Slots, NEW e \in Events, StartJob(w, e) PROVE w \in Workers /\ Moves(w)
  BY <1>9, Zenon DEF Moves, Workers
<1> QED
  BY <1>7, <1>8, <1>9, Zenon DEF Next

-----------------------------------------------------------------------------
(***************************************************************************)
(* What a worker does to the records of the events that it does not run.   *)
(***************************************************************************)
Runs(w, e) == w \in Slots /\ event[w] = e

\* Deliveries, losses and overlaps are never forgotten; nobody but its run changes the
\* status of an event, but for its receipt and a retry by hand.
RecordsKeep(w) ==
    \A e \in Events :
        /\ delivered[e] <= delivered'[e]
        /\ overtaken[e] => overtaken'[e]
        /\ lossy[e] => lossy'[e]
        /\ \/ eventStatus'[e] = eventStatus[e]
           \/ eventStatus[e] = "absent" /\ eventStatus'[e] = "pending"
           \/ Runs(w, e)
           \/ eventStatus'[e] = "pending" /\ (eventStatus[e] = "failed" \/ overtaken'[e])

\* An active job, or a finished one, that the worker does not run stays as it is.
JobsKeep(w) ==
    \A e \in Events : job[e] \in {"active", "completed"} /\ ~Runs(w, e) => job'[e] = job[e]

\* The rows and the history keep their types.
LEMMA RecordsStep ==
  ASSUME Control, NEW w \in Workers, Moves(w)
  PROVE  EventTypeOK' /\ HistoryTypeOK' /\ RecordsKeep(w)
<1> DEFINE Goal == EventTypeOK' /\ HistoryTypeOK' /\ RecordsKeep(w)
<1> SUFFICES Goal
  OBVIOUS
<1> USE DEF Control
<1>0. TypeOK /\ Placed(w) /\ Delivering(w) /\ pc[w] \in Label
  BY DEF Fit, TypeOK, WorkerTypeOK
<1>1. ASSUME UNCHANGED <<eventVars, delivered, overtaken>>, UNCHANGED stale \/ stale' \in BOOLEAN,
             lossy' \in [Events -> BOOLEAN], \A e \in Events : lossy[e] => lossy'[e]
      PROVE  Goal
  BY <1>0, <1>1 DEF TypeOK, EventTypeOK, HistoryTypeOK, RecordsKeep, eventVars
<1>2. CASE UNCHANGED <<eventVars, history>>
  BY <1>0, <1>1, <1>2 DEF TypeOK, HistoryTypeOK, history
<1>3. ASSUME NEW s \in EventStatus, NEW e \in Events,
             eventStatus' = [eventStatus EXCEPT ![e] = s],
             attempts' \in [Events -> 0..JobAttempts],
             UNCHANGED history,
             Runs(w, e) \/ (eventStatus[e] = "absent" /\ s = "pending")
      PROVE  Goal
  BY <1>0, <1>3 DEF TypeOK, EventTypeOK, HistoryTypeOK, RecordsKeep, history
<1> HIDE DEF Goal
<1>4. ASSUME NEW e \in Events, Receive(w, e) PROVE Goal
  <2>1. /\ eventStatus' = [eventStatus EXCEPT ![e] = "pending"] /\ eventStatus[e] = "absent"
        /\ attempts' \in [Events -> 0..JobAttempts] /\ UNCHANGED history
    BY <1>0, <1>4 DEF Receive, TypeOK, EventTypeOK
  <2>2. "pending" \in EventStatus
    BY DEF EventStatus
  <2> QED
    BY <1>3, <2>1, <2>2
<1>5. CASE ResetEvent(w)
  <2>1. event[w] \in Events
    BY <1>0, <1>5 DEF ResetEvent, Placed, SlotLabel, Workers
  <2>2. EventTypeOK' /\ HistoryTypeOK'
    BY <1>0, <1>5, <2>1 DEF ResetEvent, TypeOK, EventTypeOK, HistoryTypeOK, EventStatus
  <2>3. /\ \A e \in Events : e # event[w] => eventStatus'[e] = eventStatus[e]
        /\ eventStatus'[event[w]] = "pending"
        /\ delivered' = delivered /\ lossy' = lossy
    BY <1>0, <1>5, <2>1 DEF ResetEvent, TypeOK, EventTypeOK
  <2>4. /\ \A e \in Events : overtaken[e] => overtaken'[e]
        /\ overtaken'[event[w]] \/ eventStatus[event[w]] = "failed"
    BY <1>0, <1>5, <2>1 DEF ResetEvent, TypeOK, HistoryTypeOK
  <2>5. \A e \in Events : delivered[e] <= delivered'[e] /\ (lossy[e] => lossy'[e])
    BY <1>0, <2>3 DEF TypeOK, HistoryTypeOK
  <2>6. RecordsKeep(w)
    BY <2>3, <2>4, <2>5 DEF RecordsKeep
  <2> QED
    BY <2>2, <2>6 DEF Goal
<1>6. ASSUME w \in Slots, pc[w] # "idle" PROVE event[w] \in Events /\ Runs(w, event[w])
  BY <1>0, <1>6 DEF Placed, Runs
<1>7. ASSUME pc[w] \in {"send", "markCompleted", "schedule", "markPaused", "markFailed"}
      PROVE  event[w] \in Events /\ Runs(w, event[w])
  BY <1>0, <1>6, <1>7 DEF Placed, HandlerLabel, Workers
<1>8. ASSUME SendHeard(w) \/ SendLost(w) PROVE Goal
  <2>1. event[w] \in Events
    BY <1>7, <1>8 DEF SendHeard, SendLost
  <2>2. delivered' = [delivered EXCEPT ![event[w]] = @ + 1] /\ UNCHANGED <<eventVars, stale, overtaken>>
        /\ (lossy' = lossy \/ lossy' = [lossy EXCEPT ![event[w]] = TRUE])
    BY <1>8 DEF SendHeard, SendLost
  <2>3. EventTypeOK' /\ HistoryTypeOK'
    <3>1. delivered' \in [Events -> Nat] /\ lossy' \in [Events -> BOOLEAN]
      <4>1. delivered' \in [Events -> Nat]
        BY <1>0, <2>1, <2>2 DEF TypeOK, HistoryTypeOK
      <4>2. CASE lossy' = lossy
        BY <1>0, <4>1, <4>2 DEF TypeOK, HistoryTypeOK
      <4>3. CASE lossy' = [lossy EXCEPT ![event[w]] = TRUE]
        BY <1>0, <2>1, <4>1, <4>3 DEF TypeOK, HistoryTypeOK
      <4> QED
        BY <2>2, <4>2, <4>3
    <3> QED
      BY <1>0, <2>2, <3>1 DEF TypeOK, EventTypeOK, HistoryTypeOK, eventVars
  <2>4. \A e \in Events : /\ delivered[e] <= delivered'[e]
                          /\ lossy[e] => lossy'[e]
    BY <1>0, <2>1, <2>2 DEF TypeOK, HistoryTypeOK
  <2>5. overtaken' = overtaken /\ eventStatus' = eventStatus
    BY <2>2 DEF eventVars
  <2> QED
    BY <2>3, <2>4, <2>5 DEF Goal, RecordsKeep
<1>9. CASE MarkCompleted(w)
  <2>1. event[w] \in Events /\ Runs(w, event[w])
    BY <1>7, <1>9 DEF MarkCompleted
  <2>2. /\ eventStatus' = [eventStatus EXCEPT ![event[w]] = "completed"]
        /\ attempts' \in [Events -> 0..JobAttempts] /\ UNCHANGED history
    BY <1>0, <1>9 DEF MarkCompleted, TypeOK, EventTypeOK
  <2>3. "completed" \in EventStatus
    BY DEF EventStatus
  <2> QED
    BY <1>3, <2>1, <2>2, <2>3
<1>10. CASE ScheduleRetry(w)
  <2>1. event[w] \in Events /\ Runs(w, event[w])
    BY <1>7, <1>10 DEF ScheduleRetry
  <2>2. w \in Slots /\ pc[w] # "idle"
    BY <1>10, <2>1 DEF ScheduleRetry, Runs
  <2>3. made[event[w]] + 1 \in 0..JobAttempts
    BY <2>1, <2>2 DEF Fit, Running, Queued, TypeOK, JobTypeOK
  <2>4. /\ eventStatus' = [eventStatus EXCEPT ![event[w]] = "pending"]
        /\ attempts' \in [Events -> 0..JobAttempts] /\ UNCHANGED history
    BY <1>0, <1>10, <2>1, <2>3 DEF ScheduleRetry, TypeOK, EventTypeOK
  <2>5. "pending" \in EventStatus
    BY DEF EventStatus
  <2> QED
    BY <1>3, <2>1, <2>4, <2>5
<1>11. ASSUME NEW label \in {"fail", "limit"}, MarkFailed(w, label),
              pc[w] \in {"markPaused", "markFailed"}
       PROVE  Goal
  <2>1. event[w] \in Events /\ Runs(w, event[w])
    BY <1>7, <1>11
  <2>2. PICK s \in {"failed", "pending"} : eventStatus' = [eventStatus EXCEPT ![event[w]] = s]
    BY <1>11 DEF MarkFailed
  <2>3. s \in EventStatus /\ attempts' \in [Events -> 0..JobAttempts] /\ UNCHANGED history
    BY <1>0, <1>11 DEF MarkFailed, EventStatus, TypeOK, EventTypeOK
  <2> QED
    BY <1>3, <2>1, <2>2, <2>3
<1>12. ASSUME GuardedFails(w) \/ UnguardedFails(w) \/ RequestFails(w) PROVE Goal
  BY <1>0, <1>1, <1>12 DEF GuardedFails, UnguardedFails, RequestFails, LoseNews, TypeOK,
     HistoryTypeOK
<1>13. CASE WriteRegistration(w)
  BY <1>0, <1>1, <1>13 DEF WriteRegistration, TypeOK, HistoryTypeOK
<1>14. ASSUME \/ \E e \in Events : StartJob(w, e) \/ StartRetry(w, e)
              \/ \E k \in {"pause", "resume", "events"} : StartEdit(w, k)
              \/ ReadValue(w) \/ ReadNothing(w) \/ Enqueue(w) \/ RequeueJob(w) \/ RequeueNothing(w)
              \/ \E label \in {"markPaused", "send", "fail"} : Checked(w, label)
              \/ \E again \in BOOLEAN : SendFailed(w, again)
              \/ LimitPause(w) \/ CompleteJob(w) \/ FailJob(w)
       PROVE  UNCHANGED <<eventVars, history>>
  BY <1>14 DEF StartJob, StartRetry, StartEdit, ReadValue, ReadNothing, Enqueue, RequeueJob,
     RequeueNothing, Checked, SendFailed, LimitPause, CompleteJob, FailJob
<1> HIDE DEF Goal
<1> QED
  BY <1>2, <1>4, <1>5, <1>8, <1>9, <1>10, <1>11, <1>12, <1>13, <1>14
     DEF Moves, MarkPaused, MarkEventFailed

\* The queue's record of a job: who runs it, how often it may still run.
LEMMA JobsStep ==
  ASSUME Control, NEW w \in Workers, Moves(w)
  PROVE  /\ JobTypeOK' /\ JobsKeep(w)
         /\ \A e \in Events :
              /\ job'[e] = "absent" => made'[e] = 0 /\ stalls'[e] = 0
              /\ job'[e] \in {"waiting", "active"} => made'[e] < JobAttempts /\ stalls'[e] <= MaxStalls
<1> DEFINE Room == \A e \in Events :
              /\ job'[e] = "absent" => made'[e] = 0 /\ stalls'[e] = 0
              /\ job'[e] \in {"waiting", "active"} => made'[e] < JobAttempts /\ stalls'[e] <= MaxStalls
           Goal == JobTypeOK' /\ JobsKeep(w) /\ Room
<1> SUFFICES Goal
  OBVIOUS
<1> USE DEF Control
<1>0. TypeOK /\ Placed(w) /\ Queued
  BY DEF Fit
<1>1. CASE UNCHANGED jobVars
  BY <1>0, <1>1 DEF TypeOK, JobTypeOK, Queued, JobsKeep, jobVars
<1>2. ASSUME NEW e \in Events, StartJob(w, e) PROVE Goal
  BY <1>0, <1>2 DEF StartJob, TypeOK, JobTypeOK, JobState, Queued, JobsKeep
<1>3. ASSUME NEW again \in BOOLEAN, pc[w] \in {"enqueue", "requeue"}, AddJob(event[w], again)
      PROVE  Goal
  <2>1. event[w] \in Events
    BY <1>0, <1>3 DEF Placed, SlotLabel, Workers
  <2>2. JobTypeOK'
    BY <1>0, <1>3, <2>1 DEF AddJob, TypeOK, JobTypeOK, JobState
  <2> QED
    BY <1>0, <1>3, <2>1, <2>2 DEF AddJob, TypeOK, JobTypeOK, JobState, Queued, JobsKeep
<1>4. ASSUME pc[w] \in {"succeed", "fail"}
      PROVE  w \in Slots /\ event[w] \in Events /\ Runs(w, event[w]) /\ job[event[w]] = "active"
  BY <1>0, <1>4 DEF Placed, HandlerLabel, Workers, Runs, Fit, Running
<1>5. CASE CompleteJob(w)
  <2>1. event[w] \in Events /\ Runs(w, event[w])
    BY <1>4, <1>5 DEF CompleteJob
  <2> QED
    BY <1>0, <1>5, <2>1 DEF CompleteJob, TypeOK, JobTypeOK, JobState, Queued, JobsKeep
<1>6. CASE FailJob(w)
  <2>1. event[w] \in Events /\ Runs(w, event[w]) /\ job[event[w]] = "active"
    BY <1>4, <1>6 DEF FailJob
  <2>2. made[event[w]] + 1 \in 0..JobAttempts /\ stalls[event[w]] <= MaxStalls
    BY <1>0, <2>1 DEF Queued, TypeOK, JobTypeOK
  <2>3. /\ made' = [made EXCEPT ![event[w]] = @ + 1] /\ stalls' = stalls /\ requeued' = requeued
        /\ job' = [job EXCEPT ![event[w]] =
                     IF made[event[w]] + 1 < JobAttempts THEN "waiting" ELSE "failed"]
    BY <1>6 DEF FailJob
  <2>4. JobTypeOK'
    BY <1>0, <2>1, <2>2, <2>3 DEF TypeOK, JobTypeOK, JobState
  <2>5. Room
    BY <1>0, <2>1, <2>2, <2>3 DEF TypeOK, JobTypeOK, Queued
  <2>6. JobsKeep(w)
    BY <1>0, <2>1, <2>3 DEF TypeOK, JobTypeOK, JobsKeep
  <2> QED
    BY <2>4, <2>5, <2>6
<1>7. ASSUME \/ \E e \in Events : Receive(w, e) \/ StartRetry(w, e)
             \/ \E k \in {"pause", "resume", "events"} : StartEdit(w, k)
             \/ ReadValue(w) \/ ReadNothing(w) \/ WriteRegistration(w) \/ ResetEvent(w)
             \/ RequeueNothing(w) \/ \E label \in {"markPaused", "send", "fail"} : Checked(w, label)
             \/ SendHeard(w) \/ SendLost(w) \/ \E again \in BOOLEAN : SendFailed(w, again)
             \/ MarkCompleted(w) \/ ScheduleRetry(w) \/ MarkPaused(w) \/ MarkEventFailed(w)
             \/ LimitPause(w) \/ GuardedFails(w) \/ UnguardedFails(w) \/ RequestFails(w)
      PROVE  UNCHANGED jobVars
  BY <1>7 DEF Receive, StartRetry, StartEdit, ReadValue, ReadNothing, WriteRegistration,
     ResetEvent, RequeueNothing, Checked, SendHeard, SendLost, SendFailed, MarkCompleted,
     ScheduleRetry, MarkPaused, MarkEventFailed, MarkFailed, LimitPause, GuardedFails,
     UnguardedFails, RequestFails, LoseNews
<1>8. ASSUME Enqueue(w) \/ RequeueJob(w)
      PROVE  pc[w] \in {"enqueue", "requeue"} /\ \E again \in BOOLEAN : AddJob(event[w], again)
  BY <1>8 DEF Enqueue, RequeueJob
<1> HIDE DEF Goal
<1> QED
  BY <1>1, <1>2, <1>3, <1>5, <1>6, <1>7, <1>8 DEF Moves

-----------------------------------------------------------------------------
(***************************************************************************)
(* Control is inductive.                                                   *)
(***************************************************************************)
\* What a worker takes over from the records stays true while another one moves.
LEMMA OthersFit ==
  ASSUME Control, NEW w \in Workers, Moves(w), Alone(w), NEW v \in Workers, v # w
  PROVE  Fit(v)'
<1> USE DEF Control
<1>1. Placed(v)'
  BY OtherPlaced DEF Fit
<1>2. RecordsKeep(w) /\ JobsKeep(w) /\ EventTypeOK' /\ HistoryTypeOK'
  BY RecordsStep, JobsStep
<1>3. pc'[v] = pc[v] /\ event'[v] = event[v] /\ kind'[v] = kind[v]
  BY DEF Alone
<1>4. ASSUME v \in Slots, pc[v] # "idle" PROVE event[v] \in Events /\ ~Runs(w, event[v])
  <2>1. event[v] \in Events /\ event[v] # NoEvent
    BY <1>4 DEF Fit, Placed
  <2>2. Runs(w, event[v]) => pc[w] # "idle" /\ w \in Slots /\ event[w] = event[v]
    BY <2>1 DEF Runs, Fit, Placed
  <2> QED
    BY <1>4, <2>1, <2>2 DEF Queued
<1>5. Running(v)'
  BY <1>2, <1>3, <1>4 DEF Running, JobsKeep, Fit
<1>6. Resetting(v)' <=> Resetting(v)
  BY <1>3 DEF Resetting
<1>7. ASSUME pc[v] = "markCompleted" \/ Resetting(v) PROVE v \in Slots /\ pc[v] # "idle"
  BY <1>7 DEF Fit, Placed, Resetting, HandlerLabel, Workers
<1>8. ASSUME pc[v] = "markCompleted" \/ Resetting(v), delivered[event[v]] > 0
      PROVE  delivered'[event[v]] > 0
  <2>1. event[v] \in Events
    BY <1>4, <1>7, <1>8
  <2>2. delivered[event[v]] <= delivered'[event[v]]
    BY <1>2, <2>1 DEF RecordsKeep
  <2> QED
    BY <1>2, <1>8, <2>1, <2>2 DEF TypeOK, HistoryTypeOK
<1>9. ASSUME Resetting(v)
      PROVE  \/ eventStatus'[event[v]] = "completed"
             \/ eventStatus'[event[v]] = "pending" /\ overtaken'[event[v]]
  <2>1. event[v] \in Events /\ ~Runs(w, event[v])
    BY <1>4, <1>7, <1>9
  <2>2. \/ eventStatus[event[v]] = "completed"
        \/ eventStatus[event[v]] = "pending" /\ overtaken[event[v]]
    BY <1>9 DEF Fit, Delivering
  <2>3. /\ overtaken[event[v]] => overtaken'[event[v]]
        /\ \/ eventStatus'[event[v]] = eventStatus[event[v]]
           \/ eventStatus[event[v]] = "absent"
           \/ /\ eventStatus'[event[v]] = "pending"
              /\ eventStatus[event[v]] = "failed" \/ overtaken'[event[v]]
    BY <1>2, <2>1 DEF RecordsKeep
  <2> QED
    BY <2>2, <2>3
<1>10. Delivering(v)'
  BY <1>3, <1>6, <1>8, <1>9 DEF Delivering, Fit
<1> QED
  BY <1>1, <1>5, <1>10 DEF Fit

\* Fit of a worker, from what its step sets.
LEMMA WorkerFit ==
  ASSUME Control, NEW w \in Workers, Moves(w)
  PROVE  WorkerTypeOK' /\ Alone(w) /\ Fit(w)'
<1> DEFINE Goal == WorkerTypeOK' /\ Alone(w) /\ Fit(w)'
<1> SUFFICES Goal
  OBVIOUS
<1> USE DEF Control
<1>0. /\ TypeOK /\ Fit(w) /\ pc[w] \in Label /\ Slots \cap Handlers = {} /\ w \in Slots \cup Handlers
      /\ EventTypeOK' /\ HistoryTypeOK' /\ JobTypeOK' /\ RecordsKeep(w)
  BY RecordsStep, JobsStep DEF TypeOK, WorkerTypeOK, Workers
<1>a. NoEvent \notin Events
  OBVIOUS
<1>1. ASSUME WorkerTypeOK', Alone(w), pc'[w] = "idle", event'[w] = NoEvent PROVE Goal
  BY <1>1 DEF Fit, Placed, Running, Delivering, Resetting, SlotLabel, HandlerLabel
<1>2. CASE Leave(w)
  BY <1>0, <1>1, <1>2, LeaveOK
<1>3. ASSUME w \in Slots, pc[w] # "idle", WorkerTypeOK', Alone(w), event'[w] = event[w],
             UNCHANGED job,
             \/ pc'[w] \in {"markPaused", "send", "schedule", "markFailed", "limit", "fail"}
             \/ pc'[w] = "read" /\ kind'[w] \in {"count", "pause"}
      PROVE  Goal
  <2>1. event[w] \in Events /\ job[event[w]] = "active"
    BY <1>3, <1>0 DEF Fit, Placed, Running
  <2>2. Placed(w)'
    BY <1>3, <1>0, <2>1 DEF Placed, SlotLabel
  <2> QED
    BY <1>3, <2>1, <2>2 DEF Fit, Running, Delivering, Resetting
<1>4. ASSUME w \in Handlers, WorkerTypeOK', Alone(w),
             \/ pc'[w] \in {"enqueue", "retry", "requeue"} /\ event'[w] \in Events
             \/ /\ pc'[w] = "read" /\ event'[w] = NoEvent
                /\ kind'[w] \in {"pause", "resume", "events"}
      PROVE  Goal
  <2>1. Placed(w)'
    BY <1>4, <1>0 DEF Placed, HandlerLabel
  <2> QED
    BY <1>4, <1>0, <2>1 DEF Fit, Running, Delivering, Resetting
<1> HIDE DEF Goal
<1>5. ASSUME NEW e \in Events, w \in Slots, StartJob(w, e) PROVE Goal
  <2>1. "check" \in Label /\ "none" \in Kind /\ Begin(w, e, "none", "check")
    BY <1>5 DEF Label, Kind, StartJob
  <2>2. /\ WorkerTypeOK' /\ Alone(w) /\ pc[w] = "idle" /\ pc'[w] = "check" /\ event'[w] = e
    BY <1>0, <2>1, BeginOK
  <2>3. job'[e] = "active"
    BY <1>0, <1>5 DEF StartJob, TypeOK, JobTypeOK
  <2>4. Placed(w)'
    BY <1>0, <1>5, <2>2 DEF Placed, SlotLabel
  <2> QED
    BY <2>2, <2>3, <2>4 DEF Goal, Fit, Running, Delivering, Resetting
<1>6. ASSUME NEW e \in Events, w \in Handlers, Receive(w, e) \/ StartRetry(w, e) PROVE Goal
  <2>1. PICK label \in {"enqueue", "retry"} : Begin(w, e, "none", label)
    BY <1>6 DEF Receive, StartRetry
  <2>2. label \in Label /\ "none" \in Kind
    BY DEF Label, Kind
  <2> QED
    BY <1>0, <1>4, <1>6, <2>1, <2>2, BeginOK
<1>7. ASSUME NEW k \in {"pause", "resume", "events"}, w \in Handlers, StartEdit(w, k) PROVE Goal
  <2>1. "read" \in Label /\ k \in Kind /\ Begin(w, NoEvent, k, "read")
    BY <1>7 DEF Label, Kind, StartEdit
  <2> QED
    BY <1>0, <1>4, <1>7, <2>1, BeginOK
<1>8. CASE ReadValue(w)
  <2>1. WorkerTypeOK' /\ Alone(w)
    BY <1>0, <1>8 DEF ReadValue, TypeOK, WorkerTypeOK, Alone, Label
  <2>2. /\ pc[w] = "read" /\ pc'[w] = "write" /\ seen'[w] \in Registration
        /\ event'[w] = event[w] /\ kind'[w] = kind[w]
    BY <1>0, <1>8 DEF ReadValue, TypeOK, WorkerTypeOK
  <2>3. Placed(w)'
    BY <1>0, <2>2 DEF Fit, Placed, SlotLabel, HandlerLabel
  <2>4. UNCHANGED <<job, delivered, eventStatus, overtaken>>
    BY <1>8 DEF ReadValue, jobVars, eventVars, history
  <2>5. Resetting(w)' <=> Resetting(w)
    BY <2>2 DEF Resetting
  <2> QED
    BY <1>0, <2>1, <2>2, <2>3, <2>4, <2>5 DEF Goal, Fit, Running, Delivering
<1>9. ASSUME pc[w] \in {"read", "write"}, Proceed(w),
             UNCHANGED <<job, delivered, eventStatus, overtaken>>
      PROVE  Goal
  <2> USE <1>9
  <2>1. CASE w \in Handlers
    BY <1>0, <1>1, <2>1, ProceedOK DEF Fit
  <2>2. CASE w \in Slots
    <3>1. /\ WorkerTypeOK' /\ Alone(w) /\ event'[w] = event[w]
          /\ pc'[w] \in {"schedule", "markFailed", "succeed", "fail"}
          /\ pc'[w] = "succeed" <=> kind[w] = "reset"
      BY <1>0, <2>2, ProceedOK DEF Fit
    <3>2. CASE pc'[w] # "succeed"
      BY <1>3, <2>2, <3>1, <3>2
    <3>3. CASE pc'[w] = "succeed"
      <4>1. Resetting(w)
        BY <3>1, <3>3 DEF Resetting
      <4>2. Placed(w)'
        BY <1>0, <2>2, <3>1, <3>3 DEF Fit, Placed, SlotLabel
      <4> QED
        BY <1>0, <2>2, <3>1, <3>3, <4>1, <4>2 DEF Goal, Fit, Running, Delivering
    <3> QED
      BY <3>2, <3>3
  <2> QED
    BY <1>0, <2>1, <2>2
<1>10. ASSUME ReadNothing(w) \/ WriteRegistration(w) PROVE Goal
  BY <1>9, <1>10 DEF ReadNothing, WriteRegistration, jobVars, eventVars, history
<1>11. ASSUME Enqueue(w) \/ RequeueJob(w) \/ RequeueNothing(w) \/ CompleteJob(w) \/ FailJob(w)
              \/ RequestFails(w)
       PROVE  Leave(w)
  BY <1>11 DEF Enqueue, RequeueJob, RequeueNothing, CompleteJob, FailJob, RequestFails
<1>12. CASE ResetEvent(w)
  <2>1. "requeue" \in Label /\ Goto(w, "requeue") /\ pc[w] = "retry"
    BY <1>12 DEF Label, ResetEvent
  <2>2. w \in Handlers /\ event[w] \in Events
    BY <1>0, <2>1 DEF Fit, Placed, SlotLabel
  <2> QED
    BY <1>0, <1>4, <2>1, <2>2, GotoOK
<1>13. ASSUME NEW label \in {"markPaused", "send", "schedule", "markFailed", "limit", "fail"},
              w \in Slots, pc[w] # "idle", Goto(w, label), UNCHANGED job
       PROVE  Goal
  <2>1. label \in Label
    BY DEF Label
  <2> QED
    BY <1>0, <1>3, <1>13, <2>1, GotoOK
<1>14. ASSUME pc[w] \in {"check", "limit", "markPaused", "markFailed", "schedule", "send",
                         "markCompleted"}
       PROVE  w \in Slots /\ pc[w] # "idle"
  BY <1>0, <1>14 DEF Fit, Placed, HandlerLabel
<1>15. ASSUME NEW label \in {"markPaused", "send", "fail"}, Checked(w, label) PROVE Goal
  BY <1>13, <1>14, <1>15 DEF Checked, jobVars
<1>16. ASSUME ScheduleRetry(w) \/ MarkPaused(w) \/ MarkEventFailed(w) PROVE Goal
  BY <1>13, <1>14, <1>16 DEF ScheduleRetry, MarkPaused, MarkEventFailed, MarkFailed, jobVars
<1>17. CASE UnguardedFails(w)
  BY <1>13, <1>17 DEF UnguardedFails, LoseNews, jobVars
<1>18. ASSUME NEW again \in BOOLEAN, w \in Slots, pc[w] # "idle", Fail(w, again), UNCHANGED job
       PROVE  Goal
  BY <1>0, <1>3, <1>18, FailOK
<1>19. ASSUME SendLost(w) \/ GuardedFails(w) \/ \E again \in BOOLEAN : SendFailed(w, again)
       PROVE  Goal
  BY <1>14, <1>18, <1>19 DEF SendLost, GuardedFails, LoseNews, SendFailed, jobVars
<1>20. CASE SendHeard(w)
  <2>1. "markCompleted" \in Label /\ Goto(w, "markCompleted") /\ pc[w] = "send"
    BY <1>20 DEF Label, SendHeard
  <2>2. /\ WorkerTypeOK' /\ Alone(w) /\ pc'[w] = "markCompleted" /\ event'[w] = event[w]
    BY <1>0, <2>1, GotoOK
  <2>3. w \in Slots /\ event[w] \in Events /\ job[event[w]] = "active" /\ job' = job
    BY <1>0, <1>14, <1>20, <2>1 DEF Fit, Placed, Running, SendHeard, jobVars
  <2>4. delivered'[event[w]] > 0
    BY <1>0, <1>20, <2>3 DEF SendHeard, TypeOK, HistoryTypeOK
  <2>5. Placed(w)'
    BY <1>0, <2>2, <2>3 DEF Placed, SlotLabel
  <2> QED
    BY <2>2, <2>3, <2>4, <2>5 DEF Goal, Fit, Running, Delivering, Resetting
<1>21. CASE MarkCompleted(w)
  <2>1. WorkerTypeOK' /\ Alone(w)
    BY <1>0, <1>21 DEF MarkCompleted, TypeOK, WorkerTypeOK, Alone, Label, Kind
  <2>2. /\ pc[w] = "markCompleted" /\ pc'[w] = "read" /\ kind'[w] = "reset"
        /\ event'[w] = event[w] /\ job' = job /\ delivered' = delivered
    BY <1>0, <1>21 DEF MarkCompleted, TypeOK, WorkerTypeOK, jobVars, history
  <2>3. /\ w \in Slots /\ event[w] \in Events /\ job[event[w]] = "active"
        /\ delivered[event[w]] > 0
    BY <1>0, <1>14, <2>2 DEF Fit, Placed, Running, Delivering
  <2>4. eventStatus'[event[w]] = "completed"
    BY <1>0, <1>21, <2>3 DEF MarkCompleted, TypeOK, EventTypeOK
  <2>5. Placed(w)'
    BY <1>0, <2>2, <2>3 DEF Placed, SlotLabel
  <2> QED
    BY <2>1, <2>2, <2>3, <2>4, <2>5 DEF Goal, Fit, Running, Delivering
<1>22. CASE LimitPause(w)
  <2>1. WorkerTypeOK' /\ Alone(w)
    BY <1>0, <1>22 DEF LimitPause, TypeOK, WorkerTypeOK, Alone, Label, Kind
  <2>2. /\ pc[w] = "limit" /\ pc'[w] = "read" /\ kind'[w] = "pause"
        /\ event'[w] = event[w] /\ job' = job
    BY <1>0, <1>22 DEF LimitPause, TypeOK, WorkerTypeOK, jobVars
  <2> QED
    BY <1>3, <1>14, <2>1, <2>2
<1> QED
  BY <1>2, <1>5, <1>6, <1>7, <1>8, <1>10, <1>11, <1>12, <1>15, <1>16, <1>17, <1>19, <1>20,
     <1>21, <1>22, Zenon DEF Moves

\* A slot at work after a step was at work on the same event, or has taken a waiting job.
LEMMA RunnerKept ==
  ASSUME Control, NEW w \in Slots, Moves(w)
  PROVE  \/ pc'[w] = "idle"
         \/ pc[w] # "idle" /\ event'[w] = event[w]
         \/ \E e \in Events : StartJob(w, e) /\ event'[w] = e
<1> DEFINE Goal == \/ pc'[w] = "idle"
                   \/ pc[w] # "idle" /\ event'[w] = event[w]
                   \/ \E e \in Events : StartJob(w, e) /\ event'[w] = e
<1> SUFFICES Goal
  OBVIOUS
<1>1. TypeOK /\ w \in Workers /\ w \notin Handlers
  BY DEF Control, Workers
<1>2. ASSUME Leave(w) PROVE Goal
  BY <1>1, <1>2, LeaveOK
<1>3. ASSUME pc[w] # "idle", UNCHANGED event PROVE Goal
  BY <1>3
<1>4. ASSUME pc[w] \in {"read", "write"}, Proceed(w) PROVE Goal
  BY <1>2, <1>3, <1>4 DEF Proceed
<1>5. ASSUME NEW e \in Events, StartJob(w, e) PROVE Goal
  BY <1>1, <1>5 DEF StartJob, Begin, TypeOK, WorkerTypeOK
<1>6. ASSUME \/ ReadValue(w) \/ ResetEvent(w) \/ MarkCompleted(w) \/ ScheduleRetry(w)
             \/ \E label \in {"markPaused", "send", "fail"} : Checked(w, label)
             \/ SendHeard(w) \/ SendLost(w) \/ \E again \in BOOLEAN : SendFailed(w, again)
             \/ MarkPaused(w) \/ MarkEventFailed(w) \/ LimitPause(w)
             \/ GuardedFails(w) \/ UnguardedFails(w)
      PROVE  pc[w] # "idle" /\ UNCHANGED event
  BY <1>6 DEF ReadValue, ResetEvent, MarkCompleted, ScheduleRetry, Checked, SendHeard, SendLost,
     SendFailed, MarkPaused, MarkEventFailed, MarkFailed, LimitPause, GuardedFails,
     UnguardedFails, LoseNews, Goto, Fail
<1>7. ASSUME Enqueue(w) \/ RequeueJob(w) \/ RequeueNothing(w) \/ CompleteJob(w) \/ FailJob(w)
             \/ RequestFails(w)
      PROVE  Leave(w)
  BY <1>7 DEF Enqueue, RequeueJob, RequeueNothing, CompleteJob, FailJob, RequestFails
<1>8. ASSUME ReadNothing(w) \/ WriteRegistration(w)
      PROVE  pc[w] \in {"read", "write"} /\ Proceed(w)
  BY <1>8 DEF ReadNothing, WriteRegistration
<1> HIDE DEF Goal
<1> QED
  BY <1>1, <1>2, <1>3, <1>4, <1>5, <1>6, <1>7, <1>8, Zenon DEF Moves

\* Control survives the step of a worker.
LEMMA MoveStep ==
  ASSUME Control, NEW w \in Workers, Moves(w) PROVE Control'
<1>1. /\ EventTypeOK' /\ HistoryTypeOK' /\ JobTypeOK' /\ WorkerTypeOK'
      /\ \A v \in Workers : Fit(v)'
  BY RecordsStep, JobsStep, WorkerFit, OthersFit
<1>2. (reg \in Registration \cup {NoReg})' /\ (expiries \in 0..MaxExpiries)'
      /\ (faults \in 0..MaxFaults)'
  <2> USE DEF Control, TypeOK, bounds
  <2>1. ASSUME NEW k \in {"count", "reset", "pause", "resume", "events"}, NEW r \in Registration
        PROVE  Edit(k, r) \in Registration
    <3>1. PICK p \in BOOLEAN, n \in Nat : r = [paused |-> p, failures |-> n]
      BY DEF Registration
    <3>2. Edit(k, r) \in {[paused |-> p, failures |-> n + 1], [paused |-> p, failures |-> 0],
                          [paused |-> TRUE, failures |-> n],
                          [paused |-> FALSE, failures |-> 0], r}
      BY <2>1, <3>1 DEF Edit
    <3>3. \A q \in BOOLEAN, m \in Nat : [paused |-> q, failures |-> m] \in Registration
      BY DEF Registration
    <3>4. n + 1 \in Nat /\ 0 \in Nat /\ p \in BOOLEAN /\ TRUE \in BOOLEAN /\ FALSE \in BOOLEAN
      OBVIOUS
    <3> QED
      BY <3>2, <3>3, <3>4, ZenonT(30)
  <2>2. CASE WriteRegistration(w)
    <3>1. /\ seen[w] \in Registration
          /\ kind[w] \in {"count", "reset", "pause", "resume", "events"}
      BY <2>2 DEF WriteRegistration, Fit, Placed, Workers
    <3> QED
      BY <2>1, <2>2, <3>1 DEF WriteRegistration
  <2>3. ASSUME SendLost(w) \/ GuardedFails(w) \/ UnguardedFails(w) \/ RequestFails(w)
        PROVE  UNCHANGED <<reg, expiries>> /\ faults < MaxFaults /\ faults' = faults + 1
    BY <2>3 DEF SendLost, GuardedFails, UnguardedFails, RequestFails, LoseNews
  <2>4. ASSUME \/ \E e \in Events : StartJob(w, e) \/ Receive(w, e) \/ StartRetry(w, e)
               \/ \E k \in {"pause", "resume", "events"} : StartEdit(w, k)
               \/ ReadValue(w) \/ ReadNothing(w) \/ Enqueue(w) \/ ResetEvent(w) \/ RequeueJob(w)
               \/ RequeueNothing(w) \/ \E label \in {"markPaused", "send", "fail"} : Checked(w, label)
               \/ SendHeard(w) \/ \E again \in BOOLEAN : SendFailed(w, again)
               \/ MarkCompleted(w) \/ ScheduleRetry(w) \/ MarkPaused(w) \/ MarkEventFailed(w)
               \/ LimitPause(w) \/ CompleteJob(w) \/ FailJob(w)
        PROVE  UNCHANGED <<reg, bounds>>
    BY <2>4 DEF StartJob, Receive, StartRetry, StartEdit, ReadValue, ReadNothing, Enqueue,
       ResetEvent, RequeueJob, RequeueNothing, Checked, SendHeard, SendFailed, MarkCompleted,
       ScheduleRetry, MarkPaused, MarkEventFailed, MarkFailed, LimitPause, CompleteJob, FailJob
  <2> QED
    BY <2>2, <2>3, <2>4 DEF Moves
<1>3. ASSUME NEW u \in Slots, NEW v \in Slots, pc'[u] # "idle", pc'[v] # "idle",
             event'[u] = event'[v]
      PROVE  u = v
  <2> USE DEF Control
  <2>1. Alone(w)
    BY WorkerFit
  <2>2. ASSUME NEW x \in Slots, pc'[x] # "idle"
        PROVE  \/ pc[x] # "idle" /\ event'[x] = event[x]
               \/ x = w /\ \E e \in Events : StartJob(w, e) /\ event'[w] = e
    BY <2>1, <2>2, RunnerKept DEF Alone, Workers
  <2>3. ASSUME NEW x \in Slots, pc[x] # "idle", NEW e \in Events, StartJob(w, e)
        PROVE  event[x] # e
    BY <2>3 DEF Fit, Running, StartJob, Workers
  <2> QED
    BY <1>3, <2>2, <2>3 DEF Queued
<1>4. Queued'
  BY <1>3, JobsStep DEF Queued
<1> QED
  BY <1>1, <1>2, <1>4 DEF Control, TypeOK

\* Control holds at first.
LEMMA ControlInit == Init => Control
<1> SUFFICES ASSUME Init PROVE Control
  OBVIOUS
<1> USE DEF Init
<1>1. TypeOK
  <2>1. reg \in Registration \cup {NoReg}
    BY DEF Registration
  <2>2. EventTypeOK /\ JobTypeOK /\ HistoryTypeOK
    <3>1. 0 \in 0..JobAttempts /\ 0 \in 0..(MaxStalls + 1)
      OBVIOUS
    <3> QED
      BY <3>1 DEF EventTypeOK, JobTypeOK, HistoryTypeOK, EventStatus, JobState
  <2>3. WorkerTypeOK
    BY DEF WorkerTypeOK, Label, Kind
  <2> QED
    BY <2>1, <2>2, <2>3 DEF TypeOK
<1>2. Queued
  BY DEF Queued, Workers
<1>3. ASSUME NEW w \in Workers PROVE Fit(w)
  BY <1>3 DEF Fit, Placed, Running, Delivering, Resetting, SlotLabel, HandlerLabel
<1> QED
  BY <1>1, <1>2, <1>3 DEF Control

\* Control is inductive.
LEMMA ControlStep == Control /\ [Next]_vars => Control'
<1> SUFFICES ASSUME Control, [Next]_vars PROVE Control'
  OBVIOUS
<1> USE DEF Control
<1>1. ASSUME NEW e \in Events, ExpireJob(e) PROVE Control'
  <2>1. JobTypeOK' /\ (expiries \in 0..MaxExpiries)'
    BY <1>1 DEF ExpireJob, TypeOK, JobTypeOK, JobState
  <2>2. TypeOK'
    BY <1>1, <2>1 DEF ExpireJob, TypeOK, EventTypeOK, WorkerTypeOK, HistoryTypeOK, eventVars,
       workerVars, history
  <2>3. /\ \A d \in Events : d # e => job'[d] = job[d] /\ made'[d] = made[d] /\ stalls'[d] = stalls[d]
        /\ job'[e] = "absent" /\ made'[e] = 0 /\ stalls'[e] = 0 /\ job[e] # "active"
    BY <1>1 DEF ExpireJob, TypeOK, JobTypeOK
  <2>4. Queued'
    BY <1>1, <2>3 DEF ExpireJob, Queued, workerVars
  <2>5. ASSUME NEW w \in Workers PROVE Fit(w)'
    <3>1. Placed(w)' /\ Delivering(w)'
      BY <1>1 DEF ExpireJob, Fit, Placed, Delivering, Resetting, eventVars, workerVars, history
    <3>2. Running(w)'
      BY <1>1, <2>3 DEF ExpireJob, Fit, Placed, Running, workerVars
    <3> QED
      BY <3>1, <3>2 DEF Fit
  <2> QED
    BY <2>2, <2>4, <2>5
<1>2. CASE Unregister \/ UNCHANGED vars
  <2>1. UNCHANGED <<eventVars, jobVars, workerVars, bounds, history>> /\ reg' \in {reg, NoReg}
    BY <1>2 DEF Unregister, vars
  <2>2. TypeOK' /\ Queued'
    BY <2>1 DEF TypeOK, EventTypeOK, JobTypeOK, WorkerTypeOK, HistoryTypeOK, Queued, eventVars,
       jobVars, workerVars, bounds, history
  <2>3. ASSUME NEW w \in Workers PROVE Fit(w)'
    BY <2>1 DEF Fit, Placed, Running, Delivering, Resetting, eventVars, jobVars, workerVars,
       history
  <2> QED
    BY <2>2, <2>3
<1>3. CASE Crash
  <2>1. JobTypeOK' /\ HistoryTypeOK'
    BY <1>3 DEF Crash, TypeOK, JobTypeOK, HistoryTypeOK, JobState, Queued
  <2>2. WorkerTypeOK'
    BY <1>3 DEF Crash, WorkerTypeOK, Label, Kind
  <2>3. TypeOK'
    BY <1>3, <2>1, <2>2 DEF Crash, TypeOK, EventTypeOK, eventVars
  <2>4. Queued'
    BY <1>3 DEF Crash, Queued, TypeOK, JobTypeOK, Workers
  <2>5. ASSUME NEW w \in Workers PROVE Fit(w)'
    BY <1>3 DEF Crash, Fit, Placed, Running, Delivering, Resetting, SlotLabel, HandlerLabel
  <2> QED
    BY <2>3, <2>4, <2>5
<1> HIDE DEF Control
<1> QED
  BY <1>1, <1>2, <1>3, MoveStep, Alternatives

\* The variables keep their types, for every instance of WebhookDelivery: no job has more
\* attempts or stalls than the queue allows, and no row more attempts than its job
\* (WebhookQueue.processWebhook, WebhookProcessor.process).
THEOREM TypeCorrect == Spec => []TypeOK
<1>1. Control => TypeOK
  BY DEF Control
<1> QED
  BY <1>1, ControlInit, ControlStep, PTL DEF Spec

-----------------------------------------------------------------------------
(***************************************************************************)
(* The records of a delivery agree.                                        *)
(***************************************************************************)
\* Only the receiver's answer is a delivery, only the mark of a run completes an event,
\* and only the end of a run completes a job.
LEMMA WhoRecords ==
  ASSUME Control, NEW w \in Workers, Moves(w), NEW e \in Events
  PROVE  /\ delivered'[e] # delivered[e] =>
               event[w] = e /\ (SendHeard(w) \/ SendLost(w)) /\ delivered'[e] = delivered[e] + 1
         /\ eventStatus'[e] = "completed" /\ eventStatus[e] # "completed" =>
               event[w] = e /\ MarkCompleted(w)
         /\ job'[e] = "completed" /\ job[e] # "completed" => event[w] = e /\ CompleteJob(w)
<1> USE DEF Control, TypeOK
<1>1. ASSUME delivered'[e] # delivered[e]
      PROVE  event[w] = e /\ (SendHeard(w) \/ SendLost(w)) /\ delivered'[e] = delivered[e] + 1
  <2>1. SendHeard(w) \/ SendLost(w)
    <3>1. UNCHANGED delivered \/ SendHeard(w) \/ SendLost(w)
      BY DEF Moves, StartJob, Receive, StartRetry, StartEdit, ReadValue, ReadNothing,
         WriteRegistration, Enqueue, ResetEvent, RequeueJob, RequeueNothing, Checked, SendFailed,
         MarkCompleted, ScheduleRetry, MarkPaused, MarkEventFailed, MarkFailed, LimitPause,
         CompleteJob, FailJob, GuardedFails, UnguardedFails, RequestFails, LoseNews, history
    <3> QED
      BY <1>1, <3>1
  <2>2. delivered' = [delivered EXCEPT ![event[w]] = @ + 1]
    BY <2>1 DEF SendHeard, SendLost
  <2> QED
    BY <1>1, <2>1, <2>2 DEF HistoryTypeOK
<1>2. ASSUME eventStatus'[e] = "completed", eventStatus[e] # "completed"
      PROVE  event[w] = e /\ MarkCompleted(w)
  <2>1. \/ UNCHANGED eventStatus \/ MarkCompleted(w)
        \/ \E d \in Events : eventStatus' = [eventStatus EXCEPT ![d] = "pending"]
        \/ eventStatus' = [eventStatus EXCEPT ![event[w]] = "pending"]
        \/ eventStatus' = [eventStatus EXCEPT ![event[w]] = "failed"]
    <3>1. ASSUME NEW label, MarkFailed(w, label)
          PROVE  \/ eventStatus' = [eventStatus EXCEPT ![event[w]] = "pending"]
                 \/ eventStatus' = [eventStatus EXCEPT ![event[w]] = "failed"]
      BY <3>1 DEF MarkFailed
    <3> QED
      BY <3>1 DEF Moves, StartJob, Receive, StartRetry, StartEdit, ReadValue, ReadNothing,
         WriteRegistration, Enqueue, ResetEvent, RequeueJob, RequeueNothing, Checked, SendHeard,
         SendLost, SendFailed, ScheduleRetry, MarkPaused, MarkEventFailed, LimitPause,
         CompleteJob, FailJob, GuardedFails, UnguardedFails, RequestFails, LoseNews, eventVars
  <2>2. MarkCompleted(w)
    BY <1>2, <2>1 DEF EventTypeOK
  <2> QED
    BY <1>2, <2>2 DEF MarkCompleted, EventTypeOK
<1>3. ASSUME job'[e] = "completed", job[e] # "completed"
      PROVE  event[w] = e /\ CompleteJob(w)
  <2>1. \/ UNCHANGED job \/ CompleteJob(w)
        \/ \E d \in Events : job' = [job EXCEPT ![d] = "active"]
        \/ job' = [job EXCEPT ![event[w]] = "waiting"]
        \/ job' = [job EXCEPT ![event[w]] = "failed"]
        \/ job' = [job EXCEPT ![event[w]] = job[event[w]]]
    <3>1. ASSUME NEW again, AddJob(event[w], again)
          PROVE  \/ job' = [job EXCEPT ![event[w]] = "waiting"]
                 \/ job' = [job EXCEPT ![event[w]] = job[event[w]]]
      BY <3>1 DEF AddJob
    <3> QED
      BY <3>1 DEF Moves, StartJob, Receive, StartRetry, StartEdit, ReadValue, ReadNothing,
         WriteRegistration, Enqueue, ResetEvent, RequeueJob, RequeueNothing, Checked, SendHeard,
         SendLost, SendFailed, MarkCompleted, ScheduleRetry, MarkPaused, MarkEventFailed,
         MarkFailed, LimitPause, FailJob, GuardedFails, UnguardedFails, RequestFails, LoseNews,
         jobVars
  <2>2. CompleteJob(w)
    BY <1>3, <2>1 DEF JobTypeOK
  <2> QED
    BY <1>3, <2>2 DEF CompleteJob, JobTypeOK
<1> QED
  BY <1>1, <1>2, <1>3

\* A finished job has no run.
LEMMA NoRun ==
  ASSUME Control, NEW e \in Events, NEW w \in Workers, Runs(w, e)
  PROVE  pc[w] # "idle" /\ job[e] = "active"
  BY DEF Control, Runs, Fit, Placed, Running

\* Completed is true of the event and of its job.
LEMMA CompletedStep ==
  ASSUME Control, CompletedMeansDelivered, [Next]_vars PROVE CompletedMeansDelivered'
<1> SUFFICES ASSUME NEW e \in Events
             PROVE  /\ eventStatus'[e] = "completed" => delivered'[e] > 0
                    /\ job'[e] = "completed" /\ ~overtaken'[e] => eventStatus'[e] = "completed"
  BY DEF CompletedMeansDelivered
<1>0. TypeOK /\ TypeOK'
  BY ControlStep DEF Control
<1>1. ASSUME NEW w \in Workers, Moves(w)
      PROVE  /\ eventStatus'[e] = "completed" => delivered'[e] > 0
             /\ job'[e] = "completed" /\ ~overtaken'[e] => eventStatus'[e] = "completed"
  <2>1. RecordsKeep(w) /\ JobsKeep(w)
    BY <1>1, RecordsStep, JobsStep
  <2>2. ASSUME eventStatus'[e] = "completed" PROVE delivered'[e] > 0
    <3>1. delivered[e] > 0
      <4>1. CASE eventStatus[e] = "completed"
        BY <4>1 DEF CompletedMeansDelivered
      <4>2. CASE eventStatus[e] # "completed"
        <5>1. event[w] = e /\ pc[w] = "markCompleted"
          BY <1>1, <2>2, <4>2, WhoRecords DEF MarkCompleted
        <5> QED
          BY <5>1 DEF Control, Fit, Delivering
      <4> QED
        BY <4>1, <4>2
    <3>2. delivered[e] \in Nat /\ delivered'[e] \in Nat /\ delivered[e] <= delivered'[e]
      BY <1>0, <2>1 DEF TypeOK, HistoryTypeOK, RecordsKeep
    <3> QED
      BY <3>1, <3>2
  <2>3. ASSUME job'[e] = "completed", ~overtaken'[e] PROVE eventStatus'[e] = "completed"
    <3>1. ~overtaken[e]
      BY <2>1, <2>3 DEF RecordsKeep
    <3>2. CASE job[e] = "completed"
      <4>1. eventStatus[e] = "completed" /\ ~Runs(w, e)
        BY <3>1, <3>2, NoRun DEF CompletedMeansDelivered
      <4> QED
        BY <2>1, <2>3, <4>1 DEF RecordsKeep
    <3>3. CASE job[e] # "completed"
      <4>1. event[w] = e /\ CompleteJob(w)
        BY <1>1, <2>3, <3>3, WhoRecords
      <4>2. pc[w] = "succeed" /\ UNCHANGED eventStatus
        BY <4>1 DEF CompleteJob, eventVars
      <4> QED
        BY <3>1, <4>1, <4>2 DEF Control, Fit, Delivering, Resetting
    <3> QED
      BY <3>2, <3>3
  <2> QED
    BY <2>2, <2>3
<1>2. ASSUME \/ \E d \in Events : ExpireJob(d)
             \/ Unregister \/ Crash \/ UNCHANGED vars
      PROVE  /\ UNCHANGED <<eventStatus, delivered, overtaken>>
             /\ job'[e] = "completed" => job[e] = "completed"
  BY <1>0, <1>2 DEF ExpireJob, Unregister, Crash, vars, eventVars, jobVars, history, TypeOK, JobTypeOK
<1> QED
  BY <1>1, <1>2, Alternatives DEF CompletedMeansDelivered

\* The three records of an event agree on its delivery, for every interleaving of runs,
\* retries by hand, failures and restarts (process, retryWebhook).
THEOREM CompletedIsDelivered == Spec => []CompletedMeansDelivered
<1>1. Init => CompletedMeansDelivered
  BY DEF Init, CompletedMeansDelivered
<1> QED
  BY <1>1, ControlInit, ControlStep, CompletedStep, PTL DEF Spec

-----------------------------------------------------------------------------
(***************************************************************************)
(* The news of a delivery.                                                 *)
(***************************************************************************)
\* An event comes to a worker by a job that waits, a receipt or a retry of what failed.
LEMMA EventTaken ==
  ASSUME Control, NEW w \in Workers, Moves(w), NEW e \in Events, event[w] # e, event'[w] = e
  PROVE  job[e] = "waiting" \/ eventStatus[e] \in {"absent", "failed"}
<1>1. TypeOK /\ NoEvent # e
  BY DEF Control
<1>2. ASSUME \/ Leave(w) \/ Proceed(w) \/ UNCHANGED event PROVE FALSE
  BY <1>1, <1>2 DEF Leave, Proceed, TypeOK, WorkerTypeOK
<1>3. ASSUME NEW k \in {"pause", "resume", "events"}, StartEdit(w, k) PROVE FALSE
  BY <1>1, <1>3 DEF StartEdit, Begin, TypeOK, WorkerTypeOK
<1>4. ASSUME NEW d \in Events, StartJob(w, d) \/ Receive(w, d) \/ StartRetry(w, d)
      PROVE  job[e] = "waiting" \/ eventStatus[e] \in {"absent", "failed"}
  <2>1. d = e
    BY <1>1, <1>4 DEF StartJob, Receive, StartRetry, Begin, TypeOK, WorkerTypeOK
  <2> QED
    BY <1>4, <2>1 DEF StartJob, Receive, StartRetry
<1>5. ASSUME \/ ReadValue(w) \/ ResetEvent(w) \/ MarkCompleted(w) \/ ScheduleRetry(w)
             \/ \E label \in {"markPaused", "send", "fail"} : Checked(w, label)
             \/ SendHeard(w) \/ SendLost(w) \/ \E again \in BOOLEAN : SendFailed(w, again)
             \/ MarkPaused(w) \/ MarkEventFailed(w) \/ LimitPause(w)
             \/ GuardedFails(w) \/ UnguardedFails(w)
      PROVE  UNCHANGED event
  BY <1>5 DEF ReadValue, ResetEvent, MarkCompleted, ScheduleRetry, Checked, SendHeard, SendLost,
     SendFailed, MarkPaused, MarkEventFailed, MarkFailed, LimitPause, GuardedFails,
     UnguardedFails, LoseNews, Goto, Fail
<1>6. ASSUME Enqueue(w) \/ RequeueJob(w) \/ RequeueNothing(w) \/ CompleteJob(w) \/ FailJob(w)
             \/ RequestFails(w) \/ ReadNothing(w) \/ WriteRegistration(w)
      PROVE  Leave(w) \/ Proceed(w)
  BY <1>6 DEF Enqueue, RequeueJob, RequeueNothing, CompleteJob, FailJob, RequestFails,
     ReadNothing, WriteRegistration
<1> QED
  BY <1>2, <1>3, <1>4, <1>5, <1>6, Zenon DEF Moves

\* A job is added for the event of the request that adds it.
LEMMA JobAdded ==
  ASSUME Control, NEW w \in Workers, Moves(w), NEW e \in Events, job[e] = "absent", event[w] # e
  PROVE  job'[e] = "absent"
<1> USE DEF Control, TypeOK, JobTypeOK
<1>1. ASSUME NEW d \in Events, StartJob(w, d) PROVE job'[e] = "absent"
  BY <1>1 DEF StartJob
<1>2. ASSUME Enqueue(w) \/ RequeueJob(w) PROVE job'[e] = "absent"
  BY <1>2 DEF Enqueue, RequeueJob, AddJob
<1>3. ASSUME CompleteJob(w) \/ FailJob(w) PROVE job'[e] = "absent"
  BY <1>3 DEF CompleteJob, FailJob
<1>4. ASSUME \/ \E d \in Events : Receive(w, d) \/ StartRetry(w, d)
             \/ \E k \in {"pause", "resume", "events"} : StartEdit(w, k)
             \/ ReadValue(w) \/ ReadNothing(w) \/ WriteRegistration(w) \/ ResetEvent(w)
             \/ RequeueNothing(w) \/ \E label \in {"markPaused", "send", "fail"} : Checked(w, label)
             \/ SendHeard(w) \/ SendLost(w) \/ \E again \in BOOLEAN : SendFailed(w, again)
             \/ MarkCompleted(w) \/ ScheduleRetry(w) \/ MarkPaused(w) \/ MarkEventFailed(w)
             \/ LimitPause(w) \/ GuardedFails(w) \/ UnguardedFails(w) \/ RequestFails(w)
      PROVE  job'[e] = "absent"
  BY <1>4 DEF Receive, StartRetry, StartEdit, ReadValue, ReadNothing, WriteRegistration,
     ResetEvent, RequeueNothing, Checked, SendHeard, SendLost, SendFailed, MarkCompleted,
     ScheduleRetry, MarkPaused, MarkEventFailed, MarkFailed, LimitPause, GuardedFails,
     UnguardedFails, RequestFails, LoseNews, jobVars
<1> QED
  BY <1>1, <1>2, <1>3, <1>4 DEF Moves

\* What is done stays done.
LEMMA DoneStays == ASSUME Control, NEW e \in Events, Done(e), [Next]_vars PROVE Done(e)'
<1>1. ASSUME NEW w \in Workers, Moves(w) PROVE Done(e)'
  <2>1. RecordsKeep(w) /\ JobsKeep(w) /\ Alone(w) /\ ~Runs(w, e)
    BY <1>1, RecordsStep, JobsStep, WorkerFit, NoRun DEF Done
  <2>2. eventStatus'[e] \in {"completed", "pending"}
    BY <2>1 DEF RecordsKeep, Done
  <2>3. CASE job[e] = "completed"
    BY <2>1, <2>2, <2>3 DEF JobsKeep, Done
  <2>4. CASE job[e] = "absent" /\ \A v \in Workers : event[v] # e
    <3>1. job'[e] = "absent"
      BY <1>1, <2>4, JobAdded
    <3>2. event'[w] # e
      BY <1>1, <2>4, EventTaken DEF Done
    <3> QED
      BY <2>1, <2>2, <2>4, <3>1, <3>2 DEF Alone, Done
  <2> QED
    BY <2>3, <2>4 DEF Done
<1>2. ASSUME NEW d \in Events, ExpireJob(d) PROVE Done(e)'
  BY <1>2 DEF ExpireJob, Done, eventVars, workerVars, Control, TypeOK, JobTypeOK
<1>3. CASE Unregister \/ UNCHANGED vars
  BY <1>3 DEF Unregister, vars, Done, eventVars, workerVars, jobVars
<1>4. CASE Crash
  BY <1>4 DEF Crash, Done, eventVars, Control, TypeOK, JobTypeOK
<1> QED
  BY <1>1, <1>2, <1>3, <1>4, Alternatives

\* A run that knows of the delivery knows it until it has ended, or loses it.
LEMMA ToldStays ==
  ASSUME Control, NEW e \in Events, Told(e), [Next]_vars
  PROVE  Told(e)' \/ Done(e)' \/ lossy'[e]
<1> DEFINE Goal == Told(e)' \/ Done(e)' \/ lossy'[e]
<1> SUFFICES Goal
  OBVIOUS
<1> PICK v \in Workers : Knows(v) /\ event[v] = e
  BY DEF Told
<1>0. /\ v \in Slots /\ v \notin Handlers /\ pc[v] # "idle" /\ TypeOK
      /\ Placed(v) /\ Delivering(v) /\ (pc[v] = "markCompleted" \/ Resetting(v))
  BY DEF Control, Fit, Placed, Knows, Resetting, HandlerLabel, Workers
<1>1. ASSUME event'[v] = e, pc'[v] = "succeed" \/ (pc'[v] \in {"read", "write"} /\ kind'[v] = "reset")
      PROVE  Told(e)'
  BY <1>1 DEF Told, Knows
<1>2. ASSUME pc'[v] = pc[v], event'[v] = event[v], kind'[v] = kind[v] PROVE Told(e)'
  BY <1>2 DEF Told, Knows
<1> HIDE DEF Goal
<1>3. ASSUME NEW w \in Workers, w # v, Moves(w) PROVE Goal
  BY <1>2, <1>3, WorkerFit DEF Alone, Goal
<1>4. ASSUME Moves(v) PROVE Goal
  <2>1. ASSUME GuardedFails(v) \/ UnguardedFails(v) \/ RequestFails(v) PROVE Goal
    BY <1>0, <2>1 DEF GuardedFails, UnguardedFails, RequestFails, LoseNews, Goal
  <2>2. ASSUME ReadNothing(v) \/ WriteRegistration(v) PROVE Goal
    <3>1. pc[v] \in {"read", "write"} /\ Proceed(v) /\ kind[v] = "reset"
      BY <1>0, <2>2 DEF ReadNothing, WriteRegistration, Resetting
    <3> QED
      BY <1>0, <1>1, <3>1, ProceedOK DEF Goal
  <2>3. CASE ReadValue(v)
    <3>1. kind[v] = "reset" /\ pc'[v] = "write" /\ event'[v] = e /\ kind'[v] = "reset"
      BY <1>0, <2>3 DEF ReadValue, Resetting, TypeOK, WorkerTypeOK
    <3> QED
      BY <1>1, <3>1 DEF Goal
  <2>4. CASE MarkCompleted(v)
    <3>1. pc'[v] = "read" /\ event'[v] = e /\ kind'[v] = "reset"
      BY <1>0, <2>4 DEF MarkCompleted, TypeOK, WorkerTypeOK
    <3> QED
      BY <1>1, <3>1 DEF Goal
  <2>5. CASE CompleteJob(v)
    <3>1. pc[v] = "succeed" /\ eventStatus[e] \in {"completed", "pending"}
      BY <1>0, <2>5 DEF CompleteJob, Delivering, Resetting
    <3>2. job'[e] = "completed" /\ eventStatus' = eventStatus
      BY <1>0, <2>5 DEF CompleteJob, TypeOK, JobTypeOK, eventVars
    <3> QED
      BY <3>1, <3>2 DEF Done, Goal
  <2>6. ASSUME \/ \E d \in Events : StartJob(v, d) \/ Receive(v, d) \/ StartRetry(v, d)
               \/ \E k \in {"pause", "resume", "events"} : StartEdit(v, k)
               \/ Enqueue(v) \/ ResetEvent(v) \/ RequeueJob(v) \/ RequeueNothing(v)
               \/ \E label \in {"markPaused", "send", "fail"} : Checked(v, label)
               \/ SendHeard(v) \/ SendLost(v) \/ \E again \in BOOLEAN : SendFailed(v, again)
               \/ ScheduleRetry(v) \/ MarkPaused(v) \/ MarkEventFailed(v) \/ LimitPause(v)
               \/ FailJob(v)
        PROVE  FALSE
    <3>1. pc[v] \in {"markCompleted", "succeed", "read", "write"}
      BY <1>0 DEF Resetting
    <3> QED
      BY <2>6, <3>1 DEF StartJob, Receive, StartRetry, StartEdit, Begin, Enqueue, ResetEvent,
         RequeueJob, RequeueNothing, Checked, SendHeard, SendLost, SendFailed, ScheduleRetry,
         MarkPaused, MarkEventFailed, LimitPause, FailJob
  <2> QED
    BY <1>4, <2>1, <2>2, <2>3, <2>4, <2>5, <2>6, Zenon DEF Moves
<1>5. ASSUME \/ \E d \in Events : ExpireJob(d)
             \/ Unregister \/ UNCHANGED vars
      PROVE  Goal
  BY <1>2, <1>5 DEF ExpireJob, Unregister, vars, workerVars, Goal
<1>6. CASE Crash
  BY <1>6 DEF Crash, Goal
<1> QED
  BY <1>3, <1>4, <1>5, <1>6, Alternatives

\* Until nothing is left to send, and unless it is lost, somebody has the news.
LEMMA SettledStep ==
  ASSUME Control, Settled, RedeliveryNeedsLoss, [Next]_vars
  PROVE  Settled' /\ RedeliveryNeedsLoss'
<1> SUFFICES ASSUME NEW e \in Events
             PROVE  /\ delivered'[e] > 0 /\ ~lossy'[e] => Told(e)' \/ Done(e)'
                    /\ delivered'[e] > 1 => lossy'[e]
  BY DEF Settled, RedeliveryNeedsLoss
<1>0. TypeOK /\ TypeOK'
  BY ControlStep DEF Control
<1>1. CASE delivered'[e] = delivered[e]
  <2>1. lossy[e] => lossy'[e]
    <3>1. ASSUME NEW w \in Workers, Moves(w) PROVE lossy[e] => lossy'[e]
      BY <3>1, RecordsStep DEF RecordsKeep
    <3>2. ASSUME \/ \E d \in Events : ExpireJob(d)
                 \/ Unregister \/ UNCHANGED vars
          PROVE  lossy[e] => lossy'[e]
      BY <3>2 DEF ExpireJob, Unregister, vars, history
    <3>3. ASSUME Crash PROVE lossy[e] => lossy'[e]
      BY <3>3 DEF Crash
    <3> QED
      BY <3>1, <3>2, <3>3, Alternatives
  <2> QED
    BY <1>1, <2>1, DoneStays, ToldStays DEF Settled, RedeliveryNeedsLoss
<1>2. CASE delivered'[e] # delivered[e]
  <2>1. PICK w \in Workers : Moves(w)
    BY <1>2, Alternatives DEF ExpireJob, Unregister, Crash, vars, history
  <2>2. event[w] = e /\ (SendHeard(w) \/ SendLost(w)) /\ delivered'[e] = delivered[e] + 1
    BY <1>2, <2>1, WhoRecords
  <2>3. /\ pc[w] = "send" /\ w \in Slots /\ job[e] = "active"
    BY <2>2 DEF SendHeard, SendLost, Control, Fit, Placed, Running, HandlerLabel, Workers
  <2>4. ~Done(e)
    BY <2>3 DEF Done
  <2>5. ~Told(e)
    <3> SUFFICES ASSUME NEW v \in Workers, Knows(v), event[v] = e PROVE FALSE
      BY DEF Told
    <3>1. v \in Slots /\ pc[v] # "idle" /\ pc[v] # "send"
      BY DEF Control, Fit, Placed, Knows, HandlerLabel, Workers
    <3> QED
      BY <2>2, <2>3, <3>1 DEF Control, Queued
  <2>6. delivered[e] = 0 \/ lossy[e]
    BY <1>0, <2>4, <2>5 DEF Settled, TypeOK, HistoryTypeOK
  <2>7. lossy[e] => lossy'[e]
    BY <2>1, RecordsStep DEF RecordsKeep
  <2>8. CASE SendLost(w)
    BY <1>0, <2>2, <2>8 DEF SendLost, TypeOK, HistoryTypeOK
  <2>9. CASE SendHeard(w)
    <3>1. pc'[w] = "markCompleted" /\ event'[w] = e
      BY <1>0, <2>2, <2>9 DEF SendHeard, Goto, TypeOK, WorkerTypeOK
    <3>2. Told(e)'
      BY <3>1 DEF Told, Knows
    <3> QED
      BY <2>2, <2>6, <2>7, <3>2
  <2> QED
    BY <2>2, <2>8, <2>9
<1> QED
  BY <1>1, <1>2

\* The receiver sees an event twice only if a run lost the news of the first delivery,
\* however often the job is retried, restarted or requeued by hand (process, retryWebhook).
THEOREM RedeliveryIsLoss == Spec => []RedeliveryNeedsLoss
<1>1. Init => Settled /\ RedeliveryNeedsLoss
  BY DEF Init, Settled, RedeliveryNeedsLoss
<1> QED
  BY <1>1, ControlInit, ControlStep, SettledStep, PTL DEF Spec

-----------------------------------------------------------------------------
\* A paused registration is resumed by resumeWebhook alone, unless somebody wrote back a
\* value that had changed since it was read (pauseWebhook, resumeWebhook,
\* incrementFailureCount, resetFailureCount).
THEOREM PausedStaysPaused == Spec => PauseSticks
<1> DEFINE Sticks ==
      reg # NoReg /\ reg' # NoReg /\ ~stale' =>
         (reg.paused /\ ~reg'.paused =>
            \E w \in Handlers : kind[w] = "resume" /\ pc[w] = "write" /\ pc'[w] = "idle")
<1>1. ASSUME Control, [Next]_vars PROVE [Sticks]_vars
  <2> SUFFICES ASSUME reg # NoReg, reg' # NoReg, ~stale', reg.paused, ~reg'.paused
               PROVE  \E w \in Handlers :
                        kind[w] = "resume" /\ pc[w] = "write" /\ pc'[w] = "idle"
    OBVIOUS
  <2>1. PICK w \in Workers : WriteRegistration(w)
    BY <1>1, Alternatives DEF Moves, StartJob, Receive, StartRetry, StartEdit, ReadValue,
       ReadNothing, Enqueue, ResetEvent, RequeueJob, RequeueNothing, Checked, SendHeard,
       SendLost, SendFailed, MarkCompleted, ScheduleRetry, MarkPaused, MarkEventFailed,
       MarkFailed, LimitPause, CompleteJob, FailJob, GuardedFails, UnguardedFails,
       RequestFails, LoseNews, ExpireJob, Unregister, Crash, vars
  <2>2. /\ pc[w] = "write" /\ reg = seen[w] /\ reg' = Edit(kind[w], reg) /\ Proceed(w)
        /\ Placed(w) /\ TypeOK /\ reg \in Registration
    BY <1>1, <2>1 DEF WriteRegistration, Control, Fit, TypeOK
  <2>3. /\ [reg EXCEPT !.failures = reg.failures + 1].paused = reg.paused
        /\ [reg EXCEPT !.failures = 0].paused = reg.paused
        /\ [reg EXCEPT !.paused = TRUE].paused = TRUE
    BY <2>2 DEF Registration
  <2>4. kind[w] \in {"count", "reset", "pause", "resume", "events"}
    BY <2>2 DEF Placed, Workers
  <2>5. kind[w] = "resume"
    BY <2>2, <2>3, <2>4 DEF Edit
  <2>6. w \in Handlers
    BY <2>2, <2>5 DEF Placed, Workers
  <2> QED
    BY <2>2, <2>5, <2>6, ProceedOK
<1> QED
  BY <1>1, ControlInit, ControlStep, PTL DEF Spec, PauseSticks
=============================================================================
