--------------------------- MODULE FIRSSubmission ---------------------------
(***************************************************************************)
(* Submission of invoices to the tax authority                             *)
(* (src/src/services/regulatory/FIRSService.ts), the queue job and the     *)
(* controllers that start it, and the handlers that cancel or delete the   *)
(* invoice meanwhile.                                                      *)
(*                                                                         *)
(* A worker runs one request or one job and is cut at every await.  FIRS   *)
(* registers a document on some POST, and the reply may be lost.  BullMQ   *)
(* and FIRS are modelled from how the code uses them.  registered, lost    *)
(* and ruled are history: no action reads them.                            *)
(* Definitions marked Slip are not part of the specification: each is a    *)
(* plausible mistake that a property below has to notice.                  *)
(***************************************************************************)
EXTENDS Integers

CONSTANTS
    Invoices,       \* rows of invoices
    Slots,          \* concurrent jobs of the invoice queue
    Handlers,       \* concurrent requests
    NoInvoice, NoLog,
    MaxAttempts,    \* POSTs of one submission
    JobAttempts,    \* attempts of a queued job
    MaxStalls,      \* BullMQ's maxStalledCount, which the code leaves at its default
    MaxRequests,    \* bound on submissions by request
    MaxRows,        \* bound on rows of regulatory_logs
    MaxFaults       \* bound on lost replies, failed statements and crashes

ASSUME SubmissionAssumption ==
    /\ Slots \cap Handlers = {}
    /\ NoInvoice \notin Invoices
    /\ MaxAttempts \in Nat \ {0}
    /\ JobAttempts \in Nat \ {0}
    /\ MaxStalls \in Nat
    /\ MaxRequests \in Nat
    /\ MaxRows \in Nat
    /\ MaxFaults \in Nat

Workers == Slots \cup Handlers

\* Rows of regulatory_logs, in order of creation.
Logs == 1..MaxRows

ASSUME NoLogAssumption == NoLog \notin Logs

VARIABLES
    firs, status, deleted,              \* columns of invoices
    rows,                               \* log rows created so far
    logInvoice, logStatus, irnKnown,    \* columns of regulatory_logs
    job, tries, stalls,                 \* BullMQ's record of submit-firs-<invoice>
    pc, op, inv, log, attempt,          \* what each worker is at, and its locals
    requests, faults,
    registered,     \* documents FIRS has registered under a log row
    lost,           \* FIRS registered one and the handler failed to record it
    ruled           \* FIRS has answered REJECTED for the row

invoiceVars == <<firs, status, deleted>>
logVars     == <<rows, logInvoice, logStatus, irnKnown>>
jobVars     == <<job, tries, stalls>>
workerVars  == <<pc, op, inv, log, attempt>>
bounds      == <<requests, faults>>
history     == <<registered, lost, ruled>>
vars == <<invoiceVars, logVars, jobVars, workerVars, bounds, history>>

Init ==
    /\ firs = [i \in Invoices |-> "pending"]
    /\ status = [i \in Invoices |-> "draft"]
    /\ deleted = [i \in Invoices |-> FALSE]
    /\ rows = 0
    /\ logInvoice = [l \in Logs |-> NoInvoice]
    /\ logStatus = [l \in Logs |-> "absent"]
    /\ irnKnown = [l \in Logs |-> FALSE]
    /\ job = [i \in Invoices |-> "absent"]
    /\ tries = [i \in Invoices |-> 0]
    /\ stalls = [i \in Invoices |-> 0]
    /\ pc = [w \in Workers |-> "idle"]
    /\ op = [w \in Workers |-> "none"]
    /\ inv = [w \in Workers |-> NoInvoice]
    /\ log = [w \in Workers |-> NoLog]
    /\ attempt = [w \in Workers |-> 0]
    /\ requests = 0 /\ faults = 0
    /\ registered = [l \in Logs |-> 0]
    /\ lost = [l \in Logs |-> FALSE]
    /\ ruled = [l \in Logs |-> FALSE]

Goto(w, label) ==
    /\ pc' = [pc EXCEPT ![w] = label]
    /\ UNCHANGED <<op, inv, log, attempt>>

Begin(w, o, i, label) ==
    /\ pc[w] = "idle"
    /\ pc' = [pc EXCEPT ![w] = label]
    /\ op' = [op EXCEPT ![w] = o]
    /\ inv' = [inv EXCEPT ![w] = i]
    /\ UNCHANGED attempt

Leave(w) ==
    /\ pc' = [pc EXCEPT ![w] = "idle"]
    /\ op' = [op EXCEPT ![w] = "none"]
    /\ inv' = [inv EXCEPT ![w] = NoInvoice]
    /\ log' = [log EXCEPT ![w] = NoLog]
    /\ attempt' = [attempt EXCEPT ![w] = 0]

\* The handler returns: a job is completed.
Return(w) ==
    /\ Leave(w)
    /\ job' = IF op[w] = "job" THEN [job EXCEPT ![inv[w]] = "completed"] ELSE job
    /\ UNCHANGED <<tries, stalls>>

\* The handler throws: BullMQ runs the job again until its attempts are spent.
Throw(w) ==
    /\ Leave(w)
    /\ \/ /\ op[w] = "job"
          /\ tries' = [tries EXCEPT ![inv[w]] = @ + 1]
          /\ job' = [job EXCEPT ![inv[w]] =
                       IF tries[inv[w]] + 1 < JobAttempts THEN "waiting" ELSE "failed"]
          /\ UNCHANGED stalls
       \/ /\ op[w] # "job"
          /\ UNCHANGED jobVars

-----------------------------------------------------------------------------
\* processNewInvoice queues the submission; the job id admits one job per invoice,
\* finished or not.
Enqueue(i) ==
    /\ job[i] = "absent"
    /\ ~deleted[i]
    /\ job' = [job EXCEPT ![i] = "waiting"]
    /\ UNCHANGED <<invoiceVars, logVars, tries, stalls, workerVars, bounds, history>>

StartJob(w, i) ==
    /\ job[i] = "waiting"
    /\ job' = [job EXCEPT ![i] = "active"]
    /\ Begin(w, "job", i, "load")
    /\ UNCHANGED log
    /\ UNCHANGED <<invoiceVars, logVars, tries, stalls, bounds, history>>

\* POST /regulatory/firs/submit/:invoiceId goes straight to submitInvoice.
StartRequest(w, i) ==
    /\ requests < MaxRequests
    /\ requests' = requests + 1
    /\ Begin(w, "request", i, "load")
    /\ UNCHANGED log
    /\ UNCHANGED <<invoiceVars, logVars, jobVars, faults, history>>

\* POST /invoices/:id/firs/submit first reads firs_status.
StartPendingRequest(w, i) ==
    /\ ~deleted[i]
    /\ firs[i] = "pending"
    /\ StartRequest(w, i)

\* submitInvoice reads the invoice, whose status it ignores, and validates it.
Load(w) ==
    /\ pc[w] = "load"
    /\ \/ ~deleted[inv[w]] /\ Goto(w, "log") /\ UNCHANGED jobVars
       \/ ~deleted[inv[w]] /\ Goto(w, "invalid") /\ UNCHANGED jobVars
       \/ deleted[inv[w]] /\ Throw(w)
    /\ UNCHANGED <<invoiceVars, logVars, bounds, history>>

CreateRow(i) ==
    /\ rows < MaxRows
    /\ rows' = rows + 1
    /\ logInvoice' = [logInvoice EXCEPT ![rows + 1] = i]
    /\ logStatus' = [logStatus EXCEPT ![rows + 1] = "pending"]
    /\ UNCHANGED irnKnown

\* logFailure leaves a row behind, then the handler throws.
LogFailure(w) ==
    /\ pc[w] = "invalid"
    /\ CreateRow(inv[w])
    /\ Throw(w)
    /\ UNCHANGED <<invoiceVars, bounds, history>>

CreateLog(w) ==
    /\ pc[w] = "log"
    /\ CreateRow(inv[w])
    /\ log' = [log EXCEPT ![w] = rows + 1]
    /\ pc' = [pc EXCEPT ![w] = "post"]
    /\ UNCHANGED <<op, inv, attempt, invoiceVars, jobVars, bounds, history>>

\* Slips: one attempt more than the limit; an attempt that is not counted.
CatchOnceMore(w) ==
    /\ attempt' = [attempt EXCEPT ![w] = @ + 1]
    /\ pc' = [pc EXCEPT ![w] = IF attempt[w] > MaxAttempts THEN "giveUp" ELSE "post"]
    /\ UNCHANGED <<op, inv, log>>

CatchUncounted(w) ==
    /\ pc' = [pc EXCEPT ![w] = IF attempt[w] + 1 >= MaxAttempts THEN "giveUp" ELSE "post"]
    /\ UNCHANGED <<op, inv, log, attempt>>

\* The catch clause of the retry loop.
Catch(w) ==
    /\ attempt' = [attempt EXCEPT ![w] = @ + 1]
    /\ pc' = [pc EXCEPT ![w] = IF attempt[w] + 1 >= MaxAttempts THEN "giveUp" ELSE "post"]
    /\ UNCHANGED <<op, inv, log>>

Lose(ls) == lost' = [l \in Logs |-> lost[l] \/ l \in ls]

\* Slip: any reply with a body is taken for an approval.
PostUnparsed(w) ==
    /\ pc[w] = "post"
    /\ \/ registered' = [registered EXCEPT ![log[w]] = @ + 1] /\ Goto(w, "approve")
       \/ UNCHANGED registered /\ (Goto(w, "approve") \/ Catch(w))
    /\ UNCHANGED <<invoiceVars, logVars, jobVars, bounds, lost, ruled>>

\* Every POST carries a request id of its own, so FIRS may register each of them.
Post(w) ==
    /\ pc[w] = "post"
    /\ \/ /\ registered' = [registered EXCEPT ![log[w]] = @ + 1]
          /\ \/ Goto(w, "approve") /\ UNCHANGED <<faults, lost>>
             \/ /\ faults < MaxFaults
                /\ faults' = faults + 1
                /\ Lose({log[w]})
                /\ Catch(w)
       \/ /\ Goto(w, "refused") \/ Catch(w)
          /\ UNCHANGED <<registered, faults, lost>>
    /\ UNCHANGED <<invoiceVars, logVars, jobVars, requests, ruled>>

RecordApproval(w) ==
    /\ pc[w] = "approve"
    /\ logStatus' = [logStatus EXCEPT ![log[w]] = "approved"]
    /\ irnKnown' = [irnKnown EXCEPT ![log[w]] = TRUE]
    /\ Goto(w, "approveInvoice")
    /\ UNCHANGED <<invoiceVars, rows, logInvoice, jobVars, bounds, history>>

\* An UPDATE of a deleted invoice changes no row and reports nothing.
SetInvoice(i, f, s) ==
    /\ firs' = [firs EXCEPT ![i] = IF deleted[i] THEN @ ELSE f]
    /\ status' = [status EXCEPT ![i] = IF deleted[i] THEN @ ELSE s]
    /\ UNCHANGED deleted

\* Slip: the return that leaves the retry loop is gone.
MarkFIRSApprovedAndLoop(w) ==
    /\ pc[w] = "approveInvoice"
    /\ SetInvoice(inv[w], "approved", "approved")
    /\ Catch(w)
    /\ UNCHANGED <<jobVars, logVars, bounds, history>>

MarkFIRSApproved(w) ==
    /\ pc[w] = "approveInvoice"
    /\ SetInvoice(inv[w], "approved", "approved")
    /\ Return(w)
    /\ UNCHANGED <<logVars, bounds, history>>

\* markFailed compares attempts, which nothing increments, with max_attempts.
MarkFailed(w) == logStatus' = [logStatus EXCEPT ![log[w]] = "pending"]

RecordRefusal(w) ==
    /\ pc[w] = "refused"
    /\ MarkFailed(w)
    /\ Catch(w)
    /\ UNCHANGED <<invoiceVars, rows, logInvoice, irnKnown, jobVars, bounds, history>>

\* After the last attempt the handler returns normally.
GiveUp(w) ==
    /\ pc[w] = "giveUp"
    /\ MarkFailed(w)
    /\ Return(w)
    /\ UNCHANGED <<invoiceVars, rows, logInvoice, irnKnown, bounds, history>>

-----------------------------------------------------------------------------
\* checkStatus asks FIRS by irn, and only an approved row has ever had one.
StartCheck(w, l) ==
    /\ irnKnown[l]
    /\ Begin(w, "check", logInvoice[l], "query")
    /\ log' = [log EXCEPT ![w] = l]
    /\ UNCHANGED <<invoiceVars, logVars, jobVars, bounds, history>>

\* APPROVED, REJECTED, or neither yet; FIRS does not take a rejection back.
Query(w) ==
    /\ pc[w] = "query"
    /\ \/ ~ruled[log[w]] /\ Goto(w, "approve") /\ UNCHANGED ruled
       \/ Goto(w, "reject") /\ ruled' = [ruled EXCEPT ![log[w]] = TRUE]
       \/ Leave(w) /\ UNCHANGED ruled
    /\ UNCHANGED <<invoiceVars, logVars, jobVars, bounds, registered, lost>>

RecordRejection(w) ==
    /\ pc[w] = "reject"
    /\ logStatus' = [logStatus EXCEPT ![log[w]] = "rejected"]
    /\ Goto(w, "rejectInvoice")
    /\ UNCHANGED <<invoiceVars, rows, logInvoice, irnKnown, jobVars, bounds, history>>

MarkFIRSRejected(w) ==
    /\ pc[w] = "rejectInvoice"
    /\ SetInvoice(inv[w], "rejected", "rejected")
    /\ Return(w)
    /\ UNCHANGED <<logVars, bounds, history>>

-----------------------------------------------------------------------------
\* cancel and deleteInvoice look at firs_status, then write without looking again.
StartCancel(w, i) ==
    /\ ~deleted[i]
    /\ firs[i] # "approved"
    /\ Begin(w, "cancel", i, "write")
    /\ UNCHANGED <<log, invoiceVars, logVars, jobVars, bounds, history>>

\* Slip: the whole row is saved, as it was when it was read.
CancelWholeRow(w) ==
    /\ pc[w] = "write"
    /\ op[w] = "cancel"
    /\ SetInvoice(inv[w], "pending", "cancelled")
    /\ Return(w)
    /\ UNCHANGED <<logVars, bounds, history>>

Cancel(w) ==
    /\ pc[w] = "write"
    /\ op[w] = "cancel"
    /\ SetInvoice(inv[w], firs[inv[w]], "cancelled")
    /\ Return(w)
    /\ UNCHANGED <<logVars, bounds, history>>

StartDelete(w, i) ==
    /\ ~deleted[i]
    /\ firs[i] # "approved"
    /\ Begin(w, "delete", i, "write")
    /\ UNCHANGED <<log, invoiceVars, logVars, jobVars, bounds, history>>

Delete(w) ==
    /\ pc[w] = "write"
    /\ op[w] = "delete"
    /\ deleted' = [deleted EXCEPT ![inv[w]] = TRUE]
    /\ Return(w)
    /\ UNCHANGED <<firs, status, logVars, bounds, history>>

-----------------------------------------------------------------------------
\* The worker holds the only word that FIRS has registered its document.
Unrecorded(w) == pc[w] \in {"approve", "approveInvoice"} /\ op[w] # "check"

\* A statement fails: inside the try block of the retry loop it counts as an
\* attempt, anywhere else the handler throws.
StatementFails(w) ==
    /\ pc[w] # "idle"
    /\ faults < MaxFaults
    /\ faults' = faults + 1
    /\ IF Unrecorded(w) \/ pc[w] = "refused"
       THEN Catch(w) /\ UNCHANGED jobVars
       ELSE Throw(w)
    /\ Lose({log[v] : v \in {v \in {w} : Unrecorded(v)}})
    /\ UNCHANGED <<invoiceVars, logVars, requests, registered, ruled>>

\* The process dies and restarts: BullMQ finds its active jobs stalled and puts them
\* back, or fails those that have stalled too often.
Crash ==
    /\ faults < MaxFaults
    /\ faults' = faults + 1
    /\ pc' = [w \in Workers |-> "idle"]
    /\ op' = [w \in Workers |-> "none"]
    /\ inv' = [w \in Workers |-> NoInvoice]
    /\ log' = [w \in Workers |-> NoLog]
    /\ attempt' = [w \in Workers |-> 0]
    /\ stalls' = [i \in Invoices |-> stalls[i] + (IF job[i] = "active" THEN 1 ELSE 0)]
    /\ job' = [i \in Invoices |-> IF job[i] # "active" THEN job[i]
                                 ELSE IF stalls[i] < MaxStalls THEN "waiting" ELSE "failed"]
    /\ Lose({log[v] : v \in {v \in Workers : Unrecorded(v)}})
    /\ UNCHANGED <<invoiceVars, logVars, tries, requests, registered, ruled>>

Request(w) ==
    \/ \E i \in Invoices :
          \/ StartRequest(w, i) \/ StartPendingRequest(w, i)
          \/ StartCancel(w, i) \/ StartDelete(w, i)
    \/ \E l \in Logs : StartCheck(w, l)

Step(w) ==
    \/ Load(w) \/ LogFailure(w) \/ CreateLog(w) \/ Post(w)
    \/ RecordApproval(w) \/ MarkFIRSApproved(w) \/ RecordRefusal(w) \/ GiveUp(w)
    \/ Query(w) \/ RecordRejection(w) \/ MarkFIRSRejected(w)
    \/ Cancel(w) \/ Delete(w)

Next ==
    \/ \E i \in Invoices : Enqueue(i) \/ \E w \in Slots : StartJob(w, i)
    \/ \E w \in Handlers : Request(w)
    \/ \E w \in Workers : Step(w) \/ StatementFails(w)
    \/ Crash

Spec == Init /\ [][Next]_vars

\* Every await of a handler ends, by an answer or a time-out, and a free slot of the
\* queue takes a waiting job.  No request has to arrive.
Fairness ==
    /\ \A w \in Workers : WF_vars(Step(w))
    /\ \A i \in Invoices : WF_vars(\E w \in Slots : StartJob(w, i))

FairSpec == Spec /\ Fairness

-----------------------------------------------------------------------------
FirsStatus == {"pending", "approved", "rejected"}
InvoiceStatus == {"draft", "approved", "rejected", "cancelled"}
JobState == {"absent", "waiting", "active", "completed", "failed"}
Label == {"idle", "load", "invalid", "log", "post", "approve", "approveInvoice",
          "refused", "giveUp", "query", "reject", "rejectInvoice", "write"}
Operation == {"none", "job", "request", "check", "cancel", "delete"}

InvoiceTypeOK ==
    /\ firs \in [Invoices -> FirsStatus]
    /\ status \in [Invoices -> InvoiceStatus]
    /\ deleted \in [Invoices -> BOOLEAN]

LogTypeOK ==
    /\ rows \in Logs \cup {0}
    /\ logInvoice \in [Logs -> Invoices \cup {NoInvoice}]
    /\ logStatus \in [Logs -> FirsStatus \cup {"absent"}]
    /\ irnKnown \in [Logs -> BOOLEAN]

JobTypeOK ==
    /\ job \in [Invoices -> JobState]
    /\ tries \in [Invoices -> 0..JobAttempts]
    /\ stalls \in [Invoices -> 0..(MaxStalls + 1)]

WorkerTypeOK ==
    /\ pc \in [Workers -> Label]
    /\ op \in [Workers -> Operation]
    /\ inv \in [Workers -> Invoices \cup {NoInvoice}]
    /\ log \in [Workers -> Logs \cup {NoLog}]
    /\ attempt \in [Workers -> 0..MaxAttempts]

HistoryTypeOK ==
    /\ registered \in [Logs -> 0..MaxAttempts]
    /\ lost \in [Logs -> BOOLEAN]
    /\ ruled \in [Logs -> BOOLEAN]

\* Every variable ranges over the values the code can give it.
TypeOK ==
    /\ InvoiceTypeOK /\ LogTypeOK /\ JobTypeOK /\ WorkerTypeOK /\ HistoryTypeOK
    /\ requests \in 0..MaxRequests
    /\ faults \in 0..MaxFaults

RowsOf(i) == {l \in Logs : logInvoice[l] = i}

\* What the database says of an invoice FIRS has said, in whatever order submissions,
\* status checks, failures and crashes fall: an approved invoice has a registered
\* document, a rejected one a ruling against it, and an IRN is never made up
\* (submitToFIRS, checkStatus).
ApprovalTruthful ==
    /\ \A i \in Invoices :
          /\ firs[i] = "approved" => \E l \in RowsOf(i) : registered[l] > 0
          /\ firs[i] = "rejected" => \E l \in RowsOf(i) : ruled[l]
    /\ \A l \in Logs : irnKnown[l] => registered[l] > 0

\* An invoice FIRS has registered is known as such here, unless the row was deleted
\* under the submission or the word of FIRS got lost: with nobody at work on the
\* row, no concurrent cancel, resubmission or refusal can hide it.
AcceptanceKnown ==
    \A l \in Logs :
        /\ registered[l] > 0
        /\ ~lost[l]
        /\ \A w \in Workers : log[w] # l
        => irnKnown[l] /\ (firs[logInvoice[l]] # "pending" \/ deleted[logInvoice[l]])

\* The retry loop sends again only what it does not know to be registered: a
\* submission registers a second document only after a lost reply or record.
OneDocumentPerSubmission == \A l \in Logs : registered[l] > 1 => lost[l]

\* A queued submission comes to an end, whatever is refused, lost or crashes.
JobsSettle ==
    \A i \in Invoices :
        job[i] \in {"waiting", "active"} ~> job[i] \in {"completed", "failed"}

\* INVOICE_STATUS_TRANSITIONS gives a cancelled invoice no successor.
CancelledIsFinal ==
    [][\A i \in Invoices : status[i] = "cancelled" => status'[i] = "cancelled"]_vars
=============================================================================
