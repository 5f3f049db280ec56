------------------------ MODULE FIRSSubmission_proofs ------------------------
(***************************************************************************)
(* Theorems about FIRSSubmission, for every number of invoices, slots of   *)
(* the queue, requests, attempts, log rows and faults.                     *)
(***************************************************************************)
EXTENDS FIRSSubmission, TLAPS

USE SubmissionAssumption, NoLogAssumption

Submission == {"job", "request"}

\* Labels of submitInvoice before and after it has created its log row, and of checkStatus.
Preparing == {"load", "invalid", "log"}
Sending   == {"post", "refused", "giveUp"}
Approving == {"approve", "approveInvoice"}
Checking  == {"query", "reject", "rejectInvoice"}

Submits(w) == op[w] \in Submission
HasRow(w)  == pc[w] \in Sending \cup Approving \cup Checking

\* Where a worker is says which operation it runs and which locals it has set.
Placed(w) ==
    /\ pc[w] = "idle" <=> op[w] = "none"
    /\ pc[w] # "idle" => inv[w] \in Invoices
    /\ pc[w] \in Preparing \cup Sending => Submits(w)
    /\ pc[w] \in Approving => Submits(w) \/ op[w] = "check"
    /\ pc[w] \in Checking => op[w] = "check"
    /\ pc[w] = "write" => op[w] \in {"cancel", "delete"}
    /\ ~HasRow(w) => log[w] = NoLog /\ attempt[w] = 0
    /\ HasRow(w) => log[w] \in 1..rows /\ logInvoice[log[w]] = inv[w]
    /\ HasRow(w) /\ pc[w] # "giveUp" => attempt[w] < MaxAttempts

\* A submission has at most one document registered per POST, and before a POST it
\* has one only after a loss.
Posted(w) ==
    Submits(w) =>
        /\ pc[w] \in Sending => registered[log[w]] <= attempt[w]
        /\ pc[w] \in Sending => (registered[log[w]] > 0 => lost[log[w]])
        /\ pc[w] \in Approving => registered[log[w]] <= attempt[w] + 1

\* What a worker is about to record is what FIRS has said of its row.
Heard(w) ==
    /\ pc[w] \in Approving \cup Checking => registered[log[w]] > 0
    /\ op[w] = "check" \/ pc[w] = "approveInvoice" => irnKnown[log[w]]
    /\ pc[w] \in {"reject", "rejectInvoice"} => ruled[log[w]]

Fit(w) == Placed(w) /\ Posted(w) /\ Heard(w)

\* A job that runs is active and has one worker; one that may run again has an attempt
\* left and has not stalled too often.
Queued ==
    /\ \A w \in Workers : op[w] = "job" => job[inv[w]] = "active"
    /\ \A v, w \in Workers : op[v] = "job" /\ op[w] = "job" /\ inv[v] = inv[w] => v = w
    /\ \A i \in Invoices :
          /\ job[i] = "absent" => tries[i] = 0 /\ stalls[i] = 0
          /\ job[i] \in {"waiting", "active"} => tries[i] < JobAttempts /\ stalls[i] <= MaxStalls

\* The rows created are the first ones, each for an invoice, and FIRS has heard of no
\* other; two submissions never share a row.
Created ==
    /\ \A l \in Logs : l <= rows => logInvoice[l] \in Invoices
    /\ \A l \in Logs : l > rows => registered[l] = 0 /\ ~irnKnown[l] /\ ~ruled[l]
    /\ \A v, w \in Workers :
          Submits(v) /\ Submits(w) /\ HasRow(v) /\ HasRow(w) /\ log[v] = log[w] => v = w

\* An IRN is of a document that FIRS has registered.
Issued == \A l \in Logs : irnKnown[l] => registered[l] > 0

Control == TypeOK /\ Queued /\ Created /\ Issued /\ \A w \in Workers : Fit(w)

\* The invoice of a row is known to be registered, or there is no invoice to tell.
Known(l) == irnKnown[l] /\ (firs[logInvoice[l]] # "pending" \/ deleted[logInvoice[l]])

\* Until it is known, and unless the news was lost, a submission carries it.
Carried ==
    \A l \in Logs : registered[l] > 0 /\ ~lost[l] =>
        Known(l) \/ \E w \in Workers : Submits(w) /\ pc[w] \in Approving /\ log[w] = l

-----------------------------------------------------------------------------
(***************************************************************************)
(* The alternatives of the actions that have several: what submitInvoice   *)
(* and checkStatus find, what FIRS answers, and where a statement fails.   *)
(***************************************************************************)
Loaded(w, label) ==
    /\ pc[w] = "load" /\ ~deleted[inv[w]]
    /\ Goto(w, label)
    /\ UNCHANGED <<invoiceVars, logVars, jobVars, bounds, history>>

NotFound(w) ==
    /\ pc[w] = "load"
    /\ Throw(w)
    /\ UNCHANGED <<invoiceVars, logVars, bounds, history>>

PostHeard(w) ==
    /\ pc[w] = "post"
    /\ registered' = [registered EXCEPT ![log[w]] = @ + 1]
    /\ Goto(w, "approve")
    /\ UNCHANGED <<invoiceVars, logVars, jobVars, bounds, lost, ruled>>

PostLost(w) ==
    /\ pc[w] = "post"
    /\ registered' = [registered EXCEPT ![log[w]] = @ + 1]
    /\ Catch(w)
    /\ faults < MaxFaults /\ faults' = faults + 1
    /\ lost' = [lost EXCEPT ![log[w]] = TRUE]
    /\ UNCHANGED <<invoiceVars, logVars, jobVars, requests, ruled>>

PostRefused(w) ==
    /\ pc[w] = "post"
    /\ Goto(w, "refused")
    /\ UNCHANGED <<invoiceVars, logVars, jobVars, bounds, history>>

PostUnheard(w) ==
    /\ pc[w] = "post"
    /\ Catch(w)
    /\ UNCHANGED <<invoiceVars, logVars, jobVars, bounds, history>>

QueryApproved(w) ==
    /\ pc[w] = "query"
    /\ Goto(w, "approve")
    /\ UNCHANGED <<invoiceVars, logVars, jobVars, bounds, history>>

QueryRejected(w) ==
    /\ pc[w] = "query"
    /\ Goto(w, "reject")
    /\ ruled' = [ruled EXCEPT ![log[w]] = TRUE]
    /\ UNCHANGED <<invoiceVars, logVars, jobVars, bounds, registered, lost>>

QueryPending(w) ==
    /\ pc[w] = "query"
    /\ Leave(w)
    /\ UNCHANGED <<invoiceVars, logVars, jobVars, bounds, history>>

RecordFails(w) ==
    /\ Submits(w) /\ pc[w] \in Approving
    /\ faults < MaxFaults /\ faults' = faults + 1
    /\ Catch(w)
    /\ lost' = [lost EXCEPT ![log[w]] = TRUE]
    /\ UNCHANGED <<invoiceVars, logVars, jobVars, requests, registered, ruled>>

RefusalFails(w) ==
    /\ pc[w] = "refused"
    /\ faults < MaxFaults /\ faults' = faults + 1
    /\ Catch(w)
    /\ UNCHANGED <<invoiceVars, logVars, jobVars, requests, history>>

OtherFails(w) ==
    /\ pc[w] # "idle" /\ ~(Submits(w) /\ pc[w] \in Approving)
    /\ faults < MaxFaults /\ faults' = faults + 1
    /\ Throw(w)
    /\ UNCHANGED <<invoiceVars, logVars, requests, history>>

\* Every step is one of these.
LEMMA Alternatives ==
  ASSUME TypeOK, \A w \in Workers : Placed(w), [Next]_vars
  PROVE  \/ \E i \in Invoices : Enqueue(i)
         \/ \E w \in Workers, i \in Invoices :
               StartJob(w, i) \/ StartRequest(w, i) \/ StartCancel(w, i) \/ StartDelete(w, i)
         \/ \E w \in Workers, l \in Logs : StartCheck(w, l)
         \/ \E w \in Workers :
               \/ Loaded(w, "log") \/ Loaded(w, "invalid") \/ NotFound(w)
               \/ LogFailure(w) \/ CreateLog(w)
               \/ PostHeard(w) \/ PostLost(w) \/ PostRefused(w) \/ PostUnheard(w)
               \/ RecordApproval(w) \/ MarkFIRSApproved(w) \/ RecordRefusal(w) \/ GiveUp(w)
               \/ QueryApproved(w) \/ QueryRejected(w) \/ QueryPending(w)
               \/ RecordRejection(w) \/ MarkFIRSRejected(w)
               \/ Cancel(w) \/ Delete(w)
               \/ RecordFails(w) \/ RefusalFails(w) \/ OtherFails(w)
         \/ Crash
         \/ UNCHANGED vars
<1>1. ASSUME NEW w \in Workers, Load(w)
      PROVE  Loaded(w, "log") \/ Loaded(w, "invalid") \/ NotFound(w)
  BY <1>1, Zenon DEF Load, Loaded, NotFound
<1>2. ASSUME NEW l, Lose({l}) PROVE lost' = [lost EXCEPT ![l] = TRUE]
  BY <1>2 DEF Lose, TypeOK, HistoryTypeOK
<1>3. ASSUME Lose({}) PROVE UNCHANGED lost
  BY <1>3 DEF Lose, TypeOK, HistoryTypeOK
<1>4. ASSUME NEW w \in Workers, Post(w)
      PROVE  PostHeard(w) \/ PostLost(w) \/ PostRefused(w) \/ PostUnheard(w)
  <2> USE DEF bounds, history
  <2> QED
    BY <1>2, <1>4 DEF Post, PostHeard, PostLost, PostRefused, PostUnheard
<1>5. ASSUME NEW w \in Workers, Query(w)
      PROVE  QueryApproved(w) \/ QueryRejected(w) \/ QueryPending(w)
  BY <1>5 DEF Query, QueryApproved, QueryRejected, QueryPending, history
<1>6. ASSUME NEW w \in Workers, StatementFails(w)
      PROVE  RecordFails(w) \/ RefusalFails(w) \/ OtherFails(w)
  <2>1. Unrecorded(w) <=> Submits(w) /\ pc[w] \in Approving
    BY DEF Placed, Unrecorded, Submits, Submission, Approving
  <2>2. CASE Unrecorded(w)
    <3>1. {log[v] : v \in {v \in {w} : Unrecorded(v)}} = {log[w]}
      BY <2>2
    <3> QED
      BY <1>2, <1>6, <2>1, <2>2, <3>1 DEF StatementFails, RecordFails
  <2>3. CASE ~Unrecorded(w)
    <3>1. {log[v] : v \in {v \in {w} : Unrecorded(v)}} = {}
      BY <2>3
    <3>2. CASE pc[w] = "refused"
      BY <1>3, <1>6, <3>1, <3>2 DEF StatementFails, RefusalFails, history
    <3>3. CASE pc[w] # "refused"
      BY <1>3, <1>6, <2>1, <2>3, <3>1, <3>3 DEF StatementFails, OtherFails, history
    <3> QED
      BY <3>2, <3>3
  <2> QED
    BY <2>2, <2>3
<1> QED
  BY <1>1, <1>4, <1>5, <1>6 DEF Next, Request, Step, StartPendingRequest, Workers

-----------------------------------------------------------------------------
(***************************************************************************)
(* How a worker moves on.                                                  *)
(***************************************************************************)
\* Nobody else moves.
Alone(w) ==
    \A v \in Workers \ {w} :
        /\ pc'[v] = pc[v] /\ op'[v] = op[v] /\ inv'[v] = inv[v]
        /\ log'[v] = log[v] /\ attempt'[v] = attempt[v]

\* A worker that returns or throws is idle again.
LEMMA LeaveOK ==
  ASSUME TypeOK, NEW w \in Workers, Leave(w)
  PROVE  WorkerTypeOK' /\ Alone(w) /\ pc'[w] = "idle" /\ op'[w] = "none"
         /\ inv'[w] = NoInvoice /\ log'[w] = NoLog /\ attempt'[w] = 0
<1>1. WorkerTypeOK'
  BY DEF TypeOK, WorkerTypeOK, Leave, Label, Operation
<1>2. Alone(w)
  BY DEF TypeOK, WorkerTypeOK, Leave, Alone
<1> QED
  BY <1>1, <1>2 DEF TypeOK, WorkerTypeOK, Leave

\* A worker that goes on within its handler keeps its locals.
LEMMA GotoOK ==
  ASSUME TypeOK, NEW w \in Workers, NEW label \in Label, Goto(w, label)
  PROVE  WorkerTypeOK' /\ Alone(w) /\ pc'[w] = label /\ op'[w] = op[w]
         /\ inv'[w] = inv[w] /\ log'[w] = log[w] /\ attempt'[w] = attempt[w]
  BY DEF TypeOK, WorkerTypeOK, Goto, Alone

\* The catch clause of the retry loop counts the attempt and goes round again, or gives up.
LEMMA CatchOK ==
  ASSUME TypeOK, NEW w \in Workers, Catch(w), attempt[w] < MaxAttempts
  PROVE  /\ WorkerTypeOK' /\ Alone(w)
         /\ op'[w] = op[w] /\ inv'[w] = inv[w] /\ log'[w] = log[w]
         /\ attempt'[w] = attempt[w] + 1 /\ pc'[w] \in {"post", "giveUp"}
         /\ pc'[w] = "post" => attempt'[w] < MaxAttempts
<1>1. attempt[w] \in Nat /\ attempt[w] + 1 \in 0..MaxAttempts
  BY DEF TypeOK, WorkerTypeOK
<1>2. WorkerTypeOK'
  BY <1>1 DEF TypeOK, WorkerTypeOK, Catch, Label
<1>3. Alone(w)
  BY DEF TypeOK, WorkerTypeOK, Catch, Alone
<1> QED
  BY <1>1, <1>2, <1>3 DEF TypeOK, WorkerTypeOK, Catch

\* A request or a job begins on an idle worker.
LEMMA BeginOK ==
  ASSUME TypeOK, NEW w \in Workers, NEW o \in Operation, NEW i \in Invoices \cup {NoInvoice},
         NEW label \in Label, NEW l \in Logs \cup {NoLog}, Begin(w, o, i, label),
         log' = [log EXCEPT ![w] = l]
  PROVE  WorkerTypeOK' /\ Alone(w) /\ pc[w] = "idle" /\ pc'[w] = label /\ op'[w] = o
         /\ inv'[w] = i /\ log'[w] = l /\ attempt'[w] = attempt[w]
<1>1. WorkerTypeOK'
  BY DEF TypeOK, WorkerTypeOK, Begin
<1>2. Alone(w)
  BY DEF TypeOK, WorkerTypeOK, Begin, Alone
<1> QED
  BY <1>1, <1>2 DEF TypeOK, WorkerTypeOK, Begin

\* Every start is a Begin.
LEMMA StartOK ==
  ASSUME TypeOK, NEW w \in Workers, NEW i \in Invoices,
         StartJob(w, i) \/ StartRequest(w, i) \/ StartCancel(w, i) \/ StartDelete(w, i)
  PROVE  /\ WorkerTypeOK' /\ Alone(w) /\ pc[w] = "idle"
         /\ pc'[w] \in {"load", "write"}
         /\ op'[w] \in {"job", "request", "cancel", "delete"}
         /\ pc'[w] = "load" <=> op'[w] \in Submission
         /\ inv'[w] = i /\ log'[w] = log[w] /\ attempt'[w] = attempt[w]
<1>1. log' = [log EXCEPT ![w] = log[w]] /\ log[w] \in Logs \cup {NoLog}
  BY DEF TypeOK, WorkerTypeOK, StartJob, StartRequest, StartCancel, StartDelete
<1>2. PICK o \in {"job", "request", "cancel", "delete"}, label \in {"load", "write"} :
         Begin(w, o, i, label) /\ (label = "load" <=> o \in Submission)
  BY DEF StartJob, StartRequest, StartCancel, StartDelete, Submission
<1>3. o \in Operation /\ label \in Label
  BY DEF Label, Operation
<1> QED
  BY <1>1, <1>2, <1>3, BeginOK

-----------------------------------------------------------------------------
(***************************************************************************)
(* What the database, the queue and FIRS have said only grows.             *)
(***************************************************************************)
InvoicesGrow ==
    \A i \in Invoices :
        /\ firs[i] # "pending" => firs'[i] # "pending"
        /\ deleted[i] => deleted'[i]

LogsGrow ==
    /\ rows <= rows'
    /\ \A l \in Logs :
          /\ l <= rows => logInvoice'[l] = logInvoice[l]
          /\ l > rows /\ l <= rows' => logInvoice'[l] \in Invoices
          /\ l > rows => /\ registered'[l] = registered[l]
                          /\ (irnKnown'[l] <=> irnKnown[l]) /\ (ruled'[l] <=> ruled[l])
          /\ registered[l] <= registered'[l]
          /\ irnKnown[l] => irnKnown'[l]
          /\ lost[l] => lost'[l]
          /\ ruled[l] => ruled'[l]

\* An UPDATE of the invoice brings no status back to pending.
LEMMA SetInvoiceGrows ==
  ASSUME TypeOK, NEW i \in Invoices, NEW f \in FirsStatus, NEW s \in InvoiceStatus,
         SetInvoice(i, f, s), f # "pending" \/ f = firs[i]
  PROVE  InvoiceTypeOK' /\ InvoicesGrow
<1>1. InvoiceTypeOK'
  BY DEF TypeOK, InvoiceTypeOK, SetInvoice
<1> QED
  BY <1>1 DEF TypeOK, InvoiceTypeOK, SetInvoice, InvoicesGrow

\* No step takes back what the row of an invoice says of FIRS, nor a deletion.
LEMMA InvoiceStep ==
  ASSUME Control, [Next]_vars
  PROVE  InvoiceTypeOK' /\ InvoicesGrow
<1> USE DEF Control
<1>1. CASE UNCHANGED invoiceVars
  BY <1>1 DEF TypeOK, InvoiceTypeOK, InvoicesGrow, invoiceVars
<1>2. ASSUME NEW w \in Workers, MarkFIRSApproved(w) PROVE InvoiceTypeOK' /\ InvoicesGrow
  <2>1. inv[w] \in Invoices
    BY <1>2 DEF MarkFIRSApproved, Fit, Placed
  <2> QED
    BY <1>2, <2>1, SetInvoiceGrows DEF MarkFIRSApproved, FirsStatus, InvoiceStatus
<1>3. ASSUME NEW w \in Workers, MarkFIRSRejected(w) PROVE InvoiceTypeOK' /\ InvoicesGrow
  <2>1. inv[w] \in Invoices
    BY <1>3 DEF MarkFIRSRejected, Fit, Placed
  <2> QED
    BY <1>3, <2>1, SetInvoiceGrows DEF MarkFIRSRejected, FirsStatus, InvoiceStatus
<1>4. ASSUME NEW w \in Workers, Cancel(w) PROVE InvoiceTypeOK' /\ InvoicesGrow
  <2>1. inv[w] \in Invoices /\ firs[inv[w]] \in FirsStatus
    BY <1>4 DEF Cancel, Fit, Placed, TypeOK, InvoiceTypeOK
  <2> QED
    BY <1>4, <2>1, SetInvoiceGrows DEF Cancel, InvoiceStatus
<1>5. ASSUME NEW w \in Workers, Delete(w) PROVE InvoiceTypeOK' /\ InvoicesGrow
  BY <1>5 DEF Delete, TypeOK, InvoiceTypeOK, InvoicesGrow
<1>6. ASSUME NEW w \in Workers, NEW i \in Invoices,
             StartJob(w, i) \/ StartRequest(w, i) \/ StartCancel(w, i) \/ StartDelete(w, i)
      PROVE  UNCHANGED invoiceVars
  BY <1>6 DEF StartJob, StartRequest, StartCancel, StartDelete
<1>7. ASSUME NEW w \in Workers,
             Load(w) \/ LogFailure(w) \/ CreateLog(w) \/ Post(w) \/ RecordApproval(w)
             \/ RecordRefusal(w) \/ GiveUp(w) \/ Query(w) \/ RecordRejection(w)
             \/ StatementFails(w)
      PROVE  UNCHANGED invoiceVars
  BY <1>7 DEF Load, LogFailure, CreateLog, Post, RecordApproval, RecordRefusal, GiveUp,
              Query, RecordRejection, StatementFails
<1>8. ASSUME \/ \E i \in Invoices : Enqueue(i)
             \/ \E w \in Workers, l \in Logs : StartCheck(w, l)
             \/ Crash \/ UNCHANGED vars
      PROVE  UNCHANGED invoiceVars
  BY <1>8 DEF Enqueue, StartCheck, Crash, vars
<1> QED
  BY <1>1, <1>2, <1>3, <1>4, <1>5, <1>6, <1>7, <1>8
     DEF Next, Request, Step, StartPendingRequest, Workers

\* A new row is the next one.
LEMMA CreateRowOK ==
  ASSUME TypeOK, NEW i \in Invoices, CreateRow(i), UNCHANGED history
  PROVE  /\ LogTypeOK' /\ HistoryTypeOK' /\ LogsGrow
         /\ rows' = rows + 1 /\ rows' \in Logs /\ logInvoice'[rows'] = i
<1>1. rows + 1 \in Logs /\ rows \in Nat
  BY DEF TypeOK, LogTypeOK, CreateRow, Logs
<1> USE DEF TypeOK, LogTypeOK, HistoryTypeOK, CreateRow, history
<1>2. LogTypeOK' /\ HistoryTypeOK'
  BY <1>1 DEF FirsStatus
<1>3. LogsGrow
  BY <1>1 DEF LogsGrow, Logs
<1> QED
  BY <1>1, <1>2, <1>3

\* No step takes back what a log row says or what FIRS has done with it; a document is
\* registered only under the row of the submission that posts it.
LEMMA LogStep ==
  ASSUME Control, [Next]_vars
  PROVE  LogTypeOK' /\ HistoryTypeOK' /\ LogsGrow
<1> USE DEF Control
<1>1. CASE UNCHANGED <<logVars, history>>
  BY <1>1 DEF TypeOK, LogTypeOK, HistoryTypeOK, LogsGrow, Logs, logVars, history
<1>2. ASSUME NEW w \in Workers, LogFailure(w) \/ CreateLog(w)
      PROVE  LogTypeOK' /\ HistoryTypeOK' /\ LogsGrow
  <2>1. inv[w] \in Invoices /\ CreateRow(inv[w]) /\ UNCHANGED history
    BY <1>2 DEF LogFailure, CreateLog, Fit, Placed
  <2> QED
    BY <2>1, CreateRowOK
<1> USE DEF HasRow, Preparing, Sending, Approving, Checking
<1>3. ASSUME NEW w \in Workers, HasRow(w)
      PROVE  log[w] \in Logs /\ log[w] <= rows /\ attempt[w] \in Nat
  BY <1>3 DEF Fit, Placed, TypeOK, LogTypeOK, WorkerTypeOK, Logs
<1>4. ASSUME NEW w \in Workers, PostHeard(w) \/ PostLost(w)
      PROVE  LogTypeOK' /\ HistoryTypeOK' /\ LogsGrow
  <2>1. /\ log[w] \in Logs /\ log[w] <= rows
        /\ attempt[w] \in Nat /\ attempt[w] < MaxAttempts
        /\ registered[log[w]] <= attempt[w]
    BY <1>3, <1>4 DEF PostHeard, PostLost, Fit, Placed, Posted
  <2>2. registered[log[w]] + 1 \in 0..MaxAttempts
    BY <2>1 DEF TypeOK, HistoryTypeOK
  <2>3. /\ registered' = [registered EXCEPT ![log[w]] = @ + 1]
        /\ lost' = lost \/ lost' = [lost EXCEPT ![log[w]] = TRUE]
        /\ UNCHANGED <<logVars, ruled>>
    BY <1>4 DEF PostHeard, PostLost
  <2>4. HistoryTypeOK' /\ LogTypeOK'
    BY <2>1, <2>2, <2>3 DEF TypeOK, LogTypeOK, HistoryTypeOK, logVars
  <2>5. \A l \in Logs : /\ registered[l] <= registered'[l] /\ (lost[l] => lost'[l])
                        /\ l > rows => registered'[l] = registered[l]
    BY <2>1, <2>3 DEF TypeOK, HistoryTypeOK, LogTypeOK, Logs
  <2>6. rows \in Nat /\ rows' = rows /\ logInvoice' = logInvoice /\ irnKnown' = irnKnown
        /\ ruled' = ruled
    BY <2>3 DEF TypeOK, LogTypeOK, logVars, Logs
  <2>7. LogsGrow
    <3>1. \A l \in Logs : /\ irnKnown[l] => irnKnown'[l]
                          /\ ruled[l] => ruled'[l]
                          /\ irnKnown'[l] <=> irnKnown[l]
                          /\ ruled'[l] <=> ruled[l]
      BY <2>6
    <3>2. \A l \in Logs : logInvoice'[l] = logInvoice[l] /\ ~(l > rows /\ l <= rows')
      BY <2>6 DEF Logs
    <3>3. rows <= rows'
      BY <2>6
    <3> QED
      BY <2>5, <3>1, <3>2, <3>3 DEF LogsGrow
  <2> QED
    BY <2>4, <2>7
<1>5. ASSUME NEW w \in Workers, RecordApproval(w)
      PROVE  LogTypeOK' /\ HistoryTypeOK' /\ LogsGrow
  <2>1. /\ logStatus' = [logStatus EXCEPT ![log[w]] = "approved"]
        /\ irnKnown' = [irnKnown EXCEPT ![log[w]] = TRUE]
        /\ UNCHANGED <<rows, logInvoice, history>>
    BY <1>5 DEF RecordApproval
  <2>2. LogTypeOK' /\ HistoryTypeOK'
    BY <2>1 DEF TypeOK, LogTypeOK, HistoryTypeOK, FirsStatus, history
  <2>3. log[w] \in Logs /\ log[w] <= rows
    BY <1>3, <1>5 DEF RecordApproval
  <2>4. \A l \in Logs : (irnKnown[l] => irnKnown'[l]) /\ (l > rows => (irnKnown'[l] <=> irnKnown[l]))
    BY <2>1, <2>3 DEF TypeOK, LogTypeOK, Logs
  <2> QED
    BY <2>1, <2>2, <2>4 DEF TypeOK, LogTypeOK, HistoryTypeOK, LogsGrow, Logs, history
<1>6. ASSUME NEW w \in Workers, RecordRefusal(w) \/ GiveUp(w) \/ RecordRejection(w)
      PROVE  LogTypeOK' /\ HistoryTypeOK' /\ LogsGrow
  <2>1. /\ \/ logStatus' = [logStatus EXCEPT ![log[w]] = "pending"]
           \/ logStatus' = [logStatus EXCEPT ![log[w]] = "rejected"]
        /\ UNCHANGED <<rows, logInvoice, irnKnown, history>>
    BY <1>6 DEF RecordRefusal, GiveUp, MarkFailed, RecordRejection
  <2>2. logStatus' \in [Logs -> FirsStatus \cup {"absent"}]
    BY <2>1 DEF TypeOK, LogTypeOK, FirsStatus
  <2> QED
    BY <2>1, <2>2 DEF TypeOK, LogTypeOK, HistoryTypeOK, LogsGrow, Logs, history
<1>7. ASSUME NEW w \in Workers, QueryRejected(w)
      PROVE  LogTypeOK' /\ HistoryTypeOK' /\ LogsGrow
  <2>1. ruled' = [ruled EXCEPT ![log[w]] = TRUE] /\ UNCHANGED <<logVars, registered, lost>>
    BY <1>7 DEF QueryRejected
  <2>2. HistoryTypeOK'
    BY <2>1 DEF TypeOK, HistoryTypeOK
  <2>3. log[w] \in Logs /\ log[w] <= rows
    BY <1>3, <1>7 DEF QueryRejected
  <2>4. \A l \in Logs : (ruled[l] => ruled'[l]) /\ (l > rows => (ruled'[l] <=> ruled[l]))
    BY <2>1, <2>3 DEF TypeOK, HistoryTypeOK, LogTypeOK, Logs
  <2> QED
    BY <2>1, <2>2, <2>4 DEF TypeOK, LogTypeOK, HistoryTypeOK, LogsGrow, Logs, logVars
<1>8. ASSUME NEW w \in Workers, RecordFails(w)
      PROVE  LogTypeOK' /\ HistoryTypeOK' /\ LogsGrow
  <2>1. lost' = [lost EXCEPT ![log[w]] = TRUE] /\ UNCHANGED <<logVars, registered, ruled>>
    BY <1>8 DEF RecordFails
  <2>2. HistoryTypeOK' /\ \A l \in Logs : lost[l] => lost'[l]
    BY <2>1 DEF TypeOK, HistoryTypeOK
  <2> QED
    BY <2>1, <2>2 DEF TypeOK, LogTypeOK, HistoryTypeOK, LogsGrow, Logs, logVars
<1>9. CASE Crash
  BY <1>9 DEF Crash, Lose, TypeOK, LogTypeOK, HistoryTypeOK, LogsGrow, Logs, logVars
<1>10. ASSUME NEW w, NEW i,
              Enqueue(i) \/ StartJob(w, i) \/ StartRequest(w, i) \/ StartCancel(w, i)
              \/ StartDelete(w, i)
       PROVE  UNCHANGED <<logVars, history>>
  BY <1>10 DEF Enqueue, StartJob, StartRequest, StartCancel, StartDelete
<1>11. ASSUME NEW w \in Workers,
              Loaded(w, "log") \/ Loaded(w, "invalid") \/ NotFound(w) \/ PostRefused(w)
              \/ PostUnheard(w) \/ MarkFIRSApproved(w) \/ QueryApproved(w) \/ QueryPending(w)
              \/ MarkFIRSRejected(w) \/ Cancel(w) \/ Delete(w) \/ RefusalFails(w) \/ OtherFails(w)
       PROVE  UNCHANGED <<logVars, history>>
  BY <1>11 DEF Loaded, NotFound, PostRefused, PostUnheard, MarkFIRSApproved, QueryApproved,
     QueryPending, MarkFIRSRejected, Cancel, Delete, RefusalFails, OtherFails
<1>12. ASSUME NEW w \in Workers, NEW l \in Logs, StartCheck(w, l) PROVE UNCHANGED <<logVars, history>>
  BY <1>12 DEF StartCheck
<1>13. CASE UNCHANGED vars
  BY <1>1, <1>13 DEF vars
<1> QED
  BY <1>1, <1>2, <1>4, <1>5, <1>6, <1>7, <1>8, <1>9, <1>10, <1>11, <1>12, <1>13, Alternatives
     DEF Fit

-----------------------------------------------------------------------------
(***************************************************************************)
(* The record of the queue.                                                *)
(***************************************************************************)
\* While nobody takes a job or ends one, the queue stays in order.
LEMMA QueueRests ==
  ASSUME Control, UNCHANGED jobVars,
         \A v \in Workers : op'[v] = "job" => op[v] = "job" /\ inv'[v] = inv[v]
  PROVE  JobTypeOK' /\ Queued'
  BY DEF Control, TypeOK, JobTypeOK, Queued, jobVars

\* Whoever runs a job ends it: completed, failed, or to be run again.
LEMMA RunEnds ==
  ASSUME Control, NEW w \in Workers, Return(w) \/ Throw(w)
  PROVE  JobTypeOK' /\ Queued'
<1> USE DEF Control
<1>1. Leave(w)
  BY DEF Return, Throw
<1>2. Alone(w) /\ op'[w] = "none"
  BY <1>1, LeaveOK
<1>3. \A v \in Workers : op'[v] = "job" => v # w /\ op[v] = "job" /\ inv'[v] = inv[v]
  BY <1>2 DEF Alone
<1>4. CASE op[w] # "job"
  BY <1>3, <1>4, QueueRests DEF Return, Throw, jobVars
<1>5. CASE op[w] = "job"
  <2> DEFINE i == inv[w]
  <2>1. i \in Invoices /\ job[i] = "active" /\ tries[i] \in Nat /\ tries[i] < JobAttempts
        /\ stalls[i] <= MaxStalls
    BY <1>5 DEF Fit, Placed, Queued, TypeOK, JobTypeOK
  <2>2. \A v \in Workers : op'[v] = "job" => inv[v] # i
    BY <1>3, <1>5 DEF Queued
  <2>3. PICK k \in {"completed", "waiting", "failed"} :
           /\ job' = [job EXCEPT ![i] = k]
           /\ k = "waiting" => tries' = [tries EXCEPT ![i] = @ + 1] /\ tries[i] + 1 < JobAttempts
           /\ tries' = [tries EXCEPT ![i] = @ + 1] \/ UNCHANGED tries
           /\ UNCHANGED stalls
    BY <1>5 DEF Return, Throw
  <2>4. JobTypeOK'
    BY <2>1, <2>3 DEF TypeOK, JobTypeOK, JobState
  <2>5. /\ \A j \in Invoices \ {i} : job'[j] = job[j] /\ tries'[j] = tries[j]
        /\ job'[i] = k /\ (k = "waiting" => tries'[i] = tries[i] + 1)
    BY <2>1, <2>3 DEF TypeOK, JobTypeOK
  <2> HIDE DEF i
  <2>6. \A v \in Workers : op'[v] = "job" => job'[inv'[v]] = "active"
    <3>1. ASSUME NEW v \in Workers, op'[v] = "job"
          PROVE  inv[v] \in Invoices \ {i} /\ job[inv[v]] = "active" /\ inv'[v] = inv[v]
      BY <1>3, <2>2, <3>1 DEF Fit, Placed, Queued
    <3> QED
      BY <2>5, <3>1
  <2>7. \A u, v \in Workers : op'[u] = "job" /\ op'[v] = "job" /\ inv'[u] = inv'[v] => u = v
    BY <1>3 DEF Queued
  <2>8. ASSUME NEW j \in Invoices
        PROVE  /\ job'[j] = "absent" => tries'[j] = 0 /\ stalls'[j] = 0
               /\ job'[j] \in {"waiting", "active"} =>
                     tries'[j] < JobAttempts /\ stalls'[j] <= MaxStalls
    <3>1. CASE j = i
      BY <2>1, <2>3, <2>5, <3>1
    <3>2. CASE j # i
      BY <2>3, <2>5, <3>2 DEF Queued
    <3> QED
      BY <3>1, <3>2
  <2> QED
    BY <2>4, <2>6, <2>7, <2>8 DEF Queued
<1> QED
  BY <1>4, <1>5

\* The queue stays in order whatever happens, and nobody's job is taken from it.
LEMMA QueueStep == ASSUME Control, [Next]_vars PROVE JobTypeOK' /\ Queued'
<1> USE DEF Control
<1>1. ASSUME NEW i \in Invoices, Enqueue(i) PROVE JobTypeOK' /\ Queued'
  <2>1. JobTypeOK'
    BY <1>1 DEF Enqueue, TypeOK, JobTypeOK, JobState
  <2>2. \A v \in Workers : op[v] = "job" => inv[v] # i
    BY <1>1 DEF Enqueue, Queued
  <2> QED
    BY <1>1, <2>1, <2>2 DEF Enqueue, Queued, workerVars, TypeOK, JobTypeOK
<1>2. ASSUME NEW w \in Workers, NEW i \in Invoices, StartJob(w, i) PROVE JobTypeOK' /\ Queued'
  <2>1. /\ job[i] = "waiting" /\ job' = [job EXCEPT ![i] = "active"]
        /\ UNCHANGED <<tries, stalls>>
    BY <1>2 DEF StartJob
  <2>2. Alone(w) /\ op'[w] \in Operation /\ inv'[w] = i
    BY <1>2, StartOK DEF Operation
  <2>3. JobTypeOK'
    BY <2>1 DEF TypeOK, JobTypeOK, JobState
  <2>4. \A v \in Workers : v # w /\ op[v] = "job" => inv[v] # i /\ inv[v] \in Invoices
    BY <2>1 DEF Queued, Fit, Placed
  <2>5. \A v \in Workers : op'[v] = "job" => job'[inv'[v]] = "active"
    BY <2>1, <2>2, <2>4 DEF Queued, Alone, TypeOK, JobTypeOK
  <2>6. \A u, v \in Workers : op'[u] = "job" /\ op'[v] = "job" /\ inv'[u] = inv'[v] => u = v
    BY <2>2, <2>4 DEF Queued, Alone
  <2> QED
    BY <2>1, <2>3, <2>5, <2>6 DEF Queued, TypeOK, JobTypeOK
<1>3. ASSUME NEW w \in Workers, NEW i \in Invoices,
             StartRequest(w, i) \/ StartCancel(w, i) \/ StartDelete(w, i)
      PROVE  JobTypeOK' /\ Queued'
  <2>1. UNCHANGED jobVars /\ op' = [op EXCEPT ![w] = op'[w]] /\ op'[w] # "job"
        /\ inv' = [inv EXCEPT ![w] = i]
    BY <1>3 DEF StartRequest, StartCancel, StartDelete, Begin, TypeOK, WorkerTypeOK
  <2> QED
    BY <2>1, QueueRests DEF TypeOK, WorkerTypeOK
<1>4. ASSUME NEW w \in Workers, NEW l \in Logs, StartCheck(w, l) PROVE JobTypeOK' /\ Queued'
  BY <1>4, QueueRests DEF StartCheck, Begin, TypeOK, WorkerTypeOK
<1>5. ASSUME NEW w \in Workers,
             NotFound(w) \/ LogFailure(w) \/ MarkFIRSApproved(w) \/ GiveUp(w)
             \/ MarkFIRSRejected(w) \/ Cancel(w) \/ Delete(w) \/ OtherFails(w)
      PROVE  JobTypeOK' /\ Queued'
  BY <1>5, RunEnds DEF NotFound, LogFailure, MarkFIRSApproved, GiveUp, MarkFIRSRejected,
     Cancel, Delete, OtherFails
<1>6. ASSUME NEW w \in Workers,
             Loaded(w, "log") \/ Loaded(w, "invalid") \/ CreateLog(w) \/ PostHeard(w)
             \/ PostLost(w) \/ PostRefused(w) \/ PostUnheard(w) \/ RecordApproval(w)
             \/ RecordRefusal(w) \/ QueryApproved(w) \/ QueryRejected(w)
             \/ RecordRejection(w) \/ RecordFails(w) \/ RefusalFails(w)
      PROVE  UNCHANGED <<jobVars, op, inv>>
  BY <1>6 DEF Loaded, CreateLog, PostHeard, PostLost, PostRefused, PostUnheard,
     RecordApproval, RecordRefusal, QueryApproved, QueryRejected, RecordRejection,
     RecordFails, RefusalFails, Goto, Catch
<1>7. ASSUME NEW w \in Workers, QueryPending(w) PROVE JobTypeOK' /\ Queued'
  BY <1>7, QueueRests DEF QueryPending, Leave, TypeOK, WorkerTypeOK
<1>8. CASE Crash
  BY <1>8 DEF Crash, Queued, TypeOK, JobTypeOK, JobState
<1>9. CASE UNCHANGED vars
  BY <1>9, QueueRests DEF vars, workerVars
<1>10. CASE UNCHANGED <<jobVars, op, inv>>
  BY <1>10, QueueRests
<1> QED
  BY <1>1, <1>2, <1>3, <1>4, <1>5, <1>6, <1>7, <1>8, <1>9, <1>10, Alternatives DEF Fit

-----------------------------------------------------------------------------
(***************************************************************************)
(* The workers and their rows.                                             *)
(***************************************************************************)
\* Whoever is not moving stays fit while FIRS registers nothing under its row.
LEMMA OthersFit ==
  ASSUME Control, [Next]_vars, NEW w \in Workers, Alone(w),
         \A l \in Logs : registered'[l] # registered[l] => Submits(w) /\ HasRow(w) /\ l = log[w]
  PROVE  \A v \in Workers \ {w} : Fit(v)'
<1> SUFFICES ASSUME NEW v \in Workers \ {w} PROVE Fit(v)'
  OBVIOUS
<1> USE DEF Control
<1>1. Fit(v) /\ TypeOK
  OBVIOUS
<1>2. LogTypeOK' /\ HistoryTypeOK' /\ LogsGrow
  BY LogStep
<1>3. /\ pc'[v] = pc[v] /\ op'[v] = op[v] /\ inv'[v] = inv[v]
      /\ log'[v] = log[v] /\ attempt'[v] = attempt[v]
  BY DEF Alone
<1>4. CASE ~HasRow(v)
  <2>1. pc[v] \in Label
    BY <1>1 DEF TypeOK, WorkerTypeOK
  <2> QED
    BY <1>1, <1>3, <1>4, <2>1 DEF Fit, Placed, Posted, Heard, HasRow, Submits, Submission,
       Preparing, Sending, Approving, Checking, Label
<1>5. CASE HasRow(v)
  <2>1. log[v] \in Logs /\ log[v] <= rows
    BY <1>1, <1>5 DEF Fit, Placed, TypeOK, LogTypeOK, Logs
  <2>2. /\ logInvoice'[log[v]] = logInvoice[log[v]]
        /\ registered[log[v]] <= registered'[log[v]]
        /\ irnKnown[log[v]] => irnKnown'[log[v]]
        /\ lost[log[v]] => lost'[log[v]]
        /\ ruled[log[v]] => ruled'[log[v]]
        /\ rows <= rows' /\ rows \in Nat /\ rows' \in Nat
    BY <1>2, <2>1 DEF LogsGrow, LogTypeOK, Logs, TypeOK
  <2>3. Submits(v) => registered'[log[v]] = registered[log[v]]
    BY <1>5, <2>1 DEF Created
  <2>4. Placed(v)'
    BY <1>1, <1>3, <1>5, <2>1, <2>2 DEF Fit, Placed, HasRow, Submits
  <2>5. Posted(v)'
    BY <1>1, <1>3, <2>2, <2>3 DEF Fit, Posted, Submits
  <2>6. Heard(v)'
    BY <1>1, <1>2, <1>3, <1>5, <2>1, <2>2 DEF Fit, Heard, TypeOK, HistoryTypeOK, HasRow
  <2> QED
    BY <2>4, <2>5, <2>6 DEF Fit
<1> QED
  BY <1>4, <1>5

\* A worker keeps its row, drops it, or has just created it.
Keeps(w) ==
    (Submits(w) /\ HasRow(w))' =>
        \/ Submits(w) /\ HasRow(w) /\ log'[w] = log[w]
        \/ rows' = rows + 1 /\ log'[w] = rows'

LEMMA RowsStayOwned ==
  ASSUME Control, [Next]_vars, NEW w \in Workers, Alone(w), Keeps(w)
  PROVE  Created'
<1> USE DEF Control
<1>1. LogTypeOK' /\ HistoryTypeOK' /\ LogsGrow /\ rows \in Nat /\ rows' \in Nat
  BY LogStep DEF TypeOK, LogTypeOK, Logs
<1>2. \A l \in Logs : l <= rows' => logInvoice'[l] \in Invoices
  BY <1>1 DEF LogsGrow, Created, Logs
<1>3. \A l \in Logs : l > rows' => registered'[l] = 0 /\ ~irnKnown'[l] /\ ~ruled'[l]
  BY <1>1 DEF LogsGrow, Created, Logs
<1>4. \A v \in Workers \ {w} : pc'[v] = pc[v] /\ op'[v] = op[v] /\ log'[v] = log[v]
  BY DEF Alone
<1>5. \A v \in Workers : HasRow(v) => log[v] \in Nat /\ log[v] <= rows
  BY DEF Fit, Placed, TypeOK, LogTypeOK, Logs
<1>6. ASSUME NEW u \in Workers, NEW v \in Workers, u # v,
             (Submits(u) /\ HasRow(u))', (Submits(v) /\ HasRow(v))', log'[u] = log'[v]
      PROVE  FALSE
  <2>1. CASE u # w /\ v # w
    BY <1>4, <1>6, <2>1 DEF Created, Submits, HasRow
  <2>2. CASE u = w
    BY <1>1, <1>4, <1>5, <1>6, <2>2 DEF Created, Submits, HasRow, Keeps
  <2>3. CASE v = w
    BY <1>1, <1>4, <1>5, <1>6, <2>3 DEF Created, Submits, HasRow, Keeps
  <2> QED
    BY <2>1, <2>2, <2>3
<1> QED
  BY <1>2, <1>3, <1>6 DEF Created

\* A worker at work stays fit, and so does everybody else.
LEMMA WorkersStep ==
  ASSUME Control, [Next]_vars
  PROVE  WorkerTypeOK' /\ Created' /\ \A v \in Workers : Fit(v)'
<1> DEFINE Goal == WorkerTypeOK' /\ Created' /\ \A v \in Workers : Fit(v)'
<1> SUFFICES Goal
  OBVIOUS
<1> USE DEF Control
<1>a. /\ LogTypeOK' /\ HistoryTypeOK' /\ LogsGrow
      /\ rows \in Nat /\ rows' \in Nat /\ rows <= rows'
  BY LogStep DEF TypeOK, LogTypeOK, Logs, LogsGrow
<1>b. ASSUME NEW w \in Workers, WorkerTypeOK', Alone(w), Fit(w)', Keeps(w),
             \A l \in Logs : registered'[l] # registered[l] => Submits(w) /\ HasRow(w) /\ l = log[w]
      PROVE  Goal
  BY <1>b, OthersFit, RowsStayOwned
<1>c. ASSUME NEW w \in Workers, WorkerTypeOK', Alone(w), Fit(w)', Keeps(w), UNCHANGED registered
      PROVE  Goal
  BY <1>b, <1>c
<1>d. ASSUME NEW w \in Workers, Leave(w), UNCHANGED registered PROVE Goal
  <2>1. /\ WorkerTypeOK' /\ Alone(w) /\ pc'[w] = "idle" /\ op'[w] = "none"
        /\ log'[w] = NoLog /\ attempt'[w] = 0
    BY <1>d, LeaveOK
  <2> QED
    BY <1>c, <1>d, <2>1 DEF Fit, Placed, Posted, Heard, Keeps, HasRow, Submits, Submission,
       Preparing, Sending, Approving, Checking
<1>e. ASSUME NEW w \in Workers, Return(w) \/ Throw(w) PROVE Leave(w)
  BY <1>e DEF Return, Throw
<1>f. ASSUME NEW w \in Workers, HasRow(w)
      PROVE  log[w] \in Logs /\ log[w] <= rows /\ logInvoice'[log[w]] = inv[w]
             /\ registered[log[w]] \in Nat /\ registered'[log[w]] \in Nat
  BY <1>a, <1>f DEF Fit, Placed, TypeOK, LogTypeOK, HistoryTypeOK, Logs, LogsGrow
<1>1. ASSUME NEW i \in Invoices, Enqueue(i) PROVE Goal
  <2>1. UNCHANGED <<rows, logInvoice, irnKnown, registered, lost, ruled, pc, op, inv, log, attempt>>
    BY <1>1 DEF Enqueue, logVars, history, workerVars
  <2>2. WorkerTypeOK' /\ \A v \in Workers : Fit(v)'
    BY <2>1 DEF TypeOK, WorkerTypeOK, Fit, Placed, Posted, Heard, HasRow, Submits
  <2> QED
    BY <2>1, <2>2 DEF Created, HasRow, Submits
<1> HIDE DEF Goal
<1>2. ASSUME NEW w \in Workers, NEW i \in Invoices,
             StartJob(w, i) \/ StartRequest(w, i) \/ StartCancel(w, i) \/ StartDelete(w, i)
      PROVE  Goal
  <2>1. UNCHANGED registered
    BY <1>2 DEF StartJob, StartRequest, StartCancel, StartDelete, history
  <2>2. /\ WorkerTypeOK' /\ Alone(w) /\ pc[w] = "idle"
        /\ pc'[w] \in {"load", "write"}
        /\ op'[w] \in {"job", "request", "cancel", "delete"}
        /\ pc'[w] = "load" <=> op'[w] \in Submission
        /\ inv'[w] = i /\ log'[w] = log[w] /\ attempt'[w] = attempt[w]
    BY <1>2, StartOK
  <2>3. Fit(w)' /\ Keeps(w)
    BY <2>2 DEF Fit, Placed, Posted, Heard, Keeps, HasRow, Submits, Submission,
       Preparing, Sending, Approving, Checking
  <2> QED
    BY <1>c, <2>1, <2>2, <2>3
<1>3. ASSUME NEW w \in Workers, NEW l \in Logs, StartCheck(w, l) PROVE Goal
  <2>1. Begin(w, "check", logInvoice[l], "query") /\ log' = [log EXCEPT ![w] = l]
        /\ irnKnown[l] /\ UNCHANGED <<logVars, history>>
    BY <1>3 DEF StartCheck
  <2>2. l <= rows /\ logInvoice[l] \in Invoices
    BY <1>a, <2>1 DEF Created, Logs
  <2>3. registered[l] > 0
    BY <2>1 DEF Issued
  <2>4. "check" \in Operation /\ "query" \in Label
    BY DEF Operation, Label
  <2>5. /\ WorkerTypeOK' /\ Alone(w) /\ pc[w] = "idle" /\ pc'[w] = "query" /\ op'[w] = "check"
        /\ inv'[w] = logInvoice[l] /\ log'[w] = l /\ attempt'[w] = attempt[w]
    BY <2>1, <2>2, <2>4, BeginOK
  <2>6. attempt[w] = 0
    BY <2>5 DEF Fit, Placed, HasRow, Sending, Approving, Checking
  <2>7. Fit(w)' /\ Keeps(w)
    BY <1>a, <2>1, <2>2, <2>3, <2>5, <2>6 DEF Fit, Placed, Posted, Heard, Keeps, HasRow, Submits,
       Submission, Preparing, Sending, Approving, Checking, logVars, history, Logs
  <2> QED
    BY <1>c, <2>1, <2>5, <2>7 DEF history
<1>4. ASSUME NEW w \in Workers, Loaded(w, "log") \/ Loaded(w, "invalid") PROVE Goal
  <2>1. "log" \in Label /\ "invalid" \in Label
    BY DEF Label
  <2>2. /\ WorkerTypeOK' /\ Alone(w) /\ pc[w] = "load" /\ pc'[w] \in {"log", "invalid"}
        /\ op'[w] = op[w] /\ inv'[w] = inv[w] /\ log'[w] = log[w] /\ attempt'[w] = attempt[w]
        /\ UNCHANGED registered
    BY <1>4, <2>1, GotoOK DEF Loaded, history
  <2>3. Fit(w)' /\ Keeps(w)
    BY <2>2 DEF Fit, Placed, Posted, Heard, Keeps, HasRow, Submits, Submission,
       Preparing, Sending, Approving, Checking
  <2> QED
    BY <1>c, <2>2, <2>3
<1>5. ASSUME NEW w \in Workers, CreateLog(w) PROVE Goal
  <2>1. inv[w] \in Invoices /\ Submits(w) /\ attempt[w] = 0 /\ pc[w] = "log" /\ CreateRow(inv[w])
        /\ UNCHANGED history
    BY <1>5 DEF CreateLog, Fit, Placed, HasRow, Preparing, Sending, Approving, Checking
  <2>2. rows' = rows + 1 /\ rows' \in Logs /\ logInvoice'[rows'] = inv[w]
    BY <2>1, CreateRowOK
  <2>3. /\ WorkerTypeOK' /\ Alone(w) /\ pc'[w] = "post" /\ op'[w] = op[w] /\ inv'[w] = inv[w]
        /\ log'[w] = rows' /\ attempt'[w] = 0
    BY <1>5, <2>1, <2>2 DEF CreateLog, TypeOK, WorkerTypeOK, Alone, Label
  <2>4. registered'[rows'] = 0
    BY <1>a, <2>1, <2>2 DEF Created, history
  <2>5. Fit(w)' /\ Keeps(w)
    BY <1>a, <2>1, <2>2, <2>3, <2>4 DEF Fit, Placed, Posted, Heard, Keeps, HasRow, Submits,
       Submission, Preparing, Sending, Approving, Checking
  <2> QED
    BY <1>c, <2>1, <2>3, <2>5 DEF history
<1>6. ASSUME NEW w \in Workers, PostHeard(w) \/ PostLost(w) PROVE Goal
  <2>1. HasRow(w) /\ Submits(w) /\ pc[w] = "post"
    BY <1>6 DEF PostHeard, PostLost, HasRow, Fit, Placed, Sending
  <2>2. /\ attempt[w] \in Nat /\ attempt[w] < MaxAttempts
        /\ registered[log[w]] <= attempt[w] /\ (registered[log[w]] > 0 => lost[log[w]])
    BY <2>1 DEF Fit, Placed, Posted, Sending, TypeOK, WorkerTypeOK
  <2>3. /\ log[w] \in Logs
        /\ registered'[log[w]] = registered[log[w]] + 1
        /\ \A l \in Logs : registered'[l] # registered[l] => l = log[w]
    BY <1>6, <1>f, <2>1 DEF PostHeard, PostLost, TypeOK, HistoryTypeOK
  <2>4. CASE PostHeard(w)
    <3>1. "approve" \in Label
      BY DEF Label
    <3>2. /\ WorkerTypeOK' /\ Alone(w) /\ pc'[w] = "approve" /\ op'[w] = op[w]
          /\ inv'[w] = inv[w] /\ log'[w] = log[w] /\ attempt'[w] = attempt[w]
      BY <2>4, <3>1, GotoOK DEF PostHeard
    <3>3. Fit(w)' /\ Keeps(w)
      BY <1>a, <1>f, <2>1, <2>2, <2>3, <3>2 DEF Fit, Placed, Posted, Heard, Keeps, HasRow,
         Submits, Submission, Preparing, Sending, Approving, Checking
    <3> QED
      BY <1>b, <2>1, <2>3, <3>2, <3>3
  <2>5. CASE PostLost(w)
    <3>1. /\ WorkerTypeOK' /\ Alone(w) /\ op'[w] = op[w] /\ inv'[w] = inv[w]
          /\ log'[w] = log[w] /\ attempt'[w] = attempt[w] + 1 /\ pc'[w] \in {"post", "giveUp"}
          /\ pc'[w] = "post" => attempt'[w] < MaxAttempts
      BY <2>2, <2>5, CatchOK DEF PostLost
    <3>2. lost'[log[w]]
      BY <2>3, <2>5 DEF PostLost, TypeOK, HistoryTypeOK
    <3>3. Fit(w)' /\ Keeps(w)
      BY <1>a, <1>f, <2>1, <2>2, <2>3, <3>1, <3>2 DEF Fit, Placed, Posted, Heard, Keeps, HasRow,
         Submits, Submission, Preparing, Sending, Approving, Checking
    <3> QED
      BY <1>b, <2>1, <2>3, <3>1, <3>3
  <2> QED
    BY <1>6, <2>4, <2>5
<1>7. ASSUME NEW w \in Workers, PostRefused(w) PROVE Goal
  <2>1. "refused" \in Label
    BY DEF Label
  <2>2. /\ WorkerTypeOK' /\ Alone(w) /\ pc[w] = "post" /\ pc'[w] = "refused" /\ op'[w] = op[w]
        /\ inv'[w] = inv[w] /\ log'[w] = log[w] /\ attempt'[w] = attempt[w]
        /\ UNCHANGED history
    BY <1>7, <2>1, GotoOK DEF PostRefused
  <2>3. HasRow(w)
    BY <2>2 DEF HasRow, Sending
  <2>4. Fit(w)' /\ Keeps(w)
    BY <1>a, <1>f, <2>2, <2>3 DEF Fit, Placed, Posted, Heard, Keeps, HasRow, Submits, Submission,
       Preparing, Sending, Approving, Checking, history
  <2> QED
    BY <1>c, <2>2, <2>4 DEF history
<1>8. ASSUME NEW w \in Workers,
             PostUnheard(w) \/ RecordRefusal(w) \/ RefusalFails(w) \/ RecordFails(w)
      PROVE  Goal
  <2>1. /\ Catch(w) /\ Submits(w) /\ pc[w] \in {"post", "refused"} \cup Approving
        /\ UNCHANGED registered
        /\ pc[w] \in Approving => lost' = [lost EXCEPT ![log[w]] = TRUE]
        /\ pc[w] \notin Approving => UNCHANGED lost
    BY <1>8 DEF PostUnheard, RecordRefusal, RefusalFails, RecordFails, history, Fit, Placed,
       Sending, Approving
  <2>2. HasRow(w) /\ attempt[w] \in Nat /\ attempt[w] < MaxAttempts
    BY <2>1 DEF HasRow, Fit, Placed, TypeOK, WorkerTypeOK, Sending, Approving
  <2>3. /\ WorkerTypeOK' /\ Alone(w) /\ op'[w] = op[w] /\ inv'[w] = inv[w]
        /\ log'[w] = log[w] /\ attempt'[w] = attempt[w] + 1 /\ pc'[w] \in {"post", "giveUp"}
        /\ pc'[w] = "post" => attempt'[w] < MaxAttempts
    BY <2>1, <2>2, CatchOK
  <2>4. /\ registered'[log[w]] <= attempt'[w]
        /\ registered'[log[w]] > 0 => lost'[log[w]]
    BY <1>f, <2>1, <2>2, <2>3 DEF Fit, Posted, Sending, Approving, TypeOK, HistoryTypeOK
  <2>5. Fit(w)' /\ Keeps(w)
    BY <1>a, <1>f, <2>1, <2>2, <2>3, <2>4 DEF Fit, Placed, Posted, Heard, Keeps, HasRow, Submits,
       Submission, Preparing, Sending, Approving, Checking
  <2> QED
    BY <1>c, <2>1, <2>3, <2>5
<1>9. ASSUME NEW w \in Workers, RecordApproval(w) PROVE Goal
  <2>1. "approveInvoice" \in Label
    BY DEF Label
  <2>2. /\ WorkerTypeOK' /\ Alone(w) /\ pc[w] = "approve" /\ pc'[w] = "approveInvoice"
        /\ op'[w] = op[w] /\ inv'[w] = inv[w] /\ log'[w] = log[w] /\ attempt'[w] = attempt[w]
        /\ irnKnown' = [irnKnown EXCEPT ![log[w]] = TRUE] /\ UNCHANGED history
    BY <1>9, <2>1, GotoOK DEF RecordApproval
  <2>3. HasRow(w)
    BY <2>2 DEF HasRow, Approving
  <2>4. irnKnown'[log[w]]
    BY <1>f, <2>2, <2>3 DEF TypeOK, LogTypeOK
  <2>5. Fit(w)' /\ Keeps(w)
    BY <1>a, <1>f, <2>2, <2>3, <2>4 DEF Fit, Placed, Posted, Heard, Keeps, HasRow, Submits,
       Submission, Preparing, Sending, Approving, Checking, history
  <2> QED
    BY <1>c, <2>2, <2>5 DEF history
<1>10. ASSUME NEW w \in Workers, QueryApproved(w) PROVE Goal
  <2>1. "approve" \in Label
    BY DEF Label
  <2>2. /\ WorkerTypeOK' /\ Alone(w) /\ pc[w] = "query" /\ pc'[w] = "approve"
        /\ op'[w] = op[w] /\ inv'[w] = inv[w] /\ log'[w] = log[w] /\ attempt'[w] = attempt[w]
        /\ UNCHANGED <<logVars, history>>
    BY <1>10, <2>1, GotoOK DEF QueryApproved
  <2>3. HasRow(w) /\ op[w] = "check"
    BY <2>2 DEF HasRow, Checking, Fit, Placed
  <2>4. Fit(w)' /\ Keeps(w)
    BY <1>a, <1>f, <2>2, <2>3 DEF Fit, Placed, Posted, Heard, Keeps, HasRow, Submits, Submission,
       Preparing, Sending, Approving, Checking, logVars, history
  <2> QED
    BY <1>c, <2>2, <2>4 DEF history
<1>11. ASSUME NEW w \in Workers, QueryRejected(w) PROVE Goal
  <2>1. "reject" \in Label
    BY DEF Label
  <2>2. /\ WorkerTypeOK' /\ Alone(w) /\ pc[w] = "query" /\ pc'[w] = "reject"
        /\ op'[w] = op[w] /\ inv'[w] = inv[w] /\ log'[w] = log[w] /\ attempt'[w] = attempt[w]
        /\ ruled' = [ruled EXCEPT ![log[w]] = TRUE] /\ UNCHANGED <<logVars, registered, lost>>
    BY <1>11, <2>1, GotoOK DEF QueryRejected
  <2>3. HasRow(w) /\ op[w] = "check"
    BY <2>2 DEF HasRow, Checking, Fit, Placed
  <2>4. ruled'[log[w]]
    BY <1>f, <2>2, <2>3 DEF TypeOK, HistoryTypeOK
  <2>5. Fit(w)' /\ Keeps(w)
    BY <1>a, <1>f, <2>2, <2>3, <2>4 DEF Fit, Placed, Posted, Heard, Keeps, HasRow, Submits,
       Submission, Preparing, Sending, Approving, Checking, logVars
  <2> QED
    BY <1>c, <2>2, <2>5
<1>12. ASSUME NEW w \in Workers, RecordRejection(w) PROVE Goal
  <2>1. "rejectInvoice" \in Label
    BY DEF Label
  <2>2. /\ WorkerTypeOK' /\ Alone(w) /\ pc[w] = "reject" /\ pc'[w] = "rejectInvoice"
        /\ op'[w] = op[w] /\ inv'[w] = inv[w] /\ log'[w] = log[w] /\ attempt'[w] = attempt[w]
        /\ UNCHANGED <<irnKnown, history>>
    BY <1>12, <2>1, GotoOK DEF RecordRejection
  <2>3. HasRow(w) /\ op[w] = "check"
    BY <2>2 DEF HasRow, Checking, Fit, Placed
  <2>4. Fit(w)' /\ Keeps(w)
    BY <1>a, <1>f, <2>2, <2>3 DEF Fit, Placed, Posted, Heard, Keeps, HasRow, Submits, Submission,
       Preparing, Sending, Approving, Checking, history
  <2> QED
    BY <1>c, <2>2, <2>4 DEF history
<1>13. ASSUME NEW w \in Workers,
              NotFound(w) \/ LogFailure(w) \/ MarkFIRSApproved(w) \/ GiveUp(w) \/ QueryPending(w)
              \/ MarkFIRSRejected(w) \/ Cancel(w) \/ Delete(w) \/ OtherFails(w)
       PROVE  Goal
  <2>1. Leave(w) /\ UNCHANGED registered
    BY <1>13, <1>e DEF NotFound, LogFailure, MarkFIRSApproved, GiveUp, QueryPending,
       MarkFIRSRejected, Cancel, Delete, OtherFails, history
  <2> QED
    BY <1>d, <2>1
<1>14. CASE Crash
  <2>1. /\ WorkerTypeOK' /\ UNCHANGED <<rows, logInvoice, irnKnown, registered, ruled>>
        /\ \A v \in Workers : pc'[v] = "idle" /\ op'[v] = "none" /\ log'[v] = NoLog
                              /\ attempt'[v] = 0
    BY <1>14 DEF Crash, logVars, TypeOK, WorkerTypeOK, Label, Operation
  <2>2. \A v \in Workers : Fit(v)'
    BY <2>1 DEF Fit, Placed, Posted, Heard, HasRow, Submits, Submission, Preparing, Sending,
       Approving, Checking
  <2>3. Created'
    BY <2>1 DEF Created, Submits, Submission
  <2> QED
    BY <2>1, <2>2, <2>3 DEF Goal
<1>15. CASE UNCHANGED vars
  <2>1. UNCHANGED <<rows, logInvoice, irnKnown, registered, lost, ruled, pc, op, inv, log, attempt>>
    BY <1>15 DEF vars, logVars, history, workerVars
  <2>2. WorkerTypeOK' /\ \A v \in Workers : Fit(v)'
    BY <2>1 DEF TypeOK, WorkerTypeOK, Fit, Placed, Posted, Heard, HasRow, Submits
  <2>3. Created'
    BY <2>1 DEF Created, HasRow, Submits
  <2> QED
    BY <2>2, <2>3 DEF Goal
<1> QED
  BY <1>1, <1>2, <1>3, <1>4, <1>5, <1>6, <1>7, <1>8, <1>9, <1>10, <1>11, <1>12, <1>13, <1>14,
     <1>15, Alternatives DEF Fit

-----------------------------------------------------------------------------
\* In the initial states every worker is idle, no job is queued and no row exists.
LEMMA ControlInit == Init => Control
<1> SUFFICES ASSUME Init PROVE Control
  OBVIOUS
<1>1. InvoiceTypeOK /\ JobTypeOK /\ HistoryTypeOK
  BY DEF Init, InvoiceTypeOK, JobTypeOK, HistoryTypeOK, FirsStatus, InvoiceStatus, JobState
<1>2. LogTypeOK /\ WorkerTypeOK /\ requests \in 0..MaxRequests /\ faults \in 0..MaxFaults
  BY DEF Init, LogTypeOK, WorkerTypeOK, FirsStatus, Label, Operation
<1>3. Queued /\ Issued
  BY DEF Init, Queued, Issued
<1>4. Created
  BY DEF Init, Created, Submits, Submission, Logs
<1>5. \A w \in Workers : Fit(w)
  BY DEF Init, Fit, Placed, Posted, Heard, HasRow, Submits, Submission, Preparing, Sending,
     Approving, Checking
<1> QED
  BY <1>1, <1>2, <1>3, <1>4, <1>5 DEF Control, TypeOK

\* The bounds hold by the guards of the model.
LEMMA BoundsStep == ASSUME TypeOK, [Next]_vars
                    PROVE  requests' \in 0..MaxRequests /\ faults' \in 0..MaxFaults
<1> USE DEF TypeOK
<1>1. CASE UNCHANGED bounds
  BY <1>1 DEF bounds
<1>2. ASSUME NEW w, NEW i, StartRequest(w, i) PROVE requests' \in 0..MaxRequests /\ UNCHANGED faults
  BY <1>2 DEF StartRequest
<1>3. ASSUME NEW w, Post(w) \/ StatementFails(w)
      PROVE  UNCHANGED requests /\ faults' \in 0..MaxFaults
  BY <1>3 DEF Post, StatementFails
<1>4. CASE Crash
  BY <1>4 DEF Crash
<1>5. ASSUME NEW w, NEW i,
             Enqueue(i) \/ StartJob(w, i) \/ StartCancel(w, i) \/ StartDelete(w, i)
             \/ StartCheck(w, i) \/ Load(w) \/ LogFailure(w) \/ CreateLog(w) \/ RecordApproval(w)
             \/ MarkFIRSApproved(w) \/ RecordRefusal(w) \/ GiveUp(w) \/ Query(w)
             \/ RecordRejection(w) \/ MarkFIRSRejected(w) \/ Cancel(w) \/ Delete(w)
      PROVE  UNCHANGED bounds
  BY <1>5 DEF Enqueue, StartJob, StartCancel, StartDelete, StartCheck, Load, LogFailure,
     CreateLog, RecordApproval, MarkFIRSApproved, RecordRefusal, GiveUp, Query,
     RecordRejection, MarkFIRSRejected, Cancel, Delete
<1>6. CASE UNCHANGED vars
  BY <1>6 DEF vars, bounds
<1> HIDE DEF TypeOK
<1> QED
  BY <1>1, <1>2, <1>3, <1>4, <1>5, <1>6 DEF Next, Request, Step, StartPendingRequest, TypeOK

\* An IRN is recorded only by a worker that has heard of the registration.
LEMMA IssuedStep == ASSUME Control, [Next]_vars PROVE Issued'
<1> USE DEF Control
<1>1. LogTypeOK' /\ HistoryTypeOK' /\ LogsGrow
  BY LogStep
<1>2. ASSUME NEW l \in Logs, registered[l] > 0 PROVE registered'[l] > 0
  BY <1>1, <1>2 DEF LogsGrow, HistoryTypeOK, TypeOK
<1>3. CASE UNCHANGED irnKnown
  BY <1>2, <1>3 DEF Issued
<1>4. ASSUME NEW w \in Workers, RecordApproval(w) PROVE Issued'
  <2>1. log[w] \in Logs /\ registered[log[w]] > 0
    BY <1>4 DEF RecordApproval, Fit, Placed, Heard, HasRow, Approving, TypeOK, LogTypeOK, Logs
  <2>2. \A l \in Logs : irnKnown'[l] => irnKnown[l] \/ l = log[w]
    BY <1>4 DEF RecordApproval, TypeOK, LogTypeOK
  <2> QED
    BY <1>2, <2>1, <2>2 DEF Issued
<1>5. ASSUME NEW w, NEW i,
             Enqueue(i) \/ StartJob(w, i) \/ StartRequest(w, i) \/ StartCancel(w, i)
             \/ StartDelete(w, i) \/ StartCheck(w, i) \/ Load(w) \/ LogFailure(w) \/ CreateLog(w)
             \/ Post(w) \/ MarkFIRSApproved(w) \/ RecordRefusal(w) \/ GiveUp(w) \/ Query(w)
             \/ RecordRejection(w) \/ MarkFIRSRejected(w) \/ Cancel(w) \/ Delete(w)
             \/ StatementFails(w)
      PROVE  UNCHANGED irnKnown
  BY <1>5 DEF Enqueue, StartJob, StartRequest, StartCancel, StartDelete, StartCheck, Load,
     LogFailure, CreateLog, CreateRow, Post, MarkFIRSApproved, RecordRefusal, GiveUp, Query,
     RecordRejection, MarkFIRSRejected, Cancel, Delete, StatementFails, logVars
<1>6. CASE Crash \/ UNCHANGED vars
  BY <1>3, <1>6 DEF Crash, vars, logVars
<1> QED
  BY <1>3, <1>4, <1>5, <1>6 DEF Next, Request, Step, StartPendingRequest, Workers

\* Control is inductive.
LEMMA ControlStep == Control /\ [Next]_vars => Control'
<1> SUFFICES ASSUME Control, [Next]_vars PROVE Control'
  OBVIOUS
<1>1. TypeOK
  BY DEF Control
<1> QED
  BY <1>1, InvoiceStep, LogStep, QueueStep, WorkersStep, BoundsStep, IssuedStep
     DEF Control, TypeOK

\* The variables keep their types, for every instance of FIRSSubmission: no run of the
\* retry loop, retry of a job, restart or status check leaves the range of a column, of
\* a counter or of the log (FIRSService.submitInvoice and checkStatus).
THEOREM TypeCorrect == Spec => []TypeOK
<1>1. Control => TypeOK
  BY DEF Control
<1> QED
  BY <1>1, ControlInit, ControlStep, PTL DEF Spec

-----------------------------------------------------------------------------
(***************************************************************************)
(* What the database says of FIRS.                                         *)
(***************************************************************************)
\* FIRS registers documents only on the POST of a submission.
LEMMA RegisterOnPost ==
  ASSUME Control, [Next]_vars
  PROVE  UNCHANGED registered \/ \E w \in Workers : PostHeard(w) \/ PostLost(w)
<1> USE DEF Control
<1>1. ASSUME NEW w, NEW i,
             Enqueue(i) \/ StartJob(w, i) \/ StartRequest(w, i) \/ StartCancel(w, i)
             \/ StartDelete(w, i) \/ StartCheck(w, i)
      PROVE  UNCHANGED registered
  BY <1>1 DEF Enqueue, StartJob, StartRequest, StartCancel, StartDelete, StartCheck, history
<1>2. ASSUME NEW w,
             Loaded(w, "log") \/ Loaded(w, "invalid") \/ NotFound(w) \/ LogFailure(w)
             \/ CreateLog(w) \/ PostRefused(w) \/ PostUnheard(w) \/ RecordApproval(w)
             \/ MarkFIRSApproved(w) \/ RecordRefusal(w) \/ GiveUp(w) \/ QueryApproved(w)
             \/ QueryRejected(w) \/ QueryPending(w) \/ RecordRejection(w)
             \/ MarkFIRSRejected(w) \/ Cancel(w) \/ Delete(w) \/ RecordFails(w)
             \/ RefusalFails(w) \/ OtherFails(w)
      PROVE  UNCHANGED registered
  BY <1>2 DEF Loaded, NotFound, LogFailure, CreateLog, PostRefused, PostUnheard,
     RecordApproval, MarkFIRSApproved, RecordRefusal, GiveUp, QueryApproved, QueryRejected,
     QueryPending, RecordRejection, MarkFIRSRejected, Cancel, Delete, RecordFails,
     RefusalFails, OtherFails, history
<1>3. CASE Crash \/ UNCHANGED vars
  BY <1>3 DEF Crash, vars, history
<1> QED
  BY <1>1, <1>2, <1>3, Alternatives DEF Fit

\* A submission posts again only what it does not know to be registered.
LEMMA OneDocumentStep ==
  ASSUME Control, OneDocumentPerSubmission, [Next]_vars PROVE OneDocumentPerSubmission'
<1> USE DEF Control
<1>1. LogTypeOK' /\ HistoryTypeOK' /\ LogsGrow
  BY LogStep
<1>2. CASE UNCHANGED registered
  BY <1>1, <1>2 DEF OneDocumentPerSubmission, LogsGrow
<1>3. ASSUME NEW w \in Workers, PostHeard(w) \/ PostLost(w) PROVE OneDocumentPerSubmission'
  <2>1. HasRow(w) /\ Submits(w) /\ pc[w] \in Sending
    BY <1>3 DEF PostHeard, PostLost, HasRow, Fit, Placed, Sending
  <2>2. log[w] \in Logs /\ (registered[log[w]] > 0 => lost[log[w]])
    BY <2>1 DEF Fit, Placed, Posted, TypeOK, LogTypeOK, Logs
  <2>3. /\ \A l \in Logs : l # log[w] => registered'[l] = registered[l]
        /\ registered'[log[w]] = registered[log[w]] + 1
        /\ registered[log[w]] \in Nat
    BY <1>3, <2>2 DEF PostHeard, PostLost, TypeOK, HistoryTypeOK
  <2> QED
    BY <1>1, <2>2, <2>3 DEF OneDocumentPerSubmission, LogsGrow
<1> QED
  BY <1>2, <1>3, RegisterOnPost

\* Of an invoice, approved and rejected are written by a worker that has been told so.
LEMMA TruthStep == ASSUME Control, ApprovalTruthful, [Next]_vars PROVE ApprovalTruthful'
<1> USE DEF Control
<1>1. LogTypeOK' /\ HistoryTypeOK' /\ LogsGrow /\ Control'
  BY LogStep, ControlStep
<1>2. ASSUME NEW l \in Logs, registered[l] > 0 \/ ruled[l]
      PROVE  /\ logInvoice'[l] = logInvoice[l]
             /\ registered[l] > 0 => registered'[l] > 0
             /\ ruled[l] => ruled'[l]
  BY <1>1, <1>2 DEF LogsGrow, Created, TypeOK, LogTypeOK, HistoryTypeOK, Logs
<1>3. ASSUME NEW i \in Invoices, firs[i] = "approved"
      PROVE  \E l \in Logs : logInvoice'[l] = i /\ registered'[l] > 0
  BY <1>2, <1>3 DEF ApprovalTruthful, RowsOf
<1>4. ASSUME NEW i \in Invoices, firs[i] = "rejected"
      PROVE  \E l \in Logs : logInvoice'[l] = i /\ ruled'[l]
  BY <1>2, <1>4 DEF ApprovalTruthful, RowsOf
<1>5. ASSUME \A i \in Invoices : firs'[i] # firs[i] =>
                \/ firs'[i] = "approved" /\ \E l \in Logs : logInvoice'[l] = i /\ registered'[l] > 0
                \/ firs'[i] = "rejected" /\ \E l \in Logs : logInvoice'[l] = i /\ ruled'[l]
      PROVE  ApprovalTruthful'
  <2>1. ASSUME NEW i \in Invoices
        PROVE  /\ firs'[i] = "approved" => \E l \in Logs : logInvoice'[l] = i /\ registered'[l] > 0
               /\ firs'[i] = "rejected" => \E l \in Logs : logInvoice'[l] = i /\ ruled'[l]
    BY <1>3, <1>4, <1>5
  <2>2. \A l \in Logs : irnKnown'[l] => registered'[l] > 0
    BY <1>1 DEF Issued
  <2> QED
    BY <2>1, <2>2 DEF ApprovalTruthful, RowsOf
<1>6. ASSUME NEW w \in Workers, MarkFIRSApproved(w) \/ MarkFIRSRejected(w)
      PROVE  ApprovalTruthful'
  <2>1. /\ inv[w] \in Invoices /\ log[w] \in Logs /\ logInvoice[log[w]] = inv[w]
        /\ MarkFIRSApproved(w) => registered[log[w]] > 0
        /\ MarkFIRSRejected(w) => ruled[log[w]]
    BY <1>6 DEF MarkFIRSApproved, MarkFIRSRejected, Fit, Placed, Heard, HasRow, Approving,
       Checking, TypeOK, LogTypeOK, Logs
  <2>2. /\ \A i \in Invoices : i # inv[w] => firs'[i] = firs[i]
        /\ MarkFIRSApproved(w) => firs'[inv[w]] \in {firs[inv[w]], "approved"}
        /\ MarkFIRSRejected(w) => firs'[inv[w]] \in {firs[inv[w]], "rejected"}
    BY <1>6, <2>1 DEF MarkFIRSApproved, MarkFIRSRejected, SetInvoice, TypeOK, InvoiceTypeOK
  <2> QED
    BY <1>2, <1>5, <1>6, <2>1, <2>2
<1>7. CASE UNCHANGED firs
  BY <1>5, <1>7
<1>8. ASSUME NEW w \in Workers, Cancel(w) PROVE ApprovalTruthful'
  <2>1. \A i \in Invoices : firs'[i] = firs[i]
    BY <1>8 DEF Cancel, SetInvoice, TypeOK, InvoiceTypeOK
  <2> QED
    BY <1>5, <2>1
<1>9. ASSUME NEW w, NEW i,
             Enqueue(i) \/ StartJob(w, i) \/ StartRequest(w, i) \/ StartCancel(w, i)
             \/ StartDelete(w, i) \/ StartCheck(w, i) \/ Load(w) \/ LogFailure(w) \/ CreateLog(w)
             \/ Post(w) \/ RecordApproval(w) \/ RecordRefusal(w) \/ GiveUp(w) \/ Query(w)
             \/ RecordRejection(w) \/ Delete(w) \/ StatementFails(w)
      PROVE  UNCHANGED firs
  BY <1>9 DEF Enqueue, StartJob, StartRequest, StartCancel, StartDelete, StartCheck, Load,
     LogFailure, CreateLog, Post, RecordApproval, RecordRefusal, GiveUp, Query,
     RecordRejection, Delete, StatementFails, invoiceVars
<1>10. CASE Crash \/ UNCHANGED vars
  BY <1>7, <1>10 DEF Crash, vars, invoiceVars
<1> QED
  BY <1>6, <1>7, <1>8, <1>9, <1>10 DEF Next, Request, Step, StartPendingRequest, Workers

\* Who carries the news of a registration.
Carries(w, l) == Submits(w) /\ pc[w] \in Approving /\ log[w] = l

\* What is known stays known: no cancel, refusal or other submission hides it.
LEMMA KnownStays ==
  ASSUME Control, [Next]_vars, NEW l \in Logs, registered[l] > 0, Known(l) PROVE Known(l)'
<1>1. LogsGrow /\ InvoicesGrow
  BY LogStep, InvoiceStep
<1>2. l <= rows
  BY DEF Control, Created, TypeOK, LogTypeOK, HistoryTypeOK, Logs
<1>3. logInvoice[l] \in Invoices /\ logInvoice'[l] = logInvoice[l]
  BY <1>1, <1>2 DEF Control, Created, LogsGrow
<1> QED
  BY <1>1, <1>3 DEF Known, LogsGrow, InvoicesGrow

\* The news is passed on, written down or lost.
LEMMA NewsStays ==
  ASSUME Control, [Next]_vars, NEW w \in Workers, NEW l \in Logs, Carries(w, l)
  PROVE  Carries(w, l)' \/ Known(l)' \/ lost'[l]
<1> USE DEF Control
<1>1. /\ Submits(w) /\ pc[w] \in Approving /\ log[w] = l /\ HasRow(w)
      /\ inv[w] \in Invoices /\ logInvoice[l] = inv[w] /\ l <= rows
  BY DEF Carries, HasRow, Fit, Placed, TypeOK, LogTypeOK, Logs, Approving
<1>2. LogsGrow
  BY LogStep
<1>3. ASSUME NEW u \in Workers, u # w, Alone(u) PROVE Carries(w, l)'
  BY <1>1, <1>3 DEF Alone, Carries, Submits
<1>4. ASSUME NEW u \in Workers, pc[u] \notin Approving \/ ~Submits(u),
             Leave(u) \/ Catch(u) \/ \E label \in Label : Goto(u, label)
      PROVE  Carries(w, l)'
  <2>1. Alone(u)
    BY <1>4 DEF Leave, Catch, Goto, TypeOK, WorkerTypeOK, Alone
  <2> QED
    BY <1>1, <1>3, <1>4, <2>1
<1>5. ASSUME NEW i \in Invoices, Enqueue(i) PROVE Carries(w, l)'
  BY <1>1, <1>5 DEF Enqueue, workerVars, Carries, Submits
<1>6. ASSUME NEW u \in Workers, NEW i \in Invoices,
             StartJob(u, i) \/ StartRequest(u, i) \/ StartCancel(u, i) \/ StartDelete(u, i)
      PROVE  Carries(w, l)'
  <2>1. Alone(u) /\ pc[u] = "idle"
    BY <1>6, StartOK
  <2> QED
    BY <1>1, <1>3, <2>1 DEF Approving
<1>7. ASSUME NEW u \in Workers, NEW k \in Logs, StartCheck(u, k) PROVE Carries(w, l)'
  <2>1. Alone(u) /\ pc[u] = "idle"
    BY <1>7 DEF StartCheck, Begin, TypeOK, WorkerTypeOK, Alone
  <2> QED
    BY <1>1, <1>3, <2>1 DEF Approving
<1>8. ASSUME NEW u \in Workers,
             Loaded(u, "log") \/ Loaded(u, "invalid") \/ PostHeard(u) \/ PostRefused(u)
             \/ QueryApproved(u) \/ QueryRejected(u) \/ RecordRejection(u)
      PROVE  pc[u] \notin Approving /\ \E label \in Label : Goto(u, label)
  BY <1>8 DEF Loaded, PostHeard, PostRefused, QueryApproved, QueryRejected, RecordRejection,
     Label, Approving
<1>9. ASSUME NEW u \in Workers,
             NotFound(u) \/ LogFailure(u) \/ GiveUp(u) \/ QueryPending(u) \/ MarkFIRSRejected(u)
             \/ Cancel(u) \/ Delete(u) \/ OtherFails(u)
      PROVE  (pc[u] \notin Approving \/ ~Submits(u)) /\ Leave(u)
  BY <1>9 DEF NotFound, LogFailure, GiveUp, QueryPending, MarkFIRSRejected, Cancel, Delete,
     OtherFails, Return, Throw, Approving
<1>10. ASSUME NEW u \in Workers,
              PostLost(u) \/ PostUnheard(u) \/ RecordRefusal(u) \/ RefusalFails(u)
       PROVE  pc[u] \notin Approving /\ Catch(u)
  BY <1>10 DEF PostLost, PostUnheard, RecordRefusal, RefusalFails, Approving
<1>11. ASSUME NEW u \in Workers, CreateLog(u) PROVE Carries(w, l)'
  <2>1. Alone(u) /\ pc[u] = "log"
    BY <1>11 DEF CreateLog, TypeOK, WorkerTypeOK, Alone
  <2> QED
    BY <1>1, <1>3, <2>1 DEF Approving
<1>12. ASSUME NEW u \in Workers, RecordApproval(u) PROVE Carries(w, l)'
  <2>1. "approveInvoice" \in Label
    BY DEF Label
  <2>2. Alone(u) /\ pc'[u] = "approveInvoice" /\ op'[u] = op[u] /\ log'[u] = log[u]
    BY <1>12, <2>1, GotoOK DEF RecordApproval
  <2> QED
    BY <1>1, <1>3, <2>2 DEF Carries, Submits, Approving
<1>13. ASSUME NEW u \in Workers, MarkFIRSApproved(u) PROVE Carries(w, l)' \/ Known(l)'
  <2>1. CASE u # w
    <3>1. Alone(u)
      BY <1>13, LeaveOK DEF MarkFIRSApproved, Return
    <3> QED
      BY <1>3, <2>1, <3>1
  <2>2. CASE u = w
    <3>1. irnKnown[l]
      BY <1>1, <1>13, <2>2 DEF MarkFIRSApproved, Fit, Heard
    <3>2. firs'[inv[w]] = "approved" \/ deleted'[inv[w]]
      BY <1>1, <1>13, <2>2 DEF MarkFIRSApproved, SetInvoice, TypeOK, InvoiceTypeOK
    <3> QED
      BY <1>1, <1>2, <3>1, <3>2 DEF Known, LogsGrow
  <2> QED
    BY <2>1, <2>2
<1>14. ASSUME NEW u \in Workers, RecordFails(u) PROVE Carries(w, l)' \/ lost'[l]
  <2>1. CASE u # w
    <3>1. Alone(u)
      BY <1>14 DEF RecordFails, Catch, TypeOK, WorkerTypeOK, Alone
    <3> QED
      BY <1>3, <2>1, <3>1
  <2>2. CASE u = w
    BY <1>1, <1>14, <2>2 DEF RecordFails, TypeOK, HistoryTypeOK
  <2> QED
    BY <2>1, <2>2
<1>15. CASE Crash
  <2>1. Unrecorded(w)
    BY <1>1 DEF Unrecorded, Submits, Submission, Approving
  <2> QED
    BY <1>1, <1>15, <2>1 DEF Crash, Lose
<1>16. CASE UNCHANGED vars
  BY <1>1, <1>16 DEF vars, workerVars, Carries, Submits
<1> QED
  BY <1>4, <1>5, <1>6, <1>7, <1>8, <1>9, <1>10, <1>11, <1>12, <1>13, <1>14, <1>15, <1>16,
     Alternatives DEF Fit

\* The news of every registration is written down, carried or lost.
LEMMA CarriedStep == ASSUME Control, Carried, [Next]_vars PROVE Carried'
<1> USE DEF Control
<1> SUFFICES ASSUME NEW l \in Logs, registered'[l] > 0, ~lost'[l]
             PROVE  Known(l)' \/ \E w \in Workers : Carries(w, l)'
  BY DEF Carried, Carries, Submits
<1>1. ~lost[l]
  BY LogStep DEF LogsGrow
<1>2. CASE registered[l] > 0
  <2>1. Known(l) \/ \E w \in Workers : Carries(w, l)
    BY <1>1, <1>2 DEF Carried, Carries
  <2> QED
    BY <1>2, <2>1, KnownStays, NewsStays
<1>3. CASE ~(registered[l] > 0)
  <2>1. PICK w \in Workers : PostHeard(w) \/ PostLost(w)
    BY <1>3, RegisterOnPost
  <2>2. log[w] = l /\ Submits(w)
    BY <1>3, <2>1 DEF PostHeard, PostLost, TypeOK, HistoryTypeOK, Fit, Placed, Sending
  <2>3. CASE PostHeard(w)
    <3>1. "approve" \in Label
      BY DEF Label
    <3>2. pc'[w] = "approve" /\ op'[w] = op[w] /\ log'[w] = log[w]
      BY <2>3, <3>1, GotoOK DEF PostHeard
    <3> QED
      BY <2>2, <3>2 DEF Carries, Submits, Approving
  <2>4. CASE PostLost(w)
    BY <2>2, <2>4 DEF PostLost, TypeOK, HistoryTypeOK
  <2> QED
    BY <2>1, <2>3, <2>4
<1> QED
  BY <1>2, <1>3

-----------------------------------------------------------------------------
\* What the columns of an invoice and of its log rows say of FIRS is true, for every
\* interleaving of submissions, status checks, cancels, failures and restarts
\* (submitToFIRS, checkStatus, markFIRSApproved, markFIRSRejected).
THEOREM ApprovalIsTrue == Spec => []ApprovalTruthful
<1>1. Init => ApprovalTruthful
  BY DEF Init, ApprovalTruthful
<1> QED
  BY <1>1, ControlInit, ControlStep, TruthStep, PTL DEF Spec

\* A submission has at most one document registered unless a reply or a record was lost
\* (the retry loop of submitInvoice).
THEOREM OneDocument == Spec => []OneDocumentPerSubmission
<1>1. Init => OneDocumentPerSubmission
  BY DEF Init, OneDocumentPerSubmission
<1> QED
  BY <1>1, ControlInit, ControlStep, OneDocumentStep, PTL DEF Spec

\* An accepted invoice is known to be accepted once nobody works on its row, unless the
\* word of FIRS was lost (submitInvoice against cancel, delete and other submissions).
THEOREM AcceptanceIsKnown == Spec => []AcceptanceKnown
<1>1. Init => Carried
  BY DEF Init, Carried
<1>2. Carried => AcceptanceKnown
  BY DEF Carried, AcceptanceKnown, Known
<1> QED
  BY <1>1, <1>2, ControlInit, ControlStep, CarriedStep, PTL DEF Spec
=============================================================================
