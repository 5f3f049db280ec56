--------------------------- MODULE PaymentLedger ---------------------------
(***************************************************************************)
(* Payment transactions and the invoices they pay                          *)
(* (src/src/models/Transaction.ts, src/src/models/Invoice.ts).             *)
(*                                                                         *)
(* A worker is one request handler in flight.  A handler is cut at every   *)
(* await that reaches PostgreSQL, and keeps what it read in local state.   *)
(* Two kinds of connection matter: completeTransaction, refundTransaction  *)
(* and createTransaction check a client out of the pool for their whole    *)
(* run, and issue their reads, and the write of the invoice, on a second   *)
(* connection of the same pool, outside their own database transaction.    *)
(*                                                                         *)
(* Amounts are whole units of money.  net and tainted are history: they    *)
(* record what the handlers did and no action reads them.                  *)
(* Definitions marked Slip are not part of the specification: each is a    *)
(* plausible mistake that a property below has to notice.                  *)
(***************************************************************************)
EXTENDS Integers, FiniteSets

CONSTANTS
    Workers,        \* concurrent request handlers
    Txns,           \* rows of transactions
    Invoices,       \* rows of invoices
    NoInvoice,      \* invoice_id of a transaction that pays no invoice
    NoWorker,       \* owner of a row that no open transaction has updated
    NoTxn,          \* transaction of a worker that handles no request
    InvoiceOf,      \* transactions.invoice_id
    Amount,         \* transactions.amount
    Total,          \* invoices.total_amount
    PoolSize,       \* DB_MAX_CONNECTIONS
    MaxFaults       \* bound on statements that fail and handlers that die

\* The request schemas admit only positive amounts, quantities and prices.
ASSUME LedgerAssumption ==
    /\ NoInvoice \notin Invoices
    /\ NoWorker \notin Workers
    /\ NoTxn \notin Txns
    /\ InvoiceOf \in [Txns -> Invoices \cup {NoInvoice}]
    /\ Amount \in [Txns -> Nat \ {0}]
    /\ Total \in [Invoices -> Nat \ {0}]
    /\ PoolSize \in Nat \ {0}
    /\ MaxFaults \in Nat

VARIABLES
    status,         \* transactions.status, "absent" before the row is inserted
    reconciled,     \* transactions.reconciled
    rowOwner,       \* worker whose open transaction has updated the row
    amountPaid, balanceDue, paymentStatus, paidAt,     \* columns of invoices
    due,            \* due_date < NOW()
    deleted,        \* deleted_at IS NOT NULL
    pc, op, arg,    \* what each worker is at, its request, its transaction
    seenPaid,       \* amount_paid as the worker read it
    faults,
    net,            \* times the amount was applied to the invoice, net of reversals
    tainted         \* an application out of step with the row's status happened

txnVars     == <<status, reconciled, rowOwner>>
invoiceVars == <<amountPaid, balanceDue, paymentStatus, paidAt>>
calendar    == <<due, deleted>>
workerVars  == <<pc, op, arg, seenPaid>>
history     == <<net, tainted>>
vars == <<txnVars, invoiceVars, calendar, workerVars, faults, history>>

Operation == {"none", "create", "complete", "refund", "fail", "reconcile"}
TxnStatus == {"absent", "pending", "completed", "failed", "refunded"}
PaymentStatus == {"unpaid", "partial", "paid", "overdue"}
Label == {"idle", "reference", "insert",
          "read", "update", "invoice", "write", "commit",
          "connect", "statement"}

\* Labels at which the worker has a connection checked out.
Holding == {"reference", "insert", "read", "update", "invoice", "write",
            "commit", "statement"}

\* Labels from which the next await needs a connection from the pool.
NeedsPool == {"reference", "read", "invoice", "write", "connect"}

Free == Cardinality({w \in Workers : pc[w] \in Holding}) < PoolSize

-----------------------------------------------------------------------------
Init ==
    /\ status = [t \in Txns |-> "absent"]
    /\ reconciled = [t \in Txns |-> FALSE]
    /\ rowOwner = [t \in Txns |-> NoWorker]
    /\ amountPaid = [i \in Invoices |-> 0]
    /\ balanceDue = Total
    /\ paymentStatus = [i \in Invoices |-> "unpaid"]
    /\ paidAt = [i \in Invoices |-> FALSE]
    /\ due = [i \in Invoices |-> FALSE]
    /\ deleted = [i \in Invoices |-> FALSE]
    /\ pc = [w \in Workers |-> "idle"]
    /\ op = [w \in Workers |-> "none"]
    /\ arg = [w \in Workers |-> NoTxn]
    /\ seenPaid = [w \in Workers |-> 0]
    /\ faults = 0
    /\ net = [t \in Txns |-> 0]
    /\ tainted = [t \in Txns |-> FALSE]

\* On to the next await, with the handler's local state kept.
Goto(w, label) ==
    /\ pc' = [pc EXCEPT ![w] = label]
    /\ UNCHANGED <<op, arg, seenPaid>>

\* The handler returns or throws, and its local state is gone.
Finish(w) ==
    /\ pc' = [pc EXCEPT ![w] = "idle"]
    /\ op' = [op EXCEPT ![w] = "none"]
    /\ arg' = [arg EXCEPT ![w] = NoTxn]
    /\ seenPaid' = [seenPaid EXCEPT ![w] = 0]

Accept(w, o, t, label) ==
    /\ pc[w] = "idle"
    /\ Free
    /\ op' = [op EXCEPT ![w] = o]
    /\ arg' = [arg EXCEPT ![w] = t]
    /\ pc' = [pc EXCEPT ![w] = label]
    /\ UNCHANGED seenPaid

(***************************************************************************)
(* createTransaction: the controller finds the invoice, BEGIN on a client, *)
(* generateReference on the pool, INSERT and COMMIT on the client.         *)
(***************************************************************************)
StartCreate(w, t) ==
    /\ status[t] = "absent"
    /\ \A v \in Workers : pc[v] \in {"reference", "insert"} => arg[v] # t
    /\ InvoiceOf[t] \in Invoices => ~deleted[InvoiceOf[t]]
    /\ Accept(w, "create", t, "reference")
    /\ UNCHANGED <<txnVars, invoiceVars, calendar, faults, history>>

GenerateReference(w) ==
    /\ pc[w] = "reference"
    /\ Free
    /\ Goto(w, "insert")
    /\ UNCHANGED <<txnVars, invoiceVars, calendar, faults, history>>

CommitCreate(w) ==
    /\ pc[w] = "insert"
    /\ status' = [status EXCEPT ![arg[w]] = "pending"]
    /\ Finish(w)
    /\ UNCHANGED <<reconciled, rowOwner, invoiceVars, calendar, faults, history>>

(***************************************************************************)
(* completeTransaction and refundTransaction have one shape: they differ   *)
(* in the status they demand, the status they write and the sign of the    *)
(* amount they apply.                                                      *)
(***************************************************************************)
\* Slip: a refund is applied as a payment.
SignUnsigned(o) == 1

Demanded(o) == IF o = "complete" THEN "pending" ELSE "completed"
Written(o)  == IF o = "complete" THEN "completed" ELSE "refunded"
Sign(o)     == IF o = "complete" THEN 1 ELSE -1

\* BEGIN on a client of its own.
StartSettle(w, o, t) ==
    /\ o \in {"complete", "refund"}
    /\ status[t] # "absent"
    /\ Accept(w, o, t, "read")
    /\ UNCHANGED <<txnVars, invoiceVars, calendar, faults, history>>

\* findById runs on the pool and locks nothing; a wrong status throws and the
\* handler rolls back.
ReadTxn(w) ==
    /\ pc[w] = "read"
    /\ Free
    /\ \/ status[arg[w]] = Demanded(op[w]) /\ Goto(w, "update")
       \/ status[arg[w]] # Demanded(op[w]) /\ Finish(w)
    /\ UNCHANGED <<txnVars, invoiceVars, calendar, faults, history>>

\* Slip: the write does not wait for the transaction that holds the row.
UpdateTxnUnlocked(w) ==
    /\ pc[w] = "update"
    /\ rowOwner' = [rowOwner EXCEPT ![arg[w]] = w]
    /\ tainted' = [tainted EXCEPT ![arg[w]] =
                     @ \/ ((status[arg[w]] = "completed") # (op[w] = "refund"))]
    /\ Goto(w, IF InvoiceOf[arg[w]] = NoInvoice THEN "commit" ELSE "invoice")
    /\ UNCHANGED <<status, reconciled, invoiceVars, calendar, faults, net>>

\* UPDATE ... WHERE id on the client: waits for the row, then overwrites whatever
\* status it finds.  The new status stays invisible until COMMIT.
UpdateTxn(w) ==
    /\ pc[w] = "update"
    /\ rowOwner[arg[w]] = NoWorker
    /\ rowOwner' = [rowOwner EXCEPT ![arg[w]] = w]
    /\ tainted' = [tainted EXCEPT ![arg[w]] =
                     @ \/ ((status[arg[w]] = "completed") # (op[w] = "refund"))]
    /\ Goto(w, IF InvoiceOf[arg[w]] = NoInvoice THEN "commit" ELSE "invoice")
    /\ UNCHANGED <<status, reconciled, invoiceVars, calendar, faults, net>>

Release(w) ==
    rowOwner' = [t \in Txns |-> IF rowOwner[t] = w THEN NoWorker ELSE rowOwner[t]]

\* Slip: a missing invoice is passed over, as the repository's version does.
ReadInvoiceLenient(w) ==
    /\ pc[w] = "invoice"
    /\ Free
    /\ LET i == InvoiceOf[arg[w]] IN
         \/ /\ ~deleted[i]
            /\ seenPaid' = [seenPaid EXCEPT ![w] = amountPaid[i]]
            /\ pc' = [pc EXCEPT ![w] = "write"]
            /\ UNCHANGED <<op, arg>>
         \/ deleted[i] /\ Goto(w, "commit")
    /\ UNCHANGED <<txnVars, invoiceVars, calendar, faults, history>>

\* updatePaymentStatus, first half: findById on the pool.
ReadInvoice(w) ==
    /\ pc[w] = "invoice"
    /\ Free
    /\ LET i == InvoiceOf[arg[w]] IN
         \/ /\ ~deleted[i]
            /\ seenPaid' = [seenPaid EXCEPT ![w] = amountPaid[i]]
            /\ pc' = [pc EXCEPT ![w] = "write"]
            /\ UNCHANGED <<rowOwner, op, arg>>
         \/ /\ deleted[i]
            /\ Finish(w)
            /\ Release(w)
    /\ UNCHANGED <<status, reconciled, invoiceVars, calendar, faults, history>>

\* Slip: a status the column does not know.
PaymentStatusBeyond(paid, total) ==
    IF total - paid < 0 THEN "overpaid" ELSE
    IF total - paid = 0 THEN "paid" ELSE IF paid > 0 THEN "partial" ELSE "unpaid"

PaymentStatusOf(paid, total) ==
    IF total - paid <= 0 THEN "paid" ELSE IF paid > 0 THEN "partial" ELSE "unpaid"

\* updatePaymentStatus, second half: an UPDATE of its own, committed at once,
\* computed from the amount read before.
WriteInvoice(w) ==
    /\ pc[w] = "write"
    /\ Free
    /\ LET i    == InvoiceOf[arg[w]]
           paid == seenPaid[w] + Sign(op[w]) * Amount[arg[w]]
       IN \/ /\ ~deleted[i]
             /\ amountPaid' = [amountPaid EXCEPT ![i] = paid]
             /\ balanceDue' = [balanceDue EXCEPT ![i] = Total[i] - paid]
             /\ paymentStatus' = [paymentStatus EXCEPT ![i] = PaymentStatusOf(paid, Total[i])]
             /\ paidAt' = [paidAt EXCEPT ![i] = @ \/ PaymentStatusOf(paid, Total[i]) = "paid"]
             /\ net' = [net EXCEPT ![arg[w]] = @ + Sign(op[w])]
             /\ Goto(w, "commit")
             /\ UNCHANGED rowOwner
          \/ /\ deleted[i]
             /\ Finish(w)
             /\ Release(w)
             /\ UNCHANGED <<invoiceVars, net>>
    /\ UNCHANGED <<status, reconciled, calendar, faults, tainted>>

CommitSettle(w) ==
    /\ pc[w] = "commit"
    /\ status' = [status EXCEPT ![arg[w]] = Written(op[w])]
    /\ Release(w)
    /\ Finish(w)
    /\ UNCHANGED <<reconciled, invoiceVars, calendar, faults, history>>

(***************************************************************************)
(* failTransaction and reconcile: a read on the pool, then one UPDATE on   *)
(* the pool, which keeps its connection while it waits for the row.        *)
(***************************************************************************)
StartAuto(w, o, t) ==
    /\ o \in {"fail", "reconcile"}
    /\ status[t] # "absent"
    /\ Accept(w, o, t, "connect")
    /\ UNCHANGED <<txnVars, invoiceVars, calendar, faults, history>>

Connect(w) ==
    /\ pc[w] = "connect"
    /\ Free
    /\ Goto(w, "statement")
    /\ UNCHANGED <<txnVars, invoiceVars, calendar, faults, history>>

\* failTransaction looks at no status.
FailTxn(w) ==
    /\ pc[w] = "statement"
    /\ op[w] = "fail"
    /\ rowOwner[arg[w]] = NoWorker
    /\ status' = [status EXCEPT ![arg[w]] = "failed"]
    /\ tainted' = [tainted EXCEPT ![arg[w]] = @ \/ status[arg[w]] = "completed"]
    /\ Finish(w)
    /\ UNCHANGED <<reconciled, rowOwner, invoiceVars, calendar, faults, net>>

Reconcile(w) ==
    /\ pc[w] = "statement"
    /\ op[w] = "reconcile"
    /\ rowOwner[arg[w]] = NoWorker
    /\ reconciled' = [reconciled EXCEPT ![arg[w]] = @ \/ status[arg[w]] = "completed"]
    /\ Finish(w)
    /\ UNCHANGED <<status, rowOwner, invoiceVars, calendar, faults, history>>

\* Slip: connectionTimeoutMillis = 0, which waits for ever.
ConnectionNeverTimesOut(w) ==
    /\ pc[w] \in NeedsPool
    /\ FALSE
    /\ UNCHANGED vars

(***************************************************************************)
(* Failures.  pool.connect gives up after connectionTimeoutMillis when the *)
(* pool stays exhausted; a statement may fail and the process may die.     *)
(* Each time the database drops the open transaction, but the invoice      *)
(* UPDATE has already been committed on a connection of its own.           *)
(***************************************************************************)
Abandon(w) ==
    /\ Release(w)
    /\ Finish(w)
    /\ tainted' = [tainted EXCEPT ![arg[w]] =
                     @ \/ (pc[w] = "commit" /\ InvoiceOf[arg[w]] # NoInvoice)]
    /\ UNCHANGED <<status, reconciled, invoiceVars, calendar, net>>

ConnectionTimeout(w) ==
    /\ pc[w] \in NeedsPool
    /\ ~Free
    /\ Abandon(w)
    /\ UNCHANGED faults

Fault(w) ==
    /\ pc[w] # "idle"
    /\ faults < MaxFaults
    /\ faults' = faults + 1
    /\ Abandon(w)

-----------------------------------------------------------------------------
\* The due date of an invoice passes.
FallDue(i) ==
    /\ ~due[i]
    /\ due' = [due EXCEPT ![i] = TRUE]
    /\ UNCHANGED <<txnVars, invoiceVars, deleted, workerVars, faults, history>>

\* PUT /invoices/:id gives the invoice a later due date, and touches no status.
Postpone(i) ==
    /\ Free
    /\ due[i]
    /\ ~deleted[i]
    /\ due' = [due EXCEPT ![i] = FALSE]
    /\ UNCHANGED <<txnVars, invoiceVars, deleted, workerVars, faults, history>>

\* Slip: every invoice past its date, whatever it owes.
MarkOverdueAll ==
    /\ Free
    /\ paymentStatus' = [i \in Invoices |->
                           IF due[i] /\ ~deleted[i] THEN "overdue" ELSE paymentStatus[i]]
    /\ UNCHANGED <<txnVars, amountPaid, balanceDue, paidAt, calendar, workerVars,
                   faults, history>>

\* One UPDATE over every invoice that is due and still owes something.
MarkOverdue ==
    /\ Free
    /\ paymentStatus' =
         [i \in Invoices |->
            IF due[i] /\ ~deleted[i] /\ paymentStatus[i] \in {"unpaid", "partial"}
            THEN "overdue" ELSE paymentStatus[i]]
    /\ UNCHANGED <<txnVars, amountPaid, balanceDue, paidAt, calendar, workerVars,
                   faults, history>>

\* DELETE /invoices/:id; the FIRS status it looks at belongs to FIRSSubmission.
DeleteInvoice(i) ==
    /\ Free
    /\ ~deleted[i]
    /\ deleted' = [deleted EXCEPT ![i] = TRUE]
    /\ UNCHANGED <<txnVars, invoiceVars, due, workerVars, faults, history>>

Start(w) ==
    \E t \in Txns :
        \/ StartCreate(w, t)
        \/ \E o \in {"complete", "refund"} : StartSettle(w, o, t)
        \/ \E o \in {"fail", "reconcile"} : StartAuto(w, o, t)

\* Awaits that need a connection: served, or timed out when there is none.
PoolStep(w) ==
    \/ GenerateReference(w) \/ ReadTxn(w) \/ ReadInvoice(w) \/ WriteInvoice(w)
    \/ Connect(w) \/ ConnectionTimeout(w)

\* Statements that may have to wait for a row.
RowStep(w) == UpdateTxn(w) \/ FailTxn(w) \/ Reconcile(w)

CommitStep(w) == CommitCreate(w) \/ CommitSettle(w)

Next ==
    \/ \E w \in Workers :
         Start(w) \/ PoolStep(w) \/ RowStep(w) \/ CommitStep(w) \/ Fault(w)
    \/ \E i \in Invoices : FallDue(i) \/ Postpone(i) \/ DeleteInvoice(i)
    \/ MarkOverdue

Spec == Init /\ [][Next]_vars

(***************************************************************************)
(* node-pg serves its queue of waiters in order or times them out,         *)
(* PostgreSQL grants a row lock in order of arrival, and a COMMIT needs    *)
(* nobody else.  Nothing obliges a client to send a request.               *)
(***************************************************************************)
Fairness ==
    \A w \in Workers :
        WF_vars(PoolStep(w)) /\ SF_vars(RowStep(w)) /\ WF_vars(CommitStep(w))

FairSpec == Spec /\ Fairness

-----------------------------------------------------------------------------
TxnTypeOK ==
    /\ status \in [Txns -> TxnStatus]
    /\ reconciled \in [Txns -> BOOLEAN]
    /\ rowOwner \in [Txns -> Workers \cup {NoWorker}]

InvoiceTypeOK ==
    /\ amountPaid \in [Invoices -> Int]
    /\ balanceDue \in [Invoices -> Int]
    /\ paymentStatus \in [Invoices -> PaymentStatus]
    /\ paidAt \in [Invoices -> BOOLEAN]

CalendarTypeOK ==
    /\ due \in [Invoices -> BOOLEAN]
    /\ deleted \in [Invoices -> BOOLEAN]

WorkerTypeOK ==
    /\ pc \in [Workers -> Label]
    /\ op \in [Workers -> Operation]
    /\ arg \in [Workers -> Txns \cup {NoTxn}]
    /\ seenPaid \in [Workers -> Int]

HistoryTypeOK ==
    /\ net \in [Txns -> Int]
    /\ tainted \in [Txns -> BOOLEAN]

\* Every variable ranges over the values the code can give it.
TypeOK ==
    /\ TxnTypeOK /\ InvoiceTypeOK /\ CalendarTypeOK /\ WorkerTypeOK /\ HistoryTypeOK
    /\ faults \in 0..MaxFaults

\* Whatever the interleaving of payments, refunds and overdue sweeps, the four
\* money columns of an invoice tell one story: the balance is what is left of the
\* total, a paid invoice owes nothing and has its date, and an invoice that owes
\* something is never called paid (updatePaymentStatus, markOverdue).
InvoiceConsistent ==
    \A i \in Invoices :
        /\ balanceDue[i] = Total[i] - amountPaid[i]
        /\ paymentStatus[i] = "paid" <=> balanceDue[i] <= 0
        /\ paymentStatus[i] = "partial" => amountPaid[i] > 0
        /\ paymentStatus[i] = "unpaid" => amountPaid[i] <= 0
        /\ paymentStatus[i] = "paid" => paidAt[i]

\* The amount of t counts in its invoice: t is completed, or a handler has written
\* the invoice and not yet committed the status.
Counted(t) ==
    IF \E w \in Workers : rowOwner[t] = w /\ pc[w] = "commit"
    THEN op[rowOwner[t]] = "complete"
    ELSE status[t] = "completed"

\* A transaction is in its invoice exactly when its status says so.  The only ways
\* out are the three recorded in tainted: an UPDATE that overtook the status its
\* guard had read, a handler lost between the invoice write and COMMIT, and
\* failTransaction on a completed row.
CreditMatchesStatus ==
    \A t \in Txns :
        ~tainted[t] /\ InvoiceOf[t] \in Invoices =>
            net[t] = (IF Counted(t) THEN 1 ELSE 0)

\* The row lock that a handler holds from its UPDATE to its COMMIT also serialises
\* the unlocked read and write of the invoice, so an invoice paid by one transaction
\* never loses a write, however many requests, faults and refunds there are.
SinglePayerExact ==
    \A t \in Txns :
        /\ InvoiceOf[t] \in Invoices
        /\ \A u \in Txns : InvoiceOf[u] = InvoiceOf[t] => u = t
        => amountPaid[InvoiceOf[t]] = net[t] * Amount[t]

\* Every request is answered: exhausting the pool or queueing on a row delays a
\* handler and never parks it for good.
HandlersFinish ==
    \A w \in Workers : pc[w] # "idle" ~> pc[w] = "idle"

-----------------------------------------------------------------------------
\* The requests that have written invoice i and not yet committed their status.
Committing(i) == {w \in Workers : pc[w] = "commit" /\ InvoiceOf[arg[w]] = i}

\* Money already on the invoice for a status that is not committed yet, as long as
\* requests come one at a time.
Uncommitted(i) ==
    IF Committing(i) = {} THEN 0
    ELSE LET w == CHOOSE v \in Committing(i) : TRUE IN Sign(op[w]) * Amount[arg[w]]

\* What a client that waits for each answer takes an invoice to have received.
Settled == [i \in Invoices |-> amountPaid[i] - Uncommitted(i)]

Abstract == INSTANCE Ledger WITH standing <- status, paid <- Settled

\* One request at a time, the handlers implement Ledger: completing or refunding a
\* transaction moves its status and its money in one step as far as a client can
\* tell, whatever statement fails (completeTransaction, refundTransaction).
ImplementsLedger == Abstract!Spec
=============================================================================
