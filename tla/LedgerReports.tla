--------------------------- MODULE LedgerReports ---------------------------
(***************************************************************************)
(* What a business is told about its money: the reports that the database  *)
(* computes, each in one statement, over the rows of PaymentLedger         *)
(* (src/src/repositories/InvoiceRepository.ts,                             *)
(* src/src/repositories/TransactionRepository.ts).  All rows belong to one *)
(* business and fall into the period that is asked for.                    *)
(*                                                                         *)
(* The ages of debts are counted in half days since the due date, so that  *)
(* 60 is exactly 30 days and 61 is between 30 and 31 days.                 *)
(* Definitions marked Slip are not part of the specification: each is a    *)
(* plausible mistake that ReportsAgree has to notice.                      *)
(***************************************************************************)
EXTENDS PaymentLedger, Functions

CONSTANTS
    Methods,        \* payment methods
    MethodOf,       \* transactions.payment_method
    Ages            \* ages of debts to be tried, in half days

ASSUME ReportsAssumption ==
    /\ IsFiniteSet(Txns) /\ IsFiniteSet(Invoices) /\ IsFiniteSet(Methods)
    /\ MethodOf \in [Txns -> Methods]
    /\ Ages \subseteq Int

SumOver(f, S) == SumFunctionOnSet(f, S)

-----------------------------------------------------------------------------
\* Invoices: GET /invoices/stats and GET /invoices/aging.

Listed == {i \in Invoices : ~deleted[i]}

\* Slip: the condition deleted_at IS NULL is forgotten.
StatisticsOfAll ==
    [total       |-> SumOver(Total, Invoices),
     paid        |-> SumOver(amountPaid, Invoices),
     outstanding |-> SumOver(balanceDue, Invoices)]

Statistics ==
    [total       |-> SumOver(Total, Listed),
     paid        |-> SumOver(amountPaid, Listed),
     outstanding |-> SumOver(balanceDue, Listed)]

\* Slip: days_31_60 begins where days_1_30 ends.
AgingReportAdjacent(age) ==
    LET Owed(late) ==
          SumOver(balanceDue, {i \in Listed : /\ paymentStatus[i] \in {"unpaid", "partial"}
                                              /\ age[i] \in late})
    IN <<Owed({n \in Int : n <= 0}), Owed(0..60), Owed(60..120), Owed(122..180),
         Owed({n \in Int : n > 180})>>

\* The columns current, days_1_30, days_31_60, days_61_90 and days_90_plus: BETWEEN
\* includes both of its bounds.
AgingReport(age) ==
    LET Owed(late) ==
          SumOver(balanceDue, {i \in Listed : /\ paymentStatus[i] \in {"unpaid", "partial"}
                                              /\ age[i] \in late})
    IN <<Owed({n \in Int : n <= 0}), Owed(0..60), Owed(62..120), Owed(122..180),
         Owed({n \in Int : n > 180})>>

-----------------------------------------------------------------------------
\* Transactions: the reports under GET /transactions, by payment method.

With(m, statuses) == {t \in Txns : MethodOf[t] = m /\ status[t] \in statuses}

DailySummary(m) ==
    [completed |-> SumOver(Amount, With(m, {"completed"})),
     pending   |-> SumOver(Amount, With(m, {"pending"})),
     failed    |-> SumOver(Amount, With(m, {"failed"}))]

\* This one adds up all methods, and its total every status.
MonthlySummary ==
    LET rows == {t \in Txns : status[t] # "absent"} IN
    [total     |-> SumOver(Amount, rows),
     completed |-> SumOver(Amount, {t \in rows : status[t] = "completed"})]

ReconciliationReport(m) ==
    LET rows == With(m, {"completed"}) IN
    [expected     |-> SumOver(Amount, rows),
     reconciled   |-> SumOver(Amount, {t \in rows : reconciled[t]}),
     unreconciled |-> SumOver(Amount, {t \in rows : ~reconciled[t]})]

\* The list behind the report, over all methods.
Unreconciled == {t \in Txns : ~reconciled[t] /\ status[t] = "completed"}

-----------------------------------------------------------------------------
AllMethods(column) == SumOver(column, Methods)

\* The invoices fell due when the calendar says.
Calendars == {age \in [Invoices -> Ages] : \A i \in Invoices : due[i] <=> age[i] > 0}

\* No bucket has the debts that are 30 to 31 or 60 to 61 days late, two have one that
\* falls due this instant, and none has an invoice once the sweep has marked it.
AgingAccounts ==
    \A age \in Calendars :
        LET report    == AgingReport(age)
            counted   == report[1] + report[2] + report[3] + report[4] + report[5]
            Debt(S)   == SumOver(balanceDue, Listed \cap S)
            open      == {i \in Invoices : paymentStatus[i] \in {"unpaid", "partial"}}
        IN Statistics.outstanding =
             counted + Debt(Invoices \ open) + Debt({i \in open : age[i] \in {61, 121}})
                     - Debt({i \in open : age[i] = 0})

\* The money on the invoices is the money of the completed payments, when the
\* invoices that were deleted and the payments of no invoice are counted in.
CollectedAccounts ==
    (\A t \in Txns : ~tainted[t]) =>
        AllMethods([m \in Methods |-> DailySummary(m).completed]) =
            Statistics.paid
            + SumOver(amountPaid, Invoices \ Listed)
            + SumOver(Amount, {t \in Txns : status[t] = "completed" /\ InvoiceOf[t] = NoInvoice})

\* The reports of transactions add up to each other.
TransactionsAccount ==
    /\ MonthlySummary.completed = AllMethods([m \in Methods |-> ReconciliationReport(m).expected])
    /\ SumOver(Amount, Unreconciled) =
         AllMethods([m \in Methods |-> ReconciliationReport(m).unreconciled])
    /\ MonthlySummary.total =
         AllMethods([m \in Methods |-> LET d == DailySummary(m)
                                       IN d.completed + d.pending + d.failed])
         + SumOver(Amount, {t \in Txns : status[t] = "refunded"})

\* Whenever no request is half done, the reports a business can ask for tell one
\* story, whatever requests, refunds, sweeps and deletions came before, and in
\* spite of payments that are written to two tables in two commits: the statistics
\* are the aging report and what that report is known to leave out
\* (getStatistics, getAgingReport), the invoices show the money that the summaries
\* of transactions say was collected (getDailySummary), and the summaries agree
\* among themselves (getMonthlySummary, getReconciliationReport, getUnreconciled).
ReportsAgree ==
    (\A w \in Workers : pc[w] = "idle") =>
        AgingAccounts /\ CollectedAccounts /\ TransactionsAccount
=============================================================================
