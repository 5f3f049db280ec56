------------------------ MODULE PaymentLedger_proofs ------------------------
(***************************************************************************)
(* Theorems about PaymentLedger and LedgerReports, for every number of     *)
(* workers, transactions and invoices, every pool size and every number of *)
(* faults; the reports, which add up rows, are about finitely many of      *)
(* them.                                                                   *)
(***************************************************************************)
EXTENDS LedgerReports, SumTheorems, TLAPS

USE LedgerAssumption

Settling == {"invoice", "write", "commit"}

\* A worker at work has a transaction; one that settles runs complete or refund, and
\* looks for an invoice only if there is one.
Placed ==
    \A w \in Workers :
        /\ pc[w] # "idle" => arg[w] \in Txns
        /\ pc[w] \in {"read", "update"} \cup Settling => op[w] \in {"complete", "refund"}
        /\ pc[w] \in {"invoice", "write"} => InvoiceOf[arg[w]] \in Invoices

WorkerOK == WorkerTypeOK /\ Placed

\* Between its UPDATE and its COMMIT a worker owns the row of its transaction, and
\* nobody owns a row otherwise.
Owned ==
    /\ \A w \in Workers : pc[w] \in Settling => rowOwner[arg[w]] = w
    /\ \A t \in Txns : rowOwner[t] # NoWorker =>
          pc[rowOwner[t]] \in Settling /\ arg[rowOwner[t]] = t

Typed == TypeOK /\ Placed

\* In the initial states every worker is idle and no row is locked.
LEMMA TypedInit == Init => Typed /\ Owned
<1> SUFFICES ASSUME Init PROVE Typed /\ Owned
  OBVIOUS
<1>1. TypeOK
  BY DEF Init, TypeOK, TxnTypeOK, InvoiceTypeOK, CalendarTypeOK, WorkerTypeOK,
         HistoryTypeOK, TxnStatus, PaymentStatus, Label, Operation
<1>2. Placed /\ Owned
  BY DEF Init, Placed, Owned, Settling
<1> QED
  BY <1>1, <1>2 DEF Typed

-----------------------------------------------------------------------------
\* How a worker's own variables stay well formed, one lemma per way of moving on.
LEMMA FinishOK == ASSUME WorkerOK, NEW w \in Workers, Finish(w) PROVE WorkerOK'
<1>1. pc' \in [Workers -> Label]
  BY DEF WorkerOK, WorkerTypeOK, Finish, Label
<1>2. op' \in [Workers -> Operation]
  BY DEF WorkerOK, WorkerTypeOK, Finish, Operation
<1>3. arg' \in [Workers -> Txns \cup {NoTxn}] /\ seenPaid' \in [Workers -> Int]
  BY DEF WorkerOK, WorkerTypeOK, Finish
<1>4. Placed'
  BY DEF WorkerOK, WorkerTypeOK, Placed, Finish, Settling
<1> QED
  BY <1>1, <1>2, <1>3, <1>4 DEF WorkerOK, WorkerTypeOK

\* Moving on inside a handler needs what the next label presupposes.
LEMMA GotoOK ==
  ASSUME WorkerOK, NEW w \in Workers, NEW l \in Label \ {"idle"}, Goto(w, l),
         arg[w] \in Txns,
         l \in {"read", "update"} \cup Settling => op[w] \in {"complete", "refund"},
         l \in {"invoice", "write"} => InvoiceOf[arg[w]] \in Invoices
  PROVE  WorkerOK'
<1>1. WorkerTypeOK'
  BY DEF WorkerOK, WorkerTypeOK, Goto
<1>2. Placed'
  BY DEF WorkerOK, WorkerTypeOK, Placed, Goto
<1> QED
  BY <1>1, <1>2 DEF WorkerOK

\* A request is accepted only at one of the entry labels.
LEMMA AcceptOK ==
  ASSUME WorkerOK, NEW w \in Workers, NEW l \in Label \ ({"idle", "update"} \cup Settling),
         NEW o \in Operation, NEW t \in Txns, Accept(w, o, t, l),
         l = "read" => o \in {"complete", "refund"}
  PROVE  WorkerOK'
<1>1. WorkerTypeOK'
  BY DEF WorkerOK, WorkerTypeOK, Accept
<1>2. Placed'
  BY DEF WorkerOK, WorkerTypeOK, Placed, Accept, Settling
<1> QED
  BY <1>1, <1>2 DEF WorkerOK

\* Rolling back or committing gives every row an owner or none.
LEMMA ReleaseOK ==
  ASSUME TxnTypeOK, NEW w \in Workers, Release(w)
  PROVE  rowOwner' \in [Txns -> Workers \cup {NoWorker}]
  BY DEF TxnTypeOK, Release

\* A lost connection or handler leaves everything typed.
LEMMA AbandonOK ==
  ASSUME Typed, NEW w \in Workers, Abandon(w), faults' \in 0..MaxFaults PROVE Typed'
<1>1. WorkerOK'
  BY FinishOK DEF Typed, TypeOK, WorkerOK, Abandon
<1>2. TxnTypeOK'
  BY ReleaseOK DEF Typed, TypeOK, Abandon, TxnTypeOK
<1>3. InvoiceTypeOK' /\ CalendarTypeOK' /\ HistoryTypeOK'
  BY DEF Typed, TypeOK, Abandon, InvoiceTypeOK, CalendarTypeOK, HistoryTypeOK,
         invoiceVars, calendar
<1> QED
  BY <1>1, <1>2, <1>3 DEF Typed, TypeOK, WorkerOK

\* Typed is inductive: every action keeps its variables in range and its worker placed.
LEMMA TypedStep == Typed /\ [Next]_vars => Typed'
<1> SUFFICES ASSUME Typed, [Next]_vars PROVE Typed'
  OBVIOUS
<1> USE DEF Typed, TypeOK, txnVars, invoiceVars, calendar, workerVars, history
<1>a. WorkerOK
  BY DEF WorkerOK
<1>b. ASSUME WorkerOK', TxnTypeOK', InvoiceTypeOK', CalendarTypeOK', HistoryTypeOK',
             faults' \in 0..MaxFaults
      PROVE  Typed'
  BY <1>b DEF WorkerOK
<1>c. ASSUME UNCHANGED <<txnVars, invoiceVars, calendar, faults, history>>, WorkerOK'
      PROVE  Typed'
  BY <1>b, <1>c DEF TxnTypeOK, InvoiceTypeOK, CalendarTypeOK, HistoryTypeOK
<1>1. ASSUME NEW w \in Workers, NEW t \in Txns, StartCreate(w, t) PROVE Typed'
  BY <1>1, <1>a, <1>c, AcceptOK DEF StartCreate, Label, Operation, Settling
<1>2. ASSUME NEW w \in Workers, GenerateReference(w) PROVE Typed'
  <2>1. WorkerOK'
    BY <1>2, <1>a, GotoOK DEF GenerateReference, Label, Settling, Placed
  <2> QED
    BY <1>2, <2>1, <1>c DEF GenerateReference
<1>3. ASSUME NEW w \in Workers, CommitCreate(w) PROVE Typed'
  <2>1. WorkerOK'
    BY <1>3, <1>a, FinishOK DEF CommitCreate
  <2>2. TxnTypeOK'
    BY <1>3 DEF CommitCreate, TxnTypeOK, TxnStatus
  <2> QED
    BY <1>3, <1>b, <2>1, <2>2 DEF CommitCreate, InvoiceTypeOK, CalendarTypeOK, HistoryTypeOK
<1>4. ASSUME NEW w \in Workers, NEW t \in Txns, NEW o \in {"complete", "refund"},
             StartSettle(w, o, t)
      PROVE  Typed'
  BY <1>4, <1>a, <1>c, AcceptOK DEF StartSettle, Label, Operation, Settling
<1>5. ASSUME NEW w \in Workers, ReadTxn(w) PROVE Typed'
  <2>1. WorkerOK'
    BY <1>5, <1>a, GotoOK, FinishOK DEF ReadTxn, Label, Placed, Settling
  <2> QED
    BY <1>5, <2>1, <1>c DEF ReadTxn
<1>6. ASSUME NEW w \in Workers, UpdateTxn(w) PROVE Typed'
  <2>1. arg[w] \in Txns /\ op[w] \in {"complete", "refund"}
    BY <1>6 DEF UpdateTxn, Placed
  <2>2. InvoiceOf[arg[w]] # NoInvoice => InvoiceOf[arg[w]] \in Invoices
    BY <2>1
  <2>3. WorkerOK'
    BY <1>6, <1>a, <2>1, <2>2, GotoOK DEF UpdateTxn, Label, Settling
  <2>4. TxnTypeOK'
    BY <1>6 DEF UpdateTxn, TxnTypeOK
  <2>5. HistoryTypeOK'
    BY <1>6 DEF UpdateTxn, HistoryTypeOK
  <2> QED
    BY <1>6, <1>b, <2>3, <2>4, <2>5 DEF UpdateTxn, InvoiceTypeOK, CalendarTypeOK
<1>7. ASSUME NEW w \in Workers, ReadInvoice(w) PROVE Typed'
  <2>1. arg[w] \in Txns /\ op[w] \in {"complete", "refund"} /\ InvoiceOf[arg[w]] \in Invoices
    BY <1>7 DEF ReadInvoice, Placed, Settling
  <2>2. amountPaid[InvoiceOf[arg[w]]] \in Int
    BY <2>1 DEF InvoiceTypeOK
  <2>3. CASE Finish(w) /\ Release(w)
    <3>1. TxnTypeOK'
      BY <1>7, <2>3, ReleaseOK DEF ReadInvoice, TxnTypeOK
    <3> QED
      BY <1>7, <1>a, <1>b, <2>3, <3>1, FinishOK
         DEF ReadInvoice, InvoiceTypeOK, CalendarTypeOK, HistoryTypeOK
  <2>4. CASE /\ seenPaid' = [seenPaid EXCEPT ![w] = amountPaid[InvoiceOf[arg[w]]]]
             /\ pc' = [pc EXCEPT ![w] = "write"]
             /\ UNCHANGED <<rowOwner, op, arg>>
    <3>1. WorkerTypeOK'
      BY <2>2, <2>4 DEF WorkerTypeOK, Label
    <3>2. Placed'
      BY <2>1, <2>4 DEF WorkerTypeOK, Placed, Settling
    <3> QED
      BY <1>7, <1>c, <2>4, <3>1, <3>2 DEF ReadInvoice, WorkerOK
  <2> QED
    BY <1>7, <2>3, <2>4 DEF ReadInvoice
<1>8. ASSUME NEW w \in Workers, WriteInvoice(w) PROVE Typed'
  <2>1. arg[w] \in Txns /\ op[w] \in {"complete", "refund"} /\ InvoiceOf[arg[w]] \in Invoices
    BY <1>8 DEF WriteInvoice, Placed, Settling
  <2>2. CASE Finish(w) /\ Release(w) /\ UNCHANGED <<invoiceVars, net>>
    <3>1. TxnTypeOK'
      BY <1>8, <2>2, ReleaseOK DEF WriteInvoice, TxnTypeOK
    <3> QED
      BY <1>8, <1>a, <1>b, <2>2, <3>1, FinishOK
         DEF WriteInvoice, InvoiceTypeOK, CalendarTypeOK, HistoryTypeOK
  <2>3. CASE ~deleted[InvoiceOf[arg[w]]]
    <3>1. Sign(op[w]) \in Int
      BY DEF Sign
    <3> DEFINE i    == InvoiceOf[arg[w]]
               paid == seenPaid[w] + Sign(op[w]) * Amount[arg[w]]
    <3>2. paid \in Int /\ i \in Invoices
      BY <2>1, <3>1 DEF WorkerTypeOK
    <3>3. InvoiceTypeOK'
      <4>1. /\ amountPaid' = [amountPaid EXCEPT ![i] = paid]
            /\ balanceDue' = [balanceDue EXCEPT ![i] = Total[i] - paid]
            /\ paymentStatus' = [paymentStatus EXCEPT ![i] = PaymentStatusOf(paid, Total[i])]
            /\ paidAt' = [paidAt EXCEPT ![i] = @ \/ PaymentStatusOf(paid, Total[i]) = "paid"]
        BY <1>8, <2>3 DEF WriteInvoice
      <4>2. Total[i] - paid \in Int /\ PaymentStatusOf(paid, Total[i]) \in PaymentStatus
        BY <3>2 DEF PaymentStatusOf, PaymentStatus
      <4> HIDE DEF paid, i
      <4> QED
        BY <3>2, <4>1, <4>2 DEF InvoiceTypeOK
    <3>4. HistoryTypeOK'
      BY <1>8, <2>1, <2>3, <3>1 DEF WriteInvoice, HistoryTypeOK
    <3>5. WorkerOK'
      BY <1>8, <1>a, <2>1, <2>3, GotoOK DEF WriteInvoice, Label
    <3>6. TxnTypeOK' /\ CalendarTypeOK' /\ faults' \in 0..MaxFaults
      BY <1>8, <2>3 DEF WriteInvoice, TxnTypeOK, CalendarTypeOK
    <3> QED
      BY <1>b, <3>3, <3>4, <3>5, <3>6
  <2> QED
    BY <1>8, <2>2, <2>3 DEF WriteInvoice
<1>9. ASSUME NEW w \in Workers, CommitSettle(w) PROVE Typed'
  <2>1. WorkerOK'
    BY <1>9, <1>a, FinishOK DEF CommitSettle
  <2>2. TxnTypeOK'
    BY <1>9, ReleaseOK DEF CommitSettle, TxnTypeOK, TxnStatus, Written
  <2> QED
    BY <1>9, <1>b, <2>1, <2>2 DEF CommitSettle, InvoiceTypeOK, CalendarTypeOK, HistoryTypeOK
<1>10. ASSUME NEW w \in Workers, NEW t \in Txns, NEW o \in {"fail", "reconcile"},
              StartAuto(w, o, t)
       PROVE  Typed'
  BY <1>10, <1>a, <1>c, AcceptOK DEF StartAuto, Label, Operation, Settling
<1>11. ASSUME NEW w \in Workers, Connect(w) PROVE Typed'
  <2>1. WorkerOK'
    BY <1>11, <1>a, GotoOK DEF Connect, Label, Settling, Placed
  <2> QED
    BY <1>11, <2>1, <1>c DEF Connect
<1>12. ASSUME NEW w \in Workers, FailTxn(w) PROVE Typed'
  <2>1. WorkerOK'
    BY <1>12, <1>a, FinishOK DEF FailTxn
  <2>2. TxnTypeOK' /\ HistoryTypeOK'
    BY <1>12 DEF FailTxn, TxnTypeOK, TxnStatus, HistoryTypeOK
  <2> QED
    BY <1>12, <1>b, <2>1, <2>2 DEF FailTxn, InvoiceTypeOK, CalendarTypeOK
<1>13. ASSUME NEW w \in Workers, Reconcile(w) PROVE Typed'
  <2>1. WorkerOK'
    BY <1>13, <1>a, FinishOK DEF Reconcile
  <2>2. TxnTypeOK'
    BY <1>13 DEF Reconcile, TxnTypeOK
  <2> QED
    BY <1>13, <1>b, <2>1, <2>2 DEF Reconcile, InvoiceTypeOK, CalendarTypeOK, HistoryTypeOK
<1>14. ASSUME NEW w \in Workers, ConnectionTimeout(w) PROVE Typed'
  BY <1>14, AbandonOK DEF ConnectionTimeout
<1>15. ASSUME NEW w \in Workers, Fault(w) PROVE Typed'
  BY <1>15, AbandonOK DEF Fault
<1>16. ASSUME NEW i \in Invoices, FallDue(i) \/ Postpone(i) PROVE Typed'
  BY <1>16 DEF FallDue, Postpone, TxnTypeOK, InvoiceTypeOK, CalendarTypeOK, HistoryTypeOK,
               WorkerTypeOK, Placed
<1>17. ASSUME NEW i \in Invoices, DeleteInvoice(i) PROVE Typed'
  BY <1>17 DEF DeleteInvoice, TxnTypeOK, InvoiceTypeOK, CalendarTypeOK, HistoryTypeOK,
               WorkerTypeOK, Placed
<1>18. CASE MarkOverdue
  BY <1>18 DEF MarkOverdue, TxnTypeOK, InvoiceTypeOK, CalendarTypeOK, HistoryTypeOK,
               WorkerTypeOK, Placed, PaymentStatus
<1>19. CASE UNCHANGED vars
  BY <1>19 DEF vars, TxnTypeOK, InvoiceTypeOK, CalendarTypeOK, HistoryTypeOK,
               WorkerTypeOK, Placed
<1> HIDE DEF Typed, TypeOK
<1> QED
  BY <1>1, <1>2, <1>3, <1>4, <1>5, <1>6, <1>7, <1>8, <1>9, <1>10, <1>11, <1>12,
     <1>13, <1>14, <1>15, <1>16, <1>17, <1>18, <1>19
     DEF Next, Start, PoolStep, RowStep, CommitStep

\* The variables keep their types, for every instance of PaymentLedger (all actions of
\* src/src/models/Transaction.ts and Invoice.ts).
THEOREM TypeCorrect == Spec => []TypeOK
<1>1. Init => Typed
  BY TypedInit
<1>2. Typed => TypeOK
  BY DEF Typed
<1> QED
  BY <1>1, <1>2, TypedStep, PTL DEF Spec

-----------------------------------------------------------------------------
(***************************************************************************)
(* The columns of an invoice agree.  InvoiceConsistent is inductive given  *)
(* the types: both updatePaymentStatus and markOverdue re-establish it     *)
(* from whatever (possibly stale) amount they were given.                  *)
(***************************************************************************)
LEMMA InvoiceStep == Typed /\ InvoiceConsistent /\ [Next]_vars => InvoiceConsistent'
<1> SUFFICES ASSUME Typed, InvoiceConsistent, [Next]_vars PROVE InvoiceConsistent'
  OBVIOUS
<1>1. CASE UNCHANGED invoiceVars
  BY <1>1 DEF InvoiceConsistent, invoiceVars
<1>2. ASSUME NEW w \in Workers, WriteInvoice(w) PROVE InvoiceConsistent'
  <2>1. CASE UNCHANGED invoiceVars
    BY <1>2, <2>1 DEF WriteInvoice, InvoiceConsistent, invoiceVars
  <2>2. CASE ~deleted[InvoiceOf[arg[w]]]
    <3> DEFINE i    == InvoiceOf[arg[w]]
               paid == seenPaid[w] + Sign(op[w]) * Amount[arg[w]]
    <3>1. i \in Invoices /\ arg[w] \in Txns
      BY <1>2 DEF WriteInvoice, Typed, Placed, Settling
    <3>2. paid \in Int /\ Total[i] \in Nat \ {0}
      BY <3>1 DEF Typed, TypeOK, WorkerTypeOK, Sign
    <3>3. /\ amountPaid' = [amountPaid EXCEPT ![i] = paid]
          /\ balanceDue' = [balanceDue EXCEPT ![i] = Total[i] - paid]
          /\ paymentStatus' = [paymentStatus EXCEPT ![i] = PaymentStatusOf(paid, Total[i])]
          /\ paidAt' = [paidAt EXCEPT ![i] = @ \/ PaymentStatusOf(paid, Total[i]) = "paid"]
      BY <1>2, <2>2 DEF WriteInvoice
    <3> HIDE DEF i, paid
    <3>4. ASSUME NEW j \in Invoices, j # i
          PROVE  /\ amountPaid'[j] = amountPaid[j] /\ balanceDue'[j] = balanceDue[j]
                 /\ paymentStatus'[j] = paymentStatus[j] /\ paidAt'[j] = paidAt[j]
      BY <3>1, <3>3, <3>4 DEF Typed, TypeOK, InvoiceTypeOK
    <3>5. /\ amountPaid'[i] = paid /\ balanceDue'[i] = Total[i] - paid
          /\ paymentStatus'[i] = PaymentStatusOf(paid, Total[i])
          /\ PaymentStatusOf(paid, Total[i]) = "paid" => paidAt'[i]
      BY <3>1, <3>3 DEF Typed, TypeOK, InvoiceTypeOK
    <3> QED
      BY <3>1, <3>2, <3>3, <3>4, <3>5 DEF InvoiceConsistent, PaymentStatusOf
  <2> QED
    BY <1>2, <2>1, <2>2 DEF WriteInvoice
<1>3. CASE MarkOverdue
  BY <1>3 DEF MarkOverdue, InvoiceConsistent, Typed, TypeOK, InvoiceTypeOK, PaymentStatus
<1>4. ASSUME NEW i \in Invoices, FallDue(i) \/ Postpone(i) PROVE InvoiceConsistent'
  BY <1>1, <1>4 DEF FallDue, Postpone
<1>5. ASSUME NEW i \in Invoices, DeleteInvoice(i) PROVE InvoiceConsistent'
  BY <1>1, <1>5 DEF DeleteInvoice
<1>6. ASSUME NEW w \in Workers,
             Start(w) \/ GenerateReference(w) \/ ReadTxn(w) \/ ReadInvoice(w) \/ Connect(w)
             \/ ConnectionTimeout(w) \/ RowStep(w) \/ CommitStep(w) \/ Fault(w)
      PROVE  UNCHANGED invoiceVars
  BY <1>6 DEF Start, StartCreate, StartSettle, StartAuto, GenerateReference, ReadTxn,
     ReadInvoice, Connect, ConnectionTimeout, Abandon, RowStep, UpdateTxn, FailTxn,
     Reconcile, CommitStep, CommitCreate, CommitSettle, Fault
<1>7. CASE UNCHANGED vars
  BY <1>1, <1>7 DEF vars
<1> QED
  BY <1>1, <1>2, <1>3, <1>4, <1>5, <1>6, <1>7 DEF Next, PoolStep

\* Balance, payment status and date of payment of every invoice agree, however
\* payments, refunds, overdue sweeps and faults interleave.
THEOREM InvoicesStayConsistent == Spec => []InvoiceConsistent
<1>1. Init => Typed /\ InvoiceConsistent
  <2>1. Init => InvoiceConsistent
    BY DEF Init, InvoiceConsistent
  <2> QED
    BY <2>1, TypedInit
<1>2. Typed /\ InvoiceConsistent /\ [Next]_vars => (Typed /\ InvoiceConsistent)'
  BY TypedStep, InvoiceStep
<1> QED
  BY <1>1, <1>2, PTL DEF Spec

-----------------------------------------------------------------------------
(***************************************************************************)
(* Row ownership: rowOwner is exactly the lock the settling workers hold.  *)
(***************************************************************************)
\* The rows a worker gives back are the ones it settles.
LEMMA OwnedRelease ==
  ASSUME Typed, Owned, NEW w \in Workers, Release(w), Finish(w) PROVE Owned'
  BY DEF Typed, TypeOK, TxnTypeOK, WorkerTypeOK, Placed, Owned, Release, Finish, Settling

\* A worker that does not settle owns nothing, so its moves disturb no owner.
LEMMA OwnedOutside ==
  ASSUME Typed, Owned, NEW w \in Workers, NEW l \in Label \ Settling, NEW x,
         pc[w] \notin Settling, UNCHANGED rowOwner,
         pc' = [pc EXCEPT ![w] = l], arg' = [arg EXCEPT ![w] = x]
  PROVE  Owned'
  BY DEF Typed, TypeOK, TxnTypeOK, WorkerTypeOK, Placed, Owned

\* A worker that keeps settling the same transaction keeps its row.
LEMMA OwnedWithin ==
  ASSUME Typed, Owned, NEW w \in Workers, NEW l \in Settling,
         pc[w] \in Settling, UNCHANGED <<rowOwner, arg>>, pc' = [pc EXCEPT ![w] = l]
  PROVE  Owned'
  BY DEF Typed, TypeOK, TxnTypeOK, WorkerTypeOK, Placed, Owned

\* The row lock is taken by UpdateTxn and given back by COMMIT, rollback or loss only.
LEMMA OwnedStep == Typed /\ Owned /\ [Next]_vars => Owned'
<1> SUFFICES ASSUME Typed, Owned, [Next]_vars PROVE Owned'
  OBVIOUS
<1> USE DEF txnVars, workerVars
<1>1. CASE UNCHANGED <<rowOwner, pc, arg>>
  BY <1>1 DEF Owned
<1>2. ASSUME NEW w \in Workers, UpdateTxn(w) PROVE Owned'
  <2>1. arg[w] \in Txns /\ pc[w] = "update"
    BY <1>2 DEF UpdateTxn, Typed, Placed
  <2>2. PICK l \in Settling : Goto(w, l)
    BY <1>2 DEF UpdateTxn, Settling
  <2> QED
    BY <1>2, <2>1, <2>2
       DEF UpdateTxn, Goto, Typed, TypeOK, TxnTypeOK, WorkerTypeOK, Placed, Owned, Settling
<1>3. ASSUME NEW w \in Workers, Release(w), Finish(w) PROVE Owned'
  BY <1>3, OwnedRelease
<1>4. ASSUME NEW w \in Workers, Finish(w), UNCHANGED rowOwner, pc[w] \notin Settling PROVE Owned'
  BY <1>4, OwnedOutside DEF Finish, Label, Settling
<1>5. ASSUME NEW w \in Workers, NEW l \in Label \ Settling, Goto(w, l), UNCHANGED rowOwner,
             pc[w] \notin Settling
      PROVE  Owned'
  <2>1. arg' = [arg EXCEPT ![w] = arg[w]]
    BY <1>5 DEF Goto, Typed, TypeOK, WorkerTypeOK
  <2> QED
    BY <1>5, <2>1, OwnedOutside DEF Goto
<1>6. ASSUME NEW w \in Workers, NEW t \in Txns, NEW o, NEW l \in Label \ Settling,
             Accept(w, o, t, l), UNCHANGED rowOwner
      PROVE  Owned'
  BY <1>6, OwnedOutside DEF Accept, Settling
<1>7. ASSUME NEW w \in Workers, Start(w) PROVE Owned'
  BY <1>6, <1>7 DEF Start, StartCreate, StartSettle, StartAuto, Label, Settling
<1>8. ASSUME NEW w \in Workers, GenerateReference(w) \/ Connect(w) PROVE Owned'
  BY <1>5, <1>8 DEF GenerateReference, Connect, Label, Settling
<1>9. ASSUME NEW w \in Workers, ReadTxn(w) PROVE Owned'
  BY <1>4, <1>5, <1>9 DEF ReadTxn, Label, Settling
<1>10. ASSUME NEW w \in Workers, ReadInvoice(w) \/ WriteInvoice(w) PROVE Owned'
  <2>1. CASE Finish(w) /\ Release(w)
    BY <1>3, <2>1
  <2>2. CASE ~(Finish(w) /\ Release(w))
    <3>1. /\ pc[w] \in Settling
          /\ \E l \in Settling : pc' = [pc EXCEPT ![w] = l]
          /\ UNCHANGED <<rowOwner, arg>>
      BY <1>10, <2>2 DEF ReadInvoice, WriteInvoice, Goto, Settling
    <3> QED
      BY <3>1, OwnedWithin
  <2> QED
    BY <2>1, <2>2
<1>11. ASSUME NEW w \in Workers, CommitCreate(w) \/ FailTxn(w) \/ Reconcile(w) PROVE Owned'
  BY <1>4, <1>11 DEF CommitCreate, FailTxn, Reconcile, Settling
<1>12. ASSUME NEW w \in Workers, CommitSettle(w) PROVE Owned'
  BY <1>3, <1>12 DEF CommitSettle
<1>13. ASSUME NEW w \in Workers, ConnectionTimeout(w) \/ Fault(w) PROVE Owned'
  BY <1>3, <1>13 DEF ConnectionTimeout, Fault, Abandon
<1>14. ASSUME NEW i \in Invoices, FallDue(i) \/ Postpone(i) \/ DeleteInvoice(i) PROVE Owned'
  BY <1>1, <1>14 DEF FallDue, Postpone, DeleteInvoice
<1>15. CASE MarkOverdue \/ UNCHANGED vars
  BY <1>1, <1>15 DEF MarkOverdue, vars
<1> QED
  BY <1>2, <1>7, <1>8, <1>9, <1>10, <1>11, <1>12, <1>13, <1>14, <1>15
     DEF Next, PoolStep, RowStep, CommitStep

-----------------------------------------------------------------------------
\* What a step means for the money on invoices: a handler reads it, a handler writes it, or
\* it stays and so does what handlers have in hand.
MoneyStays ==
    /\ UNCHANGED <<amountPaid, net>>
    /\ \A w \in Workers : pc'[w] = "write" =>
          pc[w] = "write" /\ seenPaid'[w] = seenPaid[w] /\ arg'[w] = arg[w]

MoneyRead(w) ==
    /\ pc[w] = "invoice"
    /\ seenPaid' = [seenPaid EXCEPT ![w] = amountPaid[InvoiceOf[arg[w]]]]
    /\ pc' = [pc EXCEPT ![w] = "write"]
    /\ UNCHANGED <<amountPaid, net, arg>>

MoneyWritten(w) ==
    /\ pc[w] = "write"
    /\ LET t == arg[w] IN
         /\ amountPaid' = [amountPaid EXCEPT ![InvoiceOf[t]] = seenPaid[w] + Sign(op[w]) * Amount[t]]
         /\ net' = [net EXCEPT ![t] = @ + Sign(op[w])]
    /\ pc' = [pc EXCEPT ![w] = "commit"]
    /\ UNCHANGED <<arg, seenPaid>>

LEMMA MoneyMoves ==
  ASSUME Typed, [Next]_vars
  PROVE  MoneyStays \/ \E w \in Workers : MoneyRead(w) \/ MoneyWritten(w)
<1>1. ASSUME NEW w \in Workers, NEW l, l # "write", UNCHANGED <<amountPaid, net>>,
             pc' = [pc EXCEPT ![w] = l],
             \A v \in Workers : v # w => seenPaid'[v] = seenPaid[v] /\ arg'[v] = arg[v]
      PROVE  MoneyStays
  BY <1>1 DEF MoneyStays, Typed, TypeOK, WorkerTypeOK
<1>2. ASSUME NEW w \in Workers, NEW l, l # "write", UNCHANGED <<amountPaid, net>>, Goto(w, l)
      PROVE  MoneyStays
  BY <1>1, <1>2 DEF Goto
<1>3. ASSUME NEW w \in Workers, UNCHANGED <<amountPaid, net>>, Finish(w)
      PROVE  MoneyStays
  BY <1>1, <1>3 DEF Finish, Typed, TypeOK, WorkerTypeOK
<1>4. ASSUME NEW w \in Workers, NEW t, NEW o, NEW l, l # "write",
             UNCHANGED <<amountPaid, net>>, Accept(w, o, t, l)
      PROVE  MoneyStays
  BY <1>1, <1>4 DEF Accept, Typed, TypeOK, WorkerTypeOK
<1> USE DEF txnVars, invoiceVars, calendar, workerVars, history
<1>5. ASSUME NEW w \in Workers, Start(w) PROVE MoneyStays
  BY <1>4, <1>5 DEF Start, StartCreate, StartSettle, StartAuto
<1>6. ASSUME NEW w \in Workers, GenerateReference(w) \/ Connect(w) \/ ReadTxn(w) \/ UpdateTxn(w)
      PROVE  MoneyStays
  BY <1>2, <1>3, <1>6 DEF GenerateReference, Connect, ReadTxn, UpdateTxn
<1>7. ASSUME NEW w \in Workers,
             CommitStep(w) \/ FailTxn(w) \/ Reconcile(w) \/ ConnectionTimeout(w) \/ Fault(w)
      PROVE  MoneyStays
  BY <1>3, <1>7 DEF CommitStep, CommitCreate, CommitSettle, FailTxn, Reconcile,
     ConnectionTimeout, Fault, Abandon
<1>8. ASSUME NEW w \in Workers, ReadInvoice(w) PROVE MoneyStays \/ MoneyRead(w)
  BY <1>3, <1>8 DEF ReadInvoice, MoneyRead
<1>9. ASSUME NEW w \in Workers, WriteInvoice(w) PROVE MoneyStays \/ MoneyWritten(w)
  <2>1. CASE Finish(w) /\ UNCHANGED <<invoiceVars, net>>
    BY <1>3, <2>1
  <2>2. CASE ~deleted[InvoiceOf[arg[w]]]
    BY <1>9, <2>2 DEF WriteInvoice, Goto, MoneyWritten
  <2> QED
    BY <1>9, <2>1, <2>2 DEF WriteInvoice
<1>10. CASE MarkOverdue \/ UNCHANGED vars
  BY <1>10 DEF MarkOverdue, vars, MoneyStays
<1>11. ASSUME NEW i \in Invoices, FallDue(i) \/ Postpone(i) \/ DeleteInvoice(i) PROVE MoneyStays
  BY <1>11 DEF FallDue, Postpone, DeleteInvoice, MoneyStays
<1> QED
  BY <1>5, <1>6, <1>7, <1>8, <1>9, <1>10, <1>11 DEF Next, PoolStep, RowStep

-----------------------------------------------------------------------------
(***************************************************************************)
(* SinglePayerExact needs two facts: the amount a worker read is still     *)
(* there when it writes, and the sum so far is what the history says.      *)
(***************************************************************************)
Alone(t) ==
    /\ InvoiceOf[t] \in Invoices
    /\ \A u \in Txns : InvoiceOf[u] = InvoiceOf[t] => u = t

Fresh ==
    \A w \in Workers :
        pc[w] = "write" /\ Alone(arg[w]) => seenPaid[w] = amountPaid[InvoiceOf[arg[w]]]

SinglePayerInv == Typed /\ Owned /\ Fresh /\ SinglePayerExact

\* Two workers that settle the same transaction are one worker.
LEMMA OneSettler ==
  ASSUME Owned, NEW v \in Workers, NEW w \in Workers,
         pc[v] \in Settling, pc[w] \in Settling, arg[v] = arg[w]
  PROVE  v = w
  BY DEF Owned

\* Under the lock, nobody writes the invoice between a handler's read and its write.
LEMMA SinglePayerStep == SinglePayerInv /\ [Next]_vars => Fresh' /\ SinglePayerExact'
<1> SUFFICES ASSUME SinglePayerInv, [Next]_vars PROVE Fresh' /\ SinglePayerExact'
  OBVIOUS
<1> USE DEF SinglePayerInv
<1>1. CASE MoneyStays
  BY <1>1 DEF MoneyStays, Fresh, SinglePayerExact, Alone
<1>2. ASSUME NEW w \in Workers, MoneyRead(w) PROVE Fresh' /\ SinglePayerExact'
  BY <1>2 DEF MoneyRead, Fresh, SinglePayerExact, Alone, Typed, TypeOK, WorkerTypeOK
<1>3. ASSUME NEW w \in Workers, MoneyWritten(w) PROVE Fresh' /\ SinglePayerExact'
  <2> DEFINE t    == arg[w]
             i    == InvoiceOf[t]
             paid == seenPaid[w] + Sign(op[w]) * Amount[t]
  <2>1. t \in Txns /\ i \in Invoices /\ pc[w] = "write"
    BY <1>3 DEF MoneyWritten, Typed, Placed, Settling
  <2>2. /\ amountPaid' = [amountPaid EXCEPT ![i] = paid]
        /\ net' = [net EXCEPT ![t] = @ + Sign(op[w])]
        /\ pc' = [pc EXCEPT ![w] = "commit"]
        /\ UNCHANGED <<arg, seenPaid>>
    BY <1>3 DEF MoneyWritten
  <2>3. Fresh'
    <3> SUFFICES ASSUME NEW v \in Workers, pc'[v] = "write", Alone(arg[v])
                 PROVE  seenPaid[v] = amountPaid'[InvoiceOf[arg[v]]]
      BY <2>2 DEF Fresh, Alone
    <3>1. v # w /\ pc[v] = "write" /\ arg[v] \in Txns
      BY <2>1, <2>2 DEF Typed, TypeOK, WorkerTypeOK, Placed
    <3>2. InvoiceOf[arg[v]] # i
      BY <2>1, <3>1, OneSettler DEF Alone, Settling
    <3> HIDE DEF i, paid
    <3> QED
      BY <2>1, <2>2, <3>1, <3>2 DEF Fresh, Alone, Typed, TypeOK, InvoiceTypeOK
  <2>4. SinglePayerExact'
    <3> SUFFICES ASSUME NEW u \in Txns, Alone(u)
                 PROVE  amountPaid'[InvoiceOf[u]] = net'[u] * Amount[u]
      BY DEF SinglePayerExact, Alone
    <3>1. amountPaid[InvoiceOf[u]] = net[u] * Amount[u]
      BY DEF SinglePayerExact, Alone
    <3>2. CASE u # t
      <4>1. InvoiceOf[u] # i
        BY <2>1, <3>2 DEF Alone
      <4> HIDE DEF i, t, paid
      <4> QED
        BY <2>1, <2>2, <3>1, <3>2, <4>1
           DEF Alone, Typed, TypeOK, InvoiceTypeOK, HistoryTypeOK
    <3>3. CASE u = t
      <4>1. seenPaid[w] = net[t] * Amount[t]
        BY <2>1, <3>1, <3>3 DEF Fresh
      <4>2. amountPaid'[i] = paid /\ net'[t] = net[t] + Sign(op[w])
        BY <2>1, <2>2 DEF Typed, TypeOK, InvoiceTypeOK, HistoryTypeOK
      <4>3. Sign(op[w]) \in {1, -1} /\ net[t] \in Int /\ Amount[t] \in Int
        BY <2>1 DEF Sign, Typed, TypeOK, HistoryTypeOK
      <4>4. ASSUME NEW n \in Int, NEW a \in Int, NEW s \in {1, -1}
            PROVE  n * a + s * a = (n + s) * a
        BY <4>4
      <4> QED
        BY <3>3, <4>1, <4>2, <4>3, <4>4
    <3> QED
      BY <3>2, <3>3
  <2> QED
    BY <2>3, <2>4
<1> QED
  BY <1>1, <1>2, <1>3, MoneyMoves

\* An invoice that a single transaction pays carries exactly the payments and
\* reversals that were made, whatever the requests, interleavings and faults.
THEOREM SinglePayerIsExact == Spec => []SinglePayerExact
<1>1. Init => SinglePayerInv
  <2>1. Init => Fresh /\ SinglePayerExact
    BY DEF Init, Fresh, SinglePayerExact
  <2> QED
    BY <2>1, TypedInit DEF SinglePayerInv
<1>2. SinglePayerInv /\ [Next]_vars => SinglePayerInv'
  BY TypedStep, OwnedStep, SinglePayerStep DEF SinglePayerInv
<1>3. SinglePayerInv => SinglePayerExact
  BY DEF SinglePayerInv
<1> QED
  BY <1>1, <1>2, <1>3, PTL DEF Spec

-----------------------------------------------------------------------------
(***************************************************************************)
(* CreditMatchesStatus.  Two facts carry it: a row is created once, before *)
(* anybody works on it, and an untainted row that is being settled still   *)
(* has the side of completed that the handler's guard saw.                 *)
(***************************************************************************)
Creating == {"reference", "insert"}

Born ==
    /\ \A w \in Workers : pc[w] \in Creating => status[arg[w]] = "absent"
    /\ \A w \in Workers : pc[w] \notin Creating \cup {"idle"} => status[arg[w]] # "absent"
    /\ \A v, w \in Workers :
         v # w /\ pc[v] \in Creating /\ pc[w] \in Creating => arg[v] # arg[w]

Guarded ==
    \A w \in Workers :
        pc[w] \in Settling /\ ~tainted[arg[w]] =>
            (status[arg[w]] = "completed" <=> op[w] = "refund")

CreditInv == Typed /\ Owned /\ Born /\ Guarded /\ CreditMatchesStatus

\* A transaction that no INSERT has committed has moved no money.
LEMMA BornStep == Typed /\ Owned /\ Born /\ [Next]_vars => Born'
<1> SUFFICES ASSUME Typed, Owned, Born, [Next]_vars PROVE Born'
  OBVIOUS
<1>0. /\ pc \in [Workers -> Label] /\ arg \in [Workers -> Txns \cup {NoTxn}]
      /\ status \in [Txns -> TxnStatus]
      /\ \A w \in Workers : pc[w] # "idle" => arg[w] \in Txns
  BY DEF Typed, TypeOK, WorkerTypeOK, TxnTypeOK, Placed
<1> USE DEF Creating
<1>1. ASSUME NEW w \in Workers, NEW l \in Label,
             pc' = [pc EXCEPT ![w] = l], \A v \in Workers : v # w => arg'[v] = arg[v],
             UNCHANGED status,
             l # "idle" => arg'[w] = arg[w] /\ pc[w] # "idle",
             l \in Creating => pc[w] \in Creating,
             l \notin Creating \cup {"idle"} => pc[w] \notin Creating
      PROVE  Born'
  BY <1>0, <1>1 DEF Born
<1>2. ASSUME NEW w \in Workers, UNCHANGED status, Finish(w) PROVE Born'
  BY <1>0, <1>1, <1>2 DEF Finish, Label
<1>3. ASSUME NEW w \in Workers, NEW l \in Label \ {"idle"}, UNCHANGED status, Goto(w, l),
             l \in Creating <=> pc[w] \in Creating, pc[w] # "idle"
      PROVE  Born'
  BY <1>1, <1>3 DEF Goto
<1>4. ASSUME NEW w \in Workers, Finish(w), arg[w] \in Txns, pc[w] # "idle",
             NEW x \in TxnStatus \ {"absent"},
             status' = [status EXCEPT ![arg[w]] = x],
             \A v \in Workers : v # w /\ pc[v] \in Creating => arg[v] # arg[w]
      PROVE  Born'
  BY <1>0, <1>4 DEF Born, Finish
<1> USE DEF txnVars, workerVars
<1>5. ASSUME NEW w \in Workers, NEW t \in Txns, StartCreate(w, t) PROVE Born'
  BY <1>0, <1>5 DEF StartCreate, Accept, Born
<1>6. ASSUME NEW w \in Workers, NEW t \in Txns, NEW o, NEW l \in {"read", "connect"},
             Accept(w, o, t, l), status[t] # "absent", UNCHANGED status
      PROVE  Born'
  BY <1>0, <1>6 DEF Accept, Born
<1>7. ASSUME NEW w \in Workers, Start(w) PROVE Born'
  BY <1>5, <1>6, <1>7 DEF Start, StartSettle, StartAuto
<1>8. ASSUME NEW w \in Workers, GenerateReference(w) PROVE Born'
  BY <1>3, <1>8 DEF GenerateReference, Label
<1>9. ASSUME NEW w \in Workers,
             Connect(w) \/ ReadTxn(w) \/ UpdateTxn(w) \/ WriteInvoice(w)
      PROVE  Born'
  BY <1>2, <1>3, <1>9 DEF Connect, ReadTxn, UpdateTxn, WriteInvoice, Label
<1>10. ASSUME NEW w \in Workers, ReadInvoice(w) PROVE Born'
  <2>1. CASE Finish(w)
    BY <1>2, <1>10, <2>1 DEF ReadInvoice
  <2>2. CASE pc' = [pc EXCEPT ![w] = "write"] /\ UNCHANGED arg
    BY <1>1, <1>10, <2>2 DEF ReadInvoice, Label
  <2> QED
    BY <1>10, <2>1, <2>2 DEF ReadInvoice
<1>11. ASSUME NEW w \in Workers, CommitCreate(w) PROVE Born'
  <2>1. \A v \in Workers : v # w /\ pc[v] \in Creating => arg[v] # arg[w]
    BY <1>11 DEF CommitCreate, Born
  <2>2. Finish(w) /\ pc[w] # "idle" /\ arg[w] \in Txns
        /\ status' = [status EXCEPT ![arg[w]] = "pending"]
    BY <1>0, <1>11 DEF CommitCreate
  <2> QED
    BY <1>4, <2>1, <2>2 DEF TxnStatus
<1>12. ASSUME NEW w \in Workers, CommitSettle(w) \/ FailTxn(w) PROVE Born'
  <2>1. \A v \in Workers : pc[v] \in Creating => arg[v] # arg[w]
    BY <1>12 DEF CommitSettle, FailTxn, Born
  <2> QED
    <3>1. Finish(w) /\ pc[w] # "idle" /\ arg[w] \in Txns
      BY <1>0, <1>12 DEF CommitSettle, FailTxn
    <3>2. PICK x \in TxnStatus \ {"absent"} : status' = [status EXCEPT ![arg[w]] = x]
      BY <1>12 DEF CommitSettle, FailTxn, Written, TxnStatus
    <3> QED
      BY <1>4, <2>1, <3>1, <3>2
<1>13. ASSUME NEW w \in Workers, Reconcile(w) \/ ConnectionTimeout(w) \/ Fault(w) PROVE Born'
  BY <1>2, <1>13 DEF Reconcile, ConnectionTimeout, Fault, Abandon
<1>14. CASE UNCHANGED <<status, pc, arg>>
  BY <1>14 DEF Born
<1>15. ASSUME NEW i \in Invoices, FallDue(i) \/ Postpone(i) \/ DeleteInvoice(i) PROVE Born'
  BY <1>14, <1>15 DEF FallDue, Postpone, DeleteInvoice
<1>16. CASE MarkOverdue \/ UNCHANGED vars
  BY <1>14, <1>16 DEF MarkOverdue, vars
<1> QED
  BY <1>7, <1>8, <1>9, <1>10, <1>11, <1>12, <1>13, <1>15, <1>16
     DEF Next, PoolStep, RowStep, CommitStep
\* What Counted says, without the quantifier.
LEMMA CountedCases ==
  ASSUME Typed, NEW t \in Txns
  PROVE  /\ rowOwner[t] \in Workers /\ pc[rowOwner[t]] = "commit"
              => (Counted(t) <=> op[rowOwner[t]] = "complete")
         /\ ~(rowOwner[t] \in Workers /\ pc[rowOwner[t]] = "commit")
              => (Counted(t) <=> status[t] = "completed")
  BY DEF Counted

\* The same after a step.
LEMMA CountedCasesNext ==
  ASSUME Typed', NEW t \in Txns
  PROVE  /\ rowOwner'[t] \in Workers /\ pc'[rowOwner'[t]] = "commit"
              => (Counted(t)' <=> op'[rowOwner'[t]] = "complete")
         /\ ~(rowOwner'[t] \in Workers /\ pc'[rowOwner'[t]] = "commit")
              => (Counted(t)' <=> status'[t] = "completed")
  BY DEF Counted

\* The bookkeeping of net follows the status across every step but the tainted ones.
LEMMA CreditStep ==
  CreditInv /\ [Next]_vars /\ Typed' /\ Owned' => Guarded' /\ CreditMatchesStatus'
<1> SUFFICES ASSUME CreditInv, [Next]_vars, Typed', Owned' PROVE Guarded' /\ CreditMatchesStatus'
  OBVIOUS
<1> USE DEF CreditInv, txnVars, invoiceVars, calendar, workerVars, history
<1>0. /\ pc \in [Workers -> Label] /\ arg \in [Workers -> Txns \cup {NoTxn}]
      /\ op \in [Workers -> Operation]
      /\ status \in [Txns -> TxnStatus] /\ rowOwner \in [Txns -> Workers \cup {NoWorker}]
      /\ net \in [Txns -> Int] /\ tainted \in [Txns -> BOOLEAN]
      /\ \A w \in Workers : pc[w] # "idle" => arg[w] \in Txns
  BY DEF Typed, TypeOK, WorkerTypeOK, TxnTypeOK, HistoryTypeOK, Placed
\* A worker that owns no row moves.
<1>1. ASSUME NEW w \in Workers, pc[w] \notin Settling, pc'[w] \notin Settling,
             \A v \in Workers : v # w => pc'[v] = pc[v] /\ op'[v] = op[v] /\ arg'[v] = arg[v],
             UNCHANGED <<rowOwner, net>>,
             \A t \in Txns : ~tainted'[t] => ~tainted[t]
                /\ (status'[t] = "completed" <=> status[t] = "completed")
      PROVE  Guarded' /\ CreditMatchesStatus'
  <2>1. Guarded'
    BY <1>0, <1>1 DEF Guarded, Settling
  <2>2. ASSUME NEW t \in Txns, InvoiceOf[t] \in Invoices, ~tainted'[t]
        PROVE  net'[t] = (IF Counted(t)' THEN 1 ELSE 0)
    <3>1. net[t] = (IF Counted(t) THEN 1 ELSE 0)
      BY <1>1, <2>2 DEF CreditMatchesStatus
    <3>2. rowOwner[t] # w
      BY <1>1, <2>2 DEF Owned
    <3>3. Counted(t)' <=> Counted(t)
      BY <1>0, <1>1, <2>2, <3>2, CountedCases, CountedCasesNext
    <3> QED
      BY <1>1, <3>1, <3>3
  <2> QED
    BY <2>1, <2>2 DEF CreditMatchesStatus
\* A worker gives up its row, or leaves off before it had one.
<1>2. ASSUME NEW w \in Workers, Release(w), Finish(w), UNCHANGED <<status, net>>,
             \A t \in Txns : ~tainted'[t] => ~tainted[t],
             pc[w] = "commit" /\ InvoiceOf[arg[w]] \in Invoices => tainted'[arg[w]]
      PROVE  Guarded' /\ CreditMatchesStatus'
  <2>0. /\ pc' = [pc EXCEPT ![w] = "idle"]
        /\ \A v \in Workers : v # w => op'[v] = op[v] /\ arg'[v] = arg[v]
        /\ \A t \in Txns : rowOwner'[t] = (IF rowOwner[t] = w THEN NoWorker ELSE rowOwner[t])
    BY <1>0, <1>2 DEF Finish, Release
  <2>1. Guarded'
    BY <1>0, <1>2, <2>0 DEF Guarded, Settling
  <2>2. ASSUME NEW t \in Txns, InvoiceOf[t] \in Invoices, ~tainted'[t]
        PROVE  net'[t] = (IF Counted(t)' THEN 1 ELSE 0)
    <3>1. net[t] = (IF Counted(t) THEN 1 ELSE 0)
      BY <1>2, <2>2 DEF CreditMatchesStatus
    <3>2. rowOwner[t] = w => pc[w] # "commit"
      BY <1>2, <2>2 DEF Owned
    <3>3. Counted(t)' <=> Counted(t)
      BY <1>0, <1>2, <2>0, <2>2, <3>2, CountedCases, CountedCasesNext
    <3> QED
      BY <1>2, <3>1, <3>3
  <2> QED
    BY <2>1, <2>2 DEF CreditMatchesStatus
<1>3. ASSUME NEW w \in Workers, UpdateTxn(w) PROVE Guarded' /\ CreditMatchesStatus'
  <2> DEFINE r == arg[w]
  <2>0. /\ r \in Txns /\ rowOwner[r] = NoWorker /\ pc[w] = "update"
        /\ op[w] \in {"complete", "refund"}
        /\ rowOwner' = [rowOwner EXCEPT ![r] = w]
        /\ tainted' = [tainted EXCEPT ![r] =
                         @ \/ ((status[r] = "completed") # (op[w] = "refund"))]
        /\ UNCHANGED <<status, net, op, arg>>
    BY <1>0, <1>3 DEF UpdateTxn, Goto, Typed, Placed
  <2>1. PICK l \in {"commit", "invoice"} :
           pc' = [pc EXCEPT ![w] = l] /\ (l = "commit" => InvoiceOf[r] = NoInvoice)
    BY <1>3 DEF UpdateTxn, Goto
  <2>2. Guarded'
    <3> SUFFICES ASSUME NEW v \in Workers, pc'[v] \in Settling, ~tainted'[arg[v]]
                 PROVE  status[arg[v]] = "completed" <=> op[v] = "refund"
      BY <2>0 DEF Guarded
    <3>1. CASE v = w
      BY <1>0, <2>0, <3>1
    <3>2. CASE v # w
      BY <1>0, <2>0, <2>1, <3>2 DEF Guarded, Settling
    <3> QED
      BY <3>1, <3>2
  <2>3. ASSUME NEW t \in Txns, InvoiceOf[t] \in Invoices, ~tainted'[t]
        PROVE  net'[t] = (IF Counted(t)' THEN 1 ELSE 0)
    <3>1. net[t] = (IF Counted(t) THEN 1 ELSE 0)
      BY <1>0, <2>0, <2>3 DEF CreditMatchesStatus
    <3>2. Counted(t)' <=> Counted(t)
      <4>1. CASE t = r
        BY <1>0, <2>0, <2>1, <2>3, <4>1, CountedCases, CountedCasesNext
      <4>2. CASE t # r
        <5>1. rowOwner[t] # w
          BY <2>0, <2>3 DEF Owned, Settling
        <5> QED
          BY <1>0, <2>0, <2>1, <2>3, <4>2, <5>1, CountedCases, CountedCasesNext
      <4> QED
        BY <4>1, <4>2
    <3> QED
      BY <2>0, <3>1, <3>2
  <2> QED
    BY <2>2, <2>3 DEF CreditMatchesStatus
\* The invoice write and the read before it: the row stays with w.
<1>4. ASSUME NEW w \in Workers, pc[w] \in {"invoice", "write"}, NEW l \in {"write", "commit"},
             pc' = [pc EXCEPT ![w] = l],
             UNCHANGED <<status, rowOwner, tainted, op, arg>>,
             \/ l = "write" /\ net' = net
             \/ l = "commit" /\ net' = [net EXCEPT ![arg[w]] = @ + Sign(op[w])]
      PROVE  Guarded' /\ CreditMatchesStatus'
  <2>0. /\ arg[w] \in Txns /\ rowOwner[arg[w]] = w /\ op[w] \in {"complete", "refund"}
        /\ \A t \in Txns : rowOwner[t] = w => t = arg[w]
    BY <1>0, <1>4 DEF Owned, Typed, Placed, Settling
  <2>1. Guarded'
    BY <1>0, <1>4 DEF Guarded, Settling
  <2>2. ASSUME NEW t \in Txns, InvoiceOf[t] \in Invoices, ~tainted'[t]
        PROVE  net'[t] = (IF Counted(t)' THEN 1 ELSE 0)
    <3>1. net[t] = (IF Counted(t) THEN 1 ELSE 0)
      BY <1>4, <2>2 DEF CreditMatchesStatus
    <3>2. CASE t # arg[w]
      <4>1. rowOwner[t] # w
        BY <2>0, <3>2
      <4>2. Counted(t)' <=> Counted(t)
        BY <1>0, <1>4, <2>2, <4>1, CountedCases, CountedCasesNext
      <4> QED
        BY <1>0, <1>4, <3>1, <3>2, <4>2
    <3>3. CASE t = arg[w]
      <4>1. status[t] = "completed" <=> op[w] = "refund"
        BY <1>4, <2>2, <3>3 DEF Guarded, Settling
      <4>2. Counted(t) <=> op[w] = "refund"
        BY <1>4, <2>0, <2>2, <3>3, <4>1, CountedCases
      <4>3. CASE l = "write"
        BY <1>0, <1>4, <2>0, <2>2, <3>1, <3>3, <4>1, <4>2, <4>3, CountedCasesNext
      <4>4. CASE l = "commit"
        <5>1. Counted(t)' <=> op[w] = "complete"
          BY <1>0, <1>4, <2>0, <2>2, <3>3, <4>4, CountedCasesNext
        <5>2. net'[t] = net[t] + Sign(op[w])
          BY <1>0, <1>4, <3>3, <4>4
        <5> QED
          BY <2>0, <3>1, <4>2, <5>1, <5>2 DEF Sign
      <4> QED
        BY <1>4, <4>3, <4>4
    <3> QED
      BY <3>2, <3>3
  <2> QED
    BY <2>1, <2>2 DEF CreditMatchesStatus
<1>5. ASSUME NEW w \in Workers, ReadInvoice(w) \/ WriteInvoice(w)
      PROVE  Guarded' /\ CreditMatchesStatus'
  <2>1. pc[w] \in {"invoice", "write"} /\ UNCHANGED <<status, tainted>>
    BY <1>5 DEF ReadInvoice, WriteInvoice
  <2>2. CASE Release(w) /\ Finish(w) /\ UNCHANGED net
    BY <1>2, <2>1, <2>2
  <2>3. CASE ~(Release(w) /\ Finish(w) /\ UNCHANGED net)
    BY <1>4, <1>5, <2>1, <2>3 DEF ReadInvoice, WriteInvoice, Goto
  <2> QED
    BY <2>2, <2>3
<1>6. ASSUME NEW w \in Workers, CommitSettle(w) PROVE Guarded' /\ CreditMatchesStatus'
  <2> DEFINE r == arg[w]
  <2>0. /\ r \in Txns /\ rowOwner[r] = w /\ pc[w] = "commit"
        /\ op[w] \in {"complete", "refund"}
        /\ status' = [status EXCEPT ![r] = Written(op[w])]
        /\ pc' = [pc EXCEPT ![w] = "idle"]
        /\ \A v \in Workers : v # w => op'[v] = op[v] /\ arg'[v] = arg[v]
        /\ \A t \in Txns : rowOwner'[t] = (IF rowOwner[t] = w THEN NoWorker ELSE rowOwner[t])
        /\ UNCHANGED <<net, tainted>>
    BY <1>0, <1>6 DEF CommitSettle, Finish, Release, Owned, Typed, Placed, Settling
  <2>1. Guarded'
    <3> SUFFICES ASSUME NEW v \in Workers, v # w, pc[v] \in Settling, ~tainted[arg[v]]
                 PROVE  status'[arg[v]] = "completed" <=> op[v] = "refund"
      BY <1>0, <2>0 DEF Guarded, Settling
    <3>1. arg[v] # r /\ arg[v] \in Txns
      BY <1>0, <2>0, OneSettler DEF Settling
    <3> QED
      BY <1>0, <2>0, <3>1 DEF Guarded
  <2>2. ASSUME NEW t \in Txns, InvoiceOf[t] \in Invoices, ~tainted'[t]
        PROVE  net'[t] = (IF Counted(t)' THEN 1 ELSE 0)
    <3>1. net[t] = (IF Counted(t) THEN 1 ELSE 0)
      BY <2>0, <2>2 DEF CreditMatchesStatus
    <3>2. Counted(t)' <=> Counted(t)
      <4>1. CASE t = r
        <5>1. Counted(t) <=> op[w] = "complete"
          BY <2>0, <2>2, <4>1, CountedCases
        <5>2. Counted(t)' <=> status'[t] = "completed"
          BY <2>0, <2>2, <4>1, CountedCasesNext
        <5>3. status'[t] = Written(op[w])
          BY <1>0, <2>0, <4>1
        <5> QED
          BY <2>0, <5>1, <5>2, <5>3 DEF Written
      <4>2. CASE t # r
        <5>1. rowOwner[t] # w
          BY <2>0, <2>2, <4>2 DEF Owned
        <5>2. rowOwner'[t] = rowOwner[t] /\ status'[t] = status[t]
          BY <1>0, <2>0, <4>2, <5>1
        <5>3. ASSUME NEW v \in Workers, v = rowOwner[t]
              PROVE  pc'[v] = pc[v] /\ op'[v] = op[v]
          BY <1>0, <2>0, <5>1, <5>3
        <5> HIDE DEF r
        <5> QED
          BY <2>2, <5>2, <5>3, CountedCases, CountedCasesNext
      <4> QED
        BY <4>1, <4>2
    <3> QED
      BY <2>0, <3>1, <3>2
  <2> QED
    BY <2>1, <2>2 DEF CreditMatchesStatus
<1>7. ASSUME NEW w \in Workers, ConnectionTimeout(w) \/ Fault(w)
      PROVE  Guarded' /\ CreditMatchesStatus'
  <2>1. Abandon(w) /\ pc[w] # "idle"
    BY <1>7 DEF ConnectionTimeout, Fault, NeedsPool
  <2>2. \A t \in Txns : ~tainted'[t] => ~tainted[t]
    BY <1>0, <2>1 DEF Abandon
  <2>3. pc[w] = "commit" /\ InvoiceOf[arg[w]] \in Invoices => tainted'[arg[w]]
    BY <1>0, <2>1 DEF Abandon
  <2> QED
    BY <1>2, <2>1, <2>2, <2>3 DEF Abandon
<1>8. ASSUME NEW w \in Workers, CommitCreate(w) \/ FailTxn(w) PROVE Guarded' /\ CreditMatchesStatus'
  <2>1. /\ pc[w] \in {"insert", "statement"}
        /\ pc' = [pc EXCEPT ![w] = "idle"]
        /\ \A v \in Workers : v # w => op'[v] = op[v] /\ arg'[v] = arg[v]
        /\ UNCHANGED <<rowOwner, net>>
    BY <1>0, <1>8 DEF CommitCreate, FailTxn, Finish
  <2>2. \A t \in Txns : ~tainted'[t] => ~tainted[t]
                /\ (status'[t] = "completed" <=> status[t] = "completed")
    <3>1. CASE CommitCreate(w)
      BY <1>0, <3>1 DEF CommitCreate, Born, Creating
    <3>2. CASE FailTxn(w)
      BY <1>0, <3>2 DEF FailTxn
    <3> QED
      BY <1>8, <3>1, <3>2
  <2> QED
    BY <1>0, <1>1, <2>1, <2>2 DEF Settling
<1>9. ASSUME NEW w \in Workers,
             Start(w) \/ GenerateReference(w) \/ ReadTxn(w) \/ Connect(w) \/ Reconcile(w)
      PROVE  Guarded' /\ CreditMatchesStatus'
  <2>1. UNCHANGED <<status, rowOwner, net, tainted>>
    BY <1>9 DEF Start, StartCreate, StartSettle, StartAuto, GenerateReference, ReadTxn,
                Connect, Reconcile
  <2>2. pc[w] \notin Settling /\ pc'[w] \notin Settling
    BY <1>0, <1>9 DEF Start, StartCreate, StartSettle, StartAuto, Accept, GenerateReference,
                      ReadTxn, Connect, Reconcile, Goto, Finish, Settling
  <2>3. \A v \in Workers : v # w => pc'[v] = pc[v] /\ op'[v] = op[v] /\ arg'[v] = arg[v]
    BY <1>0, <1>9 DEF Start, StartCreate, StartSettle, StartAuto, Accept, GenerateReference,
                      ReadTxn, Connect, Reconcile, Goto, Finish
  <2> QED
    BY <1>1, <2>1, <2>2, <2>3
<1>10. ASSUME UNCHANGED <<status, rowOwner, net, tainted, pc, op, arg>>
       PROVE  Guarded' /\ CreditMatchesStatus'
  BY <1>10 DEF Guarded, CreditMatchesStatus, Counted
<1>11. ASSUME NEW i \in Invoices, FallDue(i) \/ Postpone(i) \/ DeleteInvoice(i)
       PROVE  Guarded' /\ CreditMatchesStatus'
  BY <1>10, <1>11 DEF FallDue, Postpone, DeleteInvoice
<1>12. CASE MarkOverdue \/ UNCHANGED vars
  BY <1>10, <1>12 DEF MarkOverdue, vars
<1> HIDE DEF CreditInv
<1> QED
  BY <1>3, <1>5, <1>6, <1>7, <1>8, <1>9, <1>11, <1>12 DEF Next, PoolStep, RowStep, CommitStep

\* What carries CreditMatchesStatus always holds.
LEMMA CreditAlways == Spec => []CreditInv
<1>1. Init => CreditInv
  <2> SUFFICES ASSUME Init PROVE CreditInv
    OBVIOUS
  <2>1. Born /\ Guarded
    BY DEF Init, Born, Guarded, Creating, Settling
  <2>2. CreditMatchesStatus
    BY DEF Init, CreditMatchesStatus, Counted
  <2> QED
    BY <2>1, <2>2, TypedInit DEF CreditInv
<1>2. CreditInv /\ [Next]_vars => CreditInv'
  BY TypedStep, OwnedStep, BornStep, CreditStep DEF CreditInv
<1> QED
  BY <1>1, <1>2, PTL DEF Spec

\* For every number of handlers and faults, a transaction counts in its invoice exactly
\* when its status says so, unless one of the three recorded causes happened to it
\* (completeTransaction, refundTransaction, failTransaction).
THEOREM CreditFollowsStatus == Spec => []CreditMatchesStatus
<1>1. CreditInv => CreditMatchesStatus
  BY DEF CreditInv
<1> QED
  BY <1>1, CreditAlways, PTL

-----------------------------------------------------------------------------
(***************************************************************************)
(* The money on the invoices is the money that payments applied and        *)
(* reversals took back, as long as no two handlers write one invoice at a  *)
(* time: a handler that reads an amount then writes over it, and a payment *)
(* in between would be lost.                                               *)
(***************************************************************************)
Credited == [t \in Txns |-> net[t] * Amount[t]]
Payers(i) == {t \in Txns : InvoiceOf[t] = i}

\* The requests come one at a time, or every invoice has one transaction to pay it.
OnePayer ==
    \/ \A v, w \in Workers : v = w
    \/ \A t, u \in Txns : InvoiceOf[t] \in Invoices /\ InvoiceOf[t] = InvoiceOf[u] => t = u

Steady == \A w \in Workers : pc[w] = "write" => seenPaid[w] = amountPaid[InvoiceOf[arg[w]]]
Banked == \A i \in Invoices : amountPaid[i] = SumOver(Credited, Payers(i))

\* Finitely many rows have a sum.
LEMMA SumsOfTxns ==
  ASSUME NEW S, S \subseteq Txns
  PROVE  IsFiniteSet(S) /\ \A t \in S : Amount[t] \in Int
<1>1. IsFiniteSet(S)
  BY ReportsAssumption, FS_Subset
<1> QED
  BY <1>1

\* Two handlers never write the same invoice.
LEMMA NoRival ==
  ASSUME Typed, Owned, OnePayer, NEW v \in Workers, NEW w \in Workers, v # w,
         pc[v] = "write", pc[w] = "write"
  PROVE  InvoiceOf[arg[v]] # InvoiceOf[arg[w]]
<1>1. arg[v] \in Txns /\ arg[w] \in Txns /\ InvoiceOf[arg[v]] \in Invoices
  BY DEF Typed, Placed
<1>2. arg[v] # arg[w]
  BY OneSettler DEF Settling
<1> QED
  BY <1>1, <1>2 DEF OnePayer

\* A handler writes to its invoice what is there and what it adds.
LEMMA BankedStep ==
  ASSUME Typed, Owned, OnePayer, Steady, Banked, [Next]_vars
  PROVE  Steady' /\ Banked'
<1>0. /\ pc \in [Workers -> Label] /\ arg \in [Workers -> Txns \cup {NoTxn}]
      /\ seenPaid \in [Workers -> Int] /\ amountPaid \in [Invoices -> Int]
      /\ net \in [Txns -> Int]
      /\ \A w \in Workers : pc[w] \in {"invoice", "write"} =>
            arg[w] \in Txns /\ InvoiceOf[arg[w]] \in Invoices
  BY DEF Typed, TypeOK, WorkerTypeOK, InvoiceTypeOK, HistoryTypeOK, Placed
<1>1. CASE MoneyStays
  <2>1. Steady'
    BY <1>1 DEF MoneyStays, Steady
  <2>2. Banked'
    BY <1>1 DEF MoneyStays, Banked, Credited
  <2> QED
    BY <2>1, <2>2
<1>2. ASSUME NEW w \in Workers, MoneyRead(w) PROVE Steady' /\ Banked'
  <2>1. Steady'
    BY <1>0, <1>2 DEF MoneyRead, Steady
  <2>2. Banked'
    BY <1>2 DEF MoneyRead, Banked, Credited
  <2> QED
    BY <2>1, <2>2
<1>3. ASSUME NEW w \in Workers, MoneyWritten(w) PROVE Steady' /\ Banked'
  <2>1. PICK t \in Txns, i \in Invoices, s \in {1, -1} :
           t = arg[w] /\ i = InvoiceOf[t] /\ s = Sign(op[w])
    BY <1>0, <1>3 DEF MoneyWritten, Sign
  <2>2. /\ amountPaid' = [amountPaid EXCEPT ![i] = amountPaid[i] + s * Amount[t]]
        /\ net' = [net EXCEPT ![t] = net[t] + s]
        /\ pc' = [pc EXCEPT ![w] = "commit"]
        /\ UNCHANGED <<arg, seenPaid>>
    BY <1>0, <1>3, <2>1 DEF MoneyWritten, Steady
  <2>3. Steady'
    <3> SUFFICES ASSUME NEW v \in Workers, pc'[v] = "write"
                 PROVE  seenPaid'[v] = amountPaid'[InvoiceOf[arg'[v]]]
      BY DEF Steady
    <3>1. v # w /\ pc[v] = "write"
      BY <1>0, <2>2
    <3>2. InvoiceOf[arg[v]] # i /\ InvoiceOf[arg[v]] \in Invoices
      BY <1>0, <1>3, <2>1, <3>1, NoRival DEF MoneyWritten
    <3> QED
      BY <1>0, <2>2, <3>1, <3>2 DEF Steady
  <2>4. PICK g : g = Credited'
    OBVIOUS
  <2>5. /\ \A u \in Txns : Credited[u] \in Int /\ g[u] \in Int
        /\ \A u \in Txns \ {t} : g[u] = Credited[u]
        /\ g[t] = Credited[t] + s * Amount[t]
    <3>1. \A u \in Txns : net[u] \in Int /\ net'[u] \in Int /\ Amount[u] \in Int
      BY <1>0, <2>2
    <3>2. \A u \in Txns : Credited[u] = net[u] * Amount[u] /\ g[u] = net'[u] * Amount[u]
      BY <2>4 DEF Credited
    <3>3. net'[t] = net[t] + s /\ \A u \in Txns \ {t} : net'[u] = net[u]
      BY <1>0, <2>2
    <3>4. ASSUME NEW n \in Int, NEW a \in Int PROVE n * a \in Int /\ (n + s) * a = n * a + s * a
      BY <3>4
    <3>5. g[t] = Credited[t] + s * Amount[t]
      BY <3>1, <3>2, <3>3, <3>4
    <3> QED
      BY <3>1, <3>2, <3>3, <3>4, <3>5
  <2>6. ASSUME NEW j \in Invoices PROVE amountPaid'[j] = SumFunctionOnSet(g, Payers(j))
    <3>1. amountPaid[j] = SumFunctionOnSet(Credited, Payers(j))
      BY DEF Banked, SumOver
    <3>2. Payers(j) \subseteq Txns /\ IsFiniteSet(Payers(j))
      <4>1. Payers(j) \subseteq Txns
        BY DEF Payers
      <4> QED
        BY <4>1, SumsOfTxns
    <3>3. CASE j # i
      <4>1. \A u \in Payers(j) : Credited[u] \in Int /\ g[u] = Credited[u]
        BY <2>1, <2>5, <3>3 DEF Payers
      <4>2. SumFunctionOnSet(g, Payers(j)) = SumFunctionOnSet(Credited, Payers(j))
        BY <3>2, <4>1, SumSame
      <4> QED
        BY <1>0, <2>2, <3>1, <3>3, <4>2
    <3>4. CASE j = i
      <4> DEFINE Q == Payers(j) \ {t}
      <4>1. t \in Payers(j) /\ Q \subseteq Payers(j)
        BY <2>1, <3>4 DEF Payers
      <4>2. IsFiniteSet(Q) /\ \A u \in Q : Credited[u] \in Int /\ g[u] = Credited[u]
        BY <2>5, <3>2, <4>1, FS_Subset
      <4>3. SumFunctionOnSet(g, Q) = SumFunctionOnSet(Credited, Q)
              /\ SumFunctionOnSet(Credited, Q) \in Int
        BY <4>2, SumSame, SumType
      <4>4. SumFunctionOnSet(Credited, Payers(j)) = Credited[t] + SumFunctionOnSet(Credited, Q)
        BY <2>5, <3>2, <4>1, SumRemoves
      <4>5. SumFunctionOnSet(g, Payers(j)) = g[t] + SumFunctionOnSet(g, Q)
        BY <2>5, <3>2, <4>1, SumRemoves
      <4>6. amountPaid'[j] = amountPaid[j] + s * Amount[t] /\ s * Amount[t] \in Int
            /\ Credited[t] \in Int
        BY <1>0, <2>2, <2>5, <3>4
      <4> HIDE DEF Q
      <4>7. PICK a \in Int : a = s * Amount[t]
        BY <4>6
      <4> QED
        BY <2>5, <3>1, <4>3, <4>4, <4>5, <4>6, <4>7
    <3> QED
      BY <3>3, <3>4
  <2>7. Banked'
    BY <2>4, <2>6 DEF Banked, SumOver, Payers
  <2> QED
    BY <2>3, <2>7
<1> QED
  BY <1>1, <1>2, <1>3, MoneyMoves

-----------------------------------------------------------------------------
(***************************************************************************)
(* The reports.  Rows that are counted under different headings are        *)
(* disjoint sets, and sums over them add up.                               *)
(***************************************************************************)
\* Whatever payments a column adds up, adding it up over the methods gives the sum.
LEMMA ByMethod ==
  ASSUME NEW S, S \subseteq Txns, NEW column,
         column = [m \in Methods |-> SumOver(Amount, {t \in S : MethodOf[t] = m})]
  PROVE  AllMethods(column) = SumOver(Amount, S)
<1> DEFINE group == [t \in S |-> MethodOf[t]]
<1>1. group \in [S -> Methods] /\ IsFiniteSet(Methods)
  BY ReportsAssumption
<1>2. \A m \in Methods : {t \in S : MethodOf[t] = m} = {t \in S : group[t] = m}
  OBVIOUS
<1>3. column = [m \in Methods |-> SumFunctionOnSet(Amount, {t \in S : group[t] = m})]
  BY <1>2 DEF SumOver
<1> HIDE DEF group
<1>4. SumFunctionOnSet([m \in Methods |-> SumFunctionOnSet(Amount, {t \in S : group[t] = m})], Methods)
        = SumFunctionOnSet(Amount, S)
  BY <1>1, SumsOfTxns, SumByGroup
<1> QED
  BY <1>3, <1>4 DEF AllMethods, SumOver

\* Payments that are counted apart.
LEMMA Apart ==
  ASSUME NEW A, NEW B, A \subseteq Txns, B \subseteq Txns, A \cap B = {}
  PROVE  /\ SumOver(Amount, A \cup B) = SumOver(Amount, A) + SumOver(Amount, B)
         /\ SumOver(Amount, A) \in Int
<1>1. A \cup B \subseteq Txns
  OBVIOUS
<1>2. IsFiniteSet(A \cup B) /\ \A t \in A \cup B : Amount[t] \in Int
  BY <1>1, SumsOfTxns
<1>3. IsFiniteSet(A) /\ \A t \in A : Amount[t] \in Int
  BY SumsOfTxns
<1>4. SumFunctionOnSet(Amount, A \cup B) = SumFunctionOnSet(Amount, A) + SumFunctionOnSet(Amount, B)
  BY <1>2, SumSplits
<1> QED
  BY <1>3, <1>4, SumType DEF SumOver

\* The reports of transactions add up to each other in every state.
LEMMA TransactionsAddUp ==
  ASSUME TypeOK
  PROVE  TransactionsAccount
<1> DEFINE Sold(ss) == {t \in Txns : status[t] \in ss}
           three == {"completed", "pending", "failed"}
<1>1. MonthlySummary.completed = AllMethods([m \in Methods |-> ReconciliationReport(m).expected])
  <2> DEFINE U == Sold({"completed"})
             column == [m \in Methods |-> ReconciliationReport(m).expected]
  <2>1. U \subseteq Txns /\ U = {t \in {t \in Txns : status[t] # "absent"} : status[t] = "completed"}
    OBVIOUS
  <2>2. \A m \in Methods : With(m, {"completed"}) = {t \in U : MethodOf[t] = m}
    BY DEF With
  <2>3. column = [m \in Methods |-> SumOver(Amount, {t \in U : MethodOf[t] = m})]
    BY <2>2 DEF ReconciliationReport
  <2>4. MonthlySummary.completed = SumOver(Amount, U)
    BY <2>1 DEF MonthlySummary
  <2> HIDE DEF U, column
  <2>5. AllMethods(column) = SumOver(Amount, U)
    BY <2>1, <2>3, ByMethod
  <2> QED
    BY <2>4, <2>5 DEF column
<1>2. SumOver(Amount, Unreconciled) = AllMethods([m \in Methods |-> ReconciliationReport(m).unreconciled])
  <2> DEFINE column == [m \in Methods |-> ReconciliationReport(m).unreconciled]
  <2>1. Unreconciled \subseteq Txns
    BY DEF Unreconciled
  <2>2. \A m \in Methods :
           {t \in With(m, {"completed"}) : ~reconciled[t]} = {t \in Unreconciled : MethodOf[t] = m}
    BY DEF With, Unreconciled
  <2>3. column = [m \in Methods |-> SumOver(Amount, {t \in Unreconciled : MethodOf[t] = m})]
    BY <2>2 DEF ReconciliationReport
  <2> HIDE DEF column
  <2>4. AllMethods(column) = SumOver(Amount, Unreconciled)
    BY <2>1, <2>3, ByMethod
  <2> QED
    BY <2>4 DEF column
<1>3. MonthlySummary.total =
         AllMethods([m \in Methods |-> LET d == DailySummary(m)
                                       IN d.completed + d.pending + d.failed])
         + SumOver(Amount, {t \in Txns : status[t] = "refunded"})
  <2> DEFINE column == [m \in Methods |-> LET d == DailySummary(m)
                                          IN d.completed + d.pending + d.failed]
             U == Sold(three)
             R == {t \in Txns : status[t] = "refunded"}
             rows == {t \in Txns : status[t] # "absent"}
  <2>1. ASSUME NEW m \in Methods
        PROVE  column[m] = SumOver(Amount, {t \in U : MethodOf[t] = m})
    <3> DEFINE C == With(m, {"completed"})
               P == With(m, {"pending"})
               F == With(m, {"failed"})
    <3>1. /\ C \subseteq Txns /\ P \subseteq Txns /\ F \subseteq Txns
          /\ C \cap P = {} /\ (C \cup P) \cap F = {} /\ C \cup P \subseteq Txns
          /\ C \cup P \cup F = {t \in U : MethodOf[t] = m}
      BY DEF With
    <3>2. column[m] = SumOver(Amount, C) + SumOver(Amount, P) + SumOver(Amount, F)
      BY DEF DailySummary
    <3> HIDE DEF C, P, F, column, U
    <3>3. /\ SumOver(Amount, C \cup P) = SumOver(Amount, C) + SumOver(Amount, P)
          /\ SumOver(Amount, C \cup P \cup F) = SumOver(Amount, C \cup P) + SumOver(Amount, F)
      BY <3>1, Apart
    <3> QED
      BY <3>1, <3>2, <3>3
  <2>2. column = [m \in Methods |-> SumOver(Amount, {t \in U : MethodOf[t] = m})]
    <3>1. column = [m \in Methods |-> column[m]]
      OBVIOUS
    <3> HIDE DEF column, U
    <3> QED
      BY <2>1, <3>1, Zenon
  <2>3. rows = U \cup R /\ U \cap R = {} /\ U \subseteq Txns /\ R \subseteq Txns
    <3>1. \A t \in Txns : status[t] \in {"absent", "pending", "completed", "failed", "refunded"}
      BY DEF TypeOK, TxnTypeOK, TxnStatus
    <3> QED
      BY <3>1
  <2>4. MonthlySummary.total = SumOver(Amount, rows)
    BY DEF MonthlySummary
  <2> HIDE DEF column, U, R, rows
  <2>5. SumOver(Amount, rows) = SumOver(Amount, U) + SumOver(Amount, R)
    BY <2>3, Apart
  <2>6. AllMethods(column) = SumOver(Amount, U)
    BY <2>2, <2>3, ByMethod
  <2>7. MonthlySummary.total = AllMethods(column) + SumOver(Amount, R)
    BY <2>4, <2>5, <2>6
  <2> QED
    BY <2>7 DEF column, R
<1> QED
  BY <1>1, <1>2, <1>3 DEF TransactionsAccount

\* The same of what invoices owe.
LEMMA DebtsApart ==
  ASSUME TypeOK, NEW A, NEW B, A \subseteq Invoices, B \subseteq Invoices, A \cap B = {}
  PROVE  /\ SumOver(balanceDue, A \cup B) = SumOver(balanceDue, A) + SumOver(balanceDue, B)
         /\ SumOver(balanceDue, A) \in Int
<1>1. /\ \A i \in Invoices : balanceDue[i] \in Int
      /\ A \cup B \subseteq Invoices
  BY DEF TypeOK, InvoiceTypeOK
<1>2. IsFiniteSet(A \cup B) /\ IsFiniteSet(A)
  BY <1>1, ReportsAssumption, FS_Subset
<1>3. SumFunctionOnSet(balanceDue, A \cup B)
        = SumFunctionOnSet(balanceDue, A) + SumFunctionOnSet(balanceDue, B)
  BY <1>1, <1>2, SumSplits
<1>4. SumFunctionOnSet(balanceDue, A) \in Int
  BY <1>1, <1>2, SumType
<1> QED
  BY <1>3, <1>4 DEF SumOver

\* The buckets miss what is known to be missed, and count twice what is known to be.
LEMMA AgingAddsUp ==
  ASSUME TypeOK
  PROVE  AgingAccounts
<1> DEFINE open == {i \in Invoices : paymentStatus[i] \in {"unpaid", "partial"}}
           D(S) == SumOver(balanceDue, S)
<1>1. ASSUME NEW age \in Calendars
      PROVE  LET report  == AgingReport(age)
                 counted == report[1] + report[2] + report[3] + report[4] + report[5]
             IN Statistics.outstanding =
                  counted + D(Listed \cap (Invoices \ open))
                          + D(Listed \cap {i \in open : age[i] \in {61, 121}})
                          - D(Listed \cap {i \in open : age[i] = 0})
  <2> DEFINE Late(ages) == {i \in Listed : /\ paymentStatus[i] \in {"unpaid", "partial"}
                                           /\ age[i] \in ages}
             B1 == Late({n \in Int : n <= 0})
             B2 == Late(0..60)
             B3 == Late(62..120)
             B4 == Late(122..180)
             B5 == Late({n \in Int : n > 180})
             Now == Listed \cap {i \in open : age[i] = 0}
             Gap == Listed \cap {i \in open : age[i] \in {61, 121}}
             Rest == Listed \cap (Invoices \ open)
             B2a == Late(1..60)
             X2 == B1 \cup B2a
             X3 == X2 \cup B3
             X4 == X3 \cup B4
             X5 == X4 \cup B5
             X6 == X5 \cup Gap
  <2>1. \A i \in Invoices : age[i] \in Int
    BY ReportsAssumption DEF Calendars
  <2>2. Listed \subseteq Invoices
    BY DEF Listed
  <2>3. /\ AgingReport(age)[1] = D(B1) /\ AgingReport(age)[2] = D(B2)
        /\ AgingReport(age)[3] = D(B3) /\ AgingReport(age)[4] = D(B4)
        /\ AgingReport(age)[5] = D(B5)
    BY DEF AgingReport
  <2>4. Statistics.outstanding = D(Listed)
    BY DEF Statistics
  <2>5. B2 = Now \cup B2a /\ Now \cap B2a = {}
    BY <2>1, <2>2
  <2>6. B1 \cap B2a = {} /\ X2 \cap B3 = {} /\ X3 \cap B4 = {} /\ X4 \cap B5 = {}
    BY <2>1, <2>2
  <2>7. X5 \cap Gap = {} /\ X6 \cap Rest = {}
    BY <2>1, <2>2
  <2>8. Listed = X6 \cup Rest
    <3>1. ASSUME NEW i \in Listed PROVE i \in X6 \cup Rest
      BY <2>1, <2>2
    <3> QED
      BY <2>2, <3>1
  <2>9. /\ B1 \subseteq Invoices /\ B2a \subseteq Invoices /\ B3 \subseteq Invoices
        /\ B4 \subseteq Invoices /\ B5 \subseteq Invoices /\ Now \subseteq Invoices
        /\ Gap \subseteq Invoices /\ Rest \subseteq Invoices
    BY <2>2
  <2> HIDE DEF B1, B2, B3, B4, B5, B2a, Now, Gap, Rest
  <2>10. /\ X2 \subseteq Invoices /\ X3 \subseteq Invoices /\ X4 \subseteq Invoices
         /\ X5 \subseteq Invoices /\ X6 \subseteq Invoices
    BY <2>9
  <2>11. X2 = B1 \cup B2a /\ X3 = X2 \cup B3 /\ X4 = X3 \cup B4 /\ X5 = X4 \cup B5 /\ X6 = X5 \cup Gap
    OBVIOUS
  <2> HIDE DEF X2, X3, X4, X5, X6
  <2>12. D(B2) = D(Now) + D(B2a) /\ D(Now) \in Int
    BY <2>5, <2>9, DebtsApart
  <2>13. D(X2) = D(B1) + D(B2a) /\ D(B1) \in Int
    BY <2>6, <2>9, <2>11, DebtsApart
  <2>14. D(X3) = D(X2) + D(B3)
    BY <2>6, <2>9, <2>10, <2>11, DebtsApart
  <2>15. D(X4) = D(X3) + D(B4)
    BY <2>6, <2>9, <2>10, <2>11, DebtsApart
  <2>16. D(X5) = D(X4) + D(B5)
    BY <2>6, <2>9, <2>10, <2>11, DebtsApart
  <2>17. D(X6) = D(X5) + D(Gap)
    BY <2>7, <2>9, <2>10, <2>11, DebtsApart
  <2>18. D(Listed) = D(X6) + D(Rest)
    BY <2>7, <2>8, <2>9, <2>10, DebtsApart
  <2>19. /\ D(B2a) \in Int /\ D(B3) \in Int /\ D(B4) \in Int /\ D(B5) \in Int
         /\ D(Gap) \in Int /\ D(Rest) \in Int
    <3>1. ASSUME NEW S, S \subseteq Invoices PROVE D(S) \in Int
      <4>1. {} \subseteq Invoices /\ S \cap {} = {}
        OBVIOUS
      <4> QED
        BY <3>1, <4>1, DebtsApart
    <3> QED
      BY <2>9, <3>1
  <2>20. Statistics.outstanding =
           D(B1) + D(B2) + D(B3) + D(B4) + D(B5) + D(Rest) + D(Gap) - D(Now)
    <3> HIDE DEF D
    <3> QED
      BY <2>4, <2>12, <2>13, <2>14, <2>15, <2>16, <2>17, <2>18, <2>19
  <2>21. Statistics.outstanding =
           AgingReport(age)[1] + AgingReport(age)[2] + AgingReport(age)[3] + AgingReport(age)[4]
             + AgingReport(age)[5] + D(Rest) + D(Gap) - D(Now)
    <3> HIDE DEF D
    <3> QED
      BY <2>3, <2>20
  <2> HIDE DEF D
  <2> QED
    BY <2>21 DEF Rest, Gap, Now
<1> QED
  BY <1>1 DEF AgingAccounts

\* Once all handlers are idle, the invoices together have the money of the completed
\* payments.
LEMMA CollectedAddsUp ==
  ASSUME TypeOK, Banked,
         \A t \in Txns : InvoiceOf[t] \in Invoices =>
            net[t] = IF status[t] = "completed" THEN 1 ELSE 0
  PROVE  AllMethods([m \in Methods |-> DailySummary(m).completed]) =
           Statistics.paid
           + SumOver(amountPaid, Invoices \ Listed)
           + SumOver(Amount, {t \in Txns : status[t] = "completed" /\ InvoiceOf[t] = NoInvoice})
<1> DEFINE U == {t \in Txns : status[t] = "completed"}
           P == {t \in Txns : InvoiceOf[t] \in Invoices}
           A == {t \in P : status[t] = "completed"}
           Z == {t \in P : status[t] # "completed"}
           N == {t \in Txns : status[t] = "completed" /\ InvoiceOf[t] = NoInvoice}
           column == [m \in Methods |-> DailySummary(m).completed]
<1>1. AllMethods(column) = SumOver(Amount, U)
  <2>1. U \subseteq Txns /\ \A m \in Methods : With(m, {"completed"}) = {t \in U : MethodOf[t] = m}
    BY DEF With
  <2>2. column = [m \in Methods |-> SumOver(Amount, {t \in U : MethodOf[t] = m})]
    BY <2>1 DEF DailySummary
  <2> HIDE DEF U, column
  <2> QED
    BY <2>1, <2>2, ByMethod
<1>2. SumOver(Amount, U) = SumOver(Amount, A) + SumOver(Amount, N)
  <2>1. A \cup N = U /\ A \cap N = {} /\ A \subseteq Txns /\ N \subseteq Txns
    OBVIOUS
  <2> HIDE DEF A, N, U
  <2> QED
    BY <2>1, Apart
<1>3. SumOver(amountPaid, Invoices) = Statistics.paid + SumOver(amountPaid, Invoices \ Listed)
  <2>1. \A i \in Invoices : amountPaid[i] \in Int
    BY DEF TypeOK, InvoiceTypeOK
  <2>2. Listed \cup (Invoices \ Listed) = Invoices /\ Listed \cap (Invoices \ Listed) = {}
    BY DEF Listed
  <2>3. SumFunctionOnSet(amountPaid, Invoices)
          = SumFunctionOnSet(amountPaid, Listed) + SumFunctionOnSet(amountPaid, Invoices \ Listed)
    BY <2>1, <2>2, ReportsAssumption, SumSplits
  <2> QED
    BY <2>3 DEF Statistics, SumOver
<1>4. \A t \in P : Credited[t] \in Int /\ Amount[t] \in Int
              /\ Credited[t] = IF status[t] = "completed" THEN Amount[t] ELSE 0
  BY DEF Credited
<1>5. IsFiniteSet(P) /\ IsFiniteSet(A) /\ IsFiniteSet(Z)
  <2>1. P \subseteq Txns /\ A \subseteq Txns /\ Z \subseteq Txns
    OBVIOUS
  <2> HIDE DEF P, A, Z
  <2> QED
    BY <2>1, SumsOfTxns
<1>6. SumOver(amountPaid, Invoices) = SumOver(Credited, P)
  <2> DEFINE group == [t \in P |-> InvoiceOf[t]]
             part == [i \in Invoices |-> SumFunctionOnSet(Credited, {t \in P : group[t] = i})]
  <2>1. group \in [P -> Invoices]
    OBVIOUS
  <2>2. \A i \in Invoices : Payers(i) = {t \in P : group[t] = i}
    BY DEF Payers
  <2>3. \A i \in Invoices : amountPaid[i] = SumFunctionOnSet(Credited, {t \in P : group[t] = i})
    BY <2>2 DEF Banked, SumOver
  <2>4. amountPaid = part
    <3>1. amountPaid = [i \in Invoices |-> amountPaid[i]]
      BY DEF TypeOK, InvoiceTypeOK
    <3> HIDE DEF P, group
    <3> QED
      BY <2>3, <3>1, Zenon
  <2> HIDE DEF P, group
  <2>5. SumFunctionOnSet(part, Invoices) = SumFunctionOnSet(Credited, P)
    BY <1>4, <1>5, <2>1, ReportsAssumption, SumByGroup
  <2> QED
    BY <2>4, <2>5 DEF SumOver
<1>7. SumOver(Credited, P) = SumOver(Amount, A)
  <2>1. A \cup Z = P /\ A \cap Z = {}
    OBVIOUS
  <2>2. (\A t \in A : Amount[t] \in Int /\ Credited[t] = Amount[t]) /\ \A t \in Z : Credited[t] = 0
    BY <1>4
  <2> HIDE DEF A, P, Z
  <2>3. SumFunctionOnSet(Credited, P) = SumFunctionOnSet(Credited, A) + SumFunctionOnSet(Credited, Z)
    BY <1>4, <1>5, <2>1, SumSplits
  <2>4. SumFunctionOnSet(Credited, A) = SumFunctionOnSet(Amount, A)
    BY <1>5, <2>2, SumSame
  <2>5. SumFunctionOnSet(Credited, Z) = 0
    BY <1>5, <2>2, SumZero
  <2>6. SumFunctionOnSet(Amount, A) \in Int
    BY <1>5, <2>2, SumType
  <2> QED
    BY <2>3, <2>4, <2>5, <2>6 DEF SumOver
<1> QED
  BY <1>1, <1>2, <1>3, <1>6, <1>7 DEF N, column

\* In every state, whatever requests are half done and however many there are at a time:
\* the statistics are the aging report and what that report leaves out (getStatistics,
\* getAgingReport), and the reports of transactions agree (getMonthlySummary,
\* getDailySummary, getReconciliationReport, getUnreconciled).
THEOREM ReportsAddUp == Spec => [](AgingAccounts /\ TransactionsAccount)
<1>1. Typed => AgingAccounts /\ TransactionsAccount
  BY AgingAddsUp, TransactionsAddUp DEF Typed
<1> QED
  BY <1>1, TypedInit, TypedStep, PTL DEF Spec

\* Whenever no request is half done, the invoices show the money the summaries of
\* transactions say was collected, and the reports tell one story, if requests come one at
\* a time or no two transactions pay one invoice: with two payers at a time the second write
\* may undo the first (updatePaymentStatus).
THEOREM ReportsTellOneStory ==
  ASSUME OnePayer
  PROVE  Spec => []ReportsAgree
<1>1. ASSUME Init PROVE Steady /\ Banked
  <2>1. Steady
    BY <1>1 DEF Init, Steady
  <2>2. \A i \in Invoices : IsFiniteSet(Payers(i)) /\ \A t \in Payers(i) : Credited[t] = 0
    <3>1. \A i \in Invoices : Payers(i) \subseteq Txns
      BY DEF Payers
    <3>2. \A t \in Txns : Credited[t] = 0
      BY <1>1 DEF Init, Credited
    <3> QED
      BY <3>1, <3>2, SumsOfTxns
  <2>3. \A i \in Invoices : SumFunctionOnSet(Credited, Payers(i)) = 0
    BY <2>2, SumZero
  <2> QED
    BY <1>1, <2>1, <2>3 DEF Init, Banked, SumOver
<1>2. ASSUME CreditInv, Steady, Banked, [Next]_vars PROVE Steady' /\ Banked'
  BY <1>2, BankedStep DEF CreditInv
<1>3. ASSUME CreditInv, Banked PROVE ReportsAgree
  <2>1. TypeOK
    BY <1>3 DEF CreditInv, Typed
  <2>2. ASSUME \A w \in Workers : pc[w] = "idle", \A t \in Txns : ~tainted[t]
        PROVE  \A t \in Txns : InvoiceOf[t] \in Invoices =>
                  net[t] = IF status[t] = "completed" THEN 1 ELSE 0
    <3>1. \A t \in Txns : Counted(t) <=> status[t] = "completed"
      BY <2>2 DEF Counted
    <3> QED
      BY <1>3, <2>2, <3>1 DEF CreditInv, CreditMatchesStatus
  <2>3. (\A w \in Workers : pc[w] = "idle") => CollectedAccounts
    BY <1>3, <2>1, <2>2, CollectedAddsUp DEF CollectedAccounts
  <2> QED
    BY <2>1, <2>3, AgingAddsUp, TransactionsAddUp DEF ReportsAgree
<1> QED
  BY <1>1, <1>2, <1>3, CreditAlways, PTL DEF Spec

-----------------------------------------------------------------------------
(***************************************************************************)
(* PaymentLedger implements Ledger as long as requests come one at a time, *)
(* for all transactions and invoices, any amounts and pool, and any number *)
(* of statements that fail.                                                *)
(***************************************************************************)
HIDE LedgerAssumption

\* What the only worker read still holds: the status it demanded, and the amount it is
\* about to add to.
InHand(w) ==
    /\ pc[w] \in {"update"} \cup Settling => status[arg[w]] = Demanded(op[w])
    /\ pc[w] = "write" => seenPaid[w] = amountPaid[InvoiceOf[arg[w]]]

SerialInv(w) == Typed /\ Owned /\ Born /\ InHand(w)

\* The money on an invoice for a status that is not committed.
Ahead(w, i) ==
    IF pc[w] = "commit" /\ InvoiceOf[arg[w]] = i THEN Sign(op[w]) * Amount[arg[w]] ELSE 0

\* With one worker, there is at most one request to settle.
LEMMA UncommittedIs ==
  ASSUME NEW w, Workers = {w}, NEW i \in Invoices
  PROVE  Uncommitted(i) = Ahead(w, i)
<1>1. CASE pc[w] = "commit" /\ InvoiceOf[arg[w]] = i
  <2>1. Committing(i) = {w}
    BY <1>1 DEF Committing
  <2>2. (CHOOSE v \in Committing(i) : TRUE) = w
    BY <2>1
  <2> QED
    BY <1>1, <2>1, <2>2 DEF Uncommitted, Ahead
<1>2. CASE ~(pc[w] = "commit" /\ InvoiceOf[arg[w]] = i)
  <2>1. Committing(i) = {}
    BY <1>2 DEF Committing
  <2> QED
    BY <1>2, <2>1 DEF Uncommitted, Ahead
<1> QED
  BY <1>1, <1>2

\* The same after a step.
LEMMA UncommittedIsNext ==
  ASSUME NEW w, Workers = {w}, NEW i \in Invoices
  PROVE  Uncommitted(i)' = Ahead(w, i)'
<1>1. CASE pc'[w] = "commit" /\ InvoiceOf[arg'[w]] = i
  <2>1. Committing(i)' = {w}
    BY <1>1 DEF Committing
  <2>2. (CHOOSE v \in Committing(i)' : TRUE) = w
    BY <2>1
  <2> QED
    BY <1>1, <2>1, <2>2 DEF Uncommitted, Ahead
<1>2. CASE ~(pc'[w] = "commit" /\ InvoiceOf[arg'[w]] = i)
  <2>1. Committing(i)' = {}
    BY <1>2 DEF Committing
  <2> QED
    BY <1>2, <2>1 DEF Uncommitted, Ahead
<1> QED
  BY <1>1, <1>2

\* The money a client is told of is that on the invoices less what is ahead of a status.
LEMMA SettledIs ==
  ASSUME NEW w, Workers = {w}
  PROVE  /\ Settled = [i \in Invoices |-> amountPaid[i] - Ahead(w, i)]
         /\ Settled' = [i \in Invoices |-> amountPaid'[i] - Ahead(w, i)']
<1>1. \A i \in Invoices : Uncommitted(i) = Ahead(w, i) /\ Uncommitted(i)' = Ahead(w, i)'
  BY UncommittedIs, UncommittedIsNext
<1> QED
  BY <1>1, Zenon DEF Settled

\* Nothing is settled by a step that changes no amount and reaches or leaves no commit.
LEMMA SettledStays ==
  ASSUME NEW w, Workers = {w}, amountPaid' = amountPaid,
         \A i \in Invoices : Ahead(w, i) = 0 /\ Ahead(w, i)' = 0
  PROVE  Settled' = Settled
<1>1. \A i \in Invoices : amountPaid'[i] - Ahead(w, i)' = amountPaid[i] - Ahead(w, i)
  BY Zenon
<1> QED
  BY <1>1, SettledIs, Zenon

\* Nobody else comes between what the worker reads and what it writes.
LEMMA InHandStep ==
  ASSUME NEW w, Workers = {w}, SerialInv(w), [Next]_vars
  PROVE  InHand(w)'
<1>0. /\ pc \in [Workers -> Label] /\ arg \in [Workers -> Txns \cup {NoTxn}]
      /\ op \in [Workers -> Operation] /\ seenPaid \in [Workers -> Int]
      /\ InHand(w) /\ w \in Workers
  BY DEF SerialInv, Typed, TypeOK, WorkerTypeOK
<1> USE DEF txnVars, invoiceVars, workerVars
<1>1. CASE pc'[w] \notin {"update"} \cup Settling
  BY <1>1 DEF InHand, Settling
<1>2. CASE UNCHANGED <<status, amountPaid, pc, arg, op, seenPaid>>
  BY <1>0, <1>2 DEF InHand
<1>3. CASE Start(w) \/ GenerateReference(w) \/ CommitStep(w) \/ Connect(w)
           \/ ConnectionTimeout(w) \/ FailTxn(w) \/ Reconcile(w) \/ Fault(w)
  <2>1. pc'[w] \notin {"update"} \cup Settling
    BY <1>0, <1>3 DEF Start, StartCreate, StartSettle, StartAuto, Accept, GenerateReference,
       CommitStep, CommitCreate, CommitSettle, Connect, ConnectionTimeout, FailTxn, Reconcile,
       Fault, Abandon, Goto, Finish, Settling
  <2> QED
    BY <1>1, <2>1
<1>4. CASE ReadTxn(w)
  BY <1>0, <1>1, <1>4 DEF ReadTxn, Goto, Finish, Settling, InHand
<1>5. CASE UpdateTxn(w)
  BY <1>0, <1>5 DEF UpdateTxn, Goto, Settling, InHand
<1>6. CASE ReadInvoice(w)
  BY <1>0, <1>1, <1>6 DEF ReadInvoice, Goto, Finish, Settling, InHand
<1>7. CASE WriteInvoice(w)
  <2>1. CASE Finish(w)
    BY <1>0, <1>1, <2>1 DEF Finish, Settling
  <2>2. CASE Goto(w, "commit")
    BY <1>0, <1>7, <2>2 DEF WriteInvoice, Goto, Settling, InHand
  <2> QED
    BY <1>7, <2>1, <2>2 DEF WriteInvoice
<1>8. ASSUME NEW i \in Invoices, FallDue(i) \/ Postpone(i) \/ DeleteInvoice(i) PROVE InHand(w)'
  BY <1>2, <1>8 DEF FallDue, Postpone, DeleteInvoice
<1>9. CASE MarkOverdue \/ UNCHANGED vars
  BY <1>2, <1>9 DEF MarkOverdue, vars
<1> QED
  BY <1>3, <1>4, <1>5, <1>6, <1>7, <1>8, <1>9 DEF Next, PoolStep, RowStep

-----------------------------------------------------------------------------
\* A step at which neither status nor money changes for a client.
LEMMA QuietStep ==
  ASSUME NEW w, Workers = {w}, SerialInv(w),
         Start(w) \/ GenerateReference(w) \/ ReadTxn(w) \/ UpdateTxn(w) \/ ReadInvoice(w)
         \/ Connect(w) \/ Reconcile(w)
  PROVE  UNCHANGED <<status, Settled>>
<1>0. /\ pc \in [Workers -> Label] /\ arg \in [Workers -> Txns \cup {NoTxn}] /\ w \in Workers
  BY DEF SerialInv, Typed, TypeOK, WorkerTypeOK
<1> USE DEF txnVars, invoiceVars, workerVars
<1>1. UNCHANGED <<status, amountPaid>> /\ pc[w] # "commit"
  BY DEF Start, StartCreate, StartSettle, StartAuto, Accept, GenerateReference, ReadTxn,
     UpdateTxn, ReadInvoice, Connect, Reconcile
<1>2. CASE UpdateTxn(w)
  <2>1. pc'[w] = "commit" => InvoiceOf[arg'[w]] = NoInvoice
    BY <1>0, <1>2 DEF UpdateTxn, Goto
  <2>2. \A i \in Invoices : Ahead(w, i) = 0 /\ Ahead(w, i)' = 0
    BY <1>1, <2>1, LedgerAssumption DEF Ahead
  <2> QED
    BY <1>1, <2>2, SettledStays
<1>3. CASE ~UpdateTxn(w)
  <2>1. pc'[w] # "commit"
    BY <1>0, <1>3 DEF Start, StartCreate, StartSettle, StartAuto, Accept, GenerateReference,
       ReadTxn, ReadInvoice, Connect, Reconcile, Goto, Finish
  <2>2. \A i \in Invoices : Ahead(w, i) = 0 /\ Ahead(w, i)' = 0
    BY <1>1, <2>1 DEF Ahead
  <2> QED
    BY <1>1, <2>2, SettledStays
<1> QED
  BY <1>2, <1>3

\* The write of the invoice is ahead of the status by exactly what it adds.
LEMMA WriteStep ==
  ASSUME NEW w, Workers = {w}, SerialInv(w), WriteInvoice(w)
  PROVE  UNCHANGED <<status, Settled>>
<1>0. /\ pc \in [Workers -> Label] /\ arg \in [Workers -> Txns \cup {NoTxn}] /\ w \in Workers
      /\ amountPaid \in [Invoices -> Int] /\ InHand(w)
      /\ pc[w] = "write" /\ arg[w] \in Txns /\ InvoiceOf[arg[w]] \in Invoices
  BY DEF SerialInv, Typed, TypeOK, WorkerTypeOK, InvoiceTypeOK, WriteInvoice, Placed, Settling
<1>1. status' = status /\ \A i \in Invoices : Ahead(w, i) = 0
  BY <1>0 DEF WriteInvoice, Ahead
<1>2. CASE Finish(w) /\ UNCHANGED invoiceVars
  <2>1. amountPaid' = amountPaid /\ \A i \in Invoices : Ahead(w, i)' = 0
    BY <1>0, <1>2 DEF Finish, invoiceVars, Ahead
  <2> QED
    BY <1>1, <2>1, SettledStays
<1>3. CASE ~deleted[InvoiceOf[arg[w]]]
  <2>1. PICK i \in Invoices, n \in Int :
           /\ i = InvoiceOf[arg[w]] /\ n = Sign(op[w]) * Amount[arg[w]]
           /\ amountPaid' = [amountPaid EXCEPT ![i] = seenPaid[w] + n]
           /\ Goto(w, "commit")
    <3>1. Sign(op[w]) * Amount[arg[w]] \in Int
      BY <1>0, LedgerAssumption DEF Sign
    <3> QED
      BY <1>0, <1>3, <3>1 DEF WriteInvoice
  <2>2. seenPaid[w] = amountPaid[i] /\ amountPaid'[i] = amountPaid[i] + n
    BY <1>0, <2>1 DEF InHand
  <2>3. pc'[w] = "commit" /\ UNCHANGED <<arg, op>>
    BY <1>0, <2>1 DEF Goto
  <2>4. \A j \in Invoices : Ahead(w, j)' = IF j = i THEN n ELSE 0
    BY <2>1, <2>3 DEF Ahead
  <2>5. \A j \in Invoices : amountPaid'[j] - Ahead(w, j)' = amountPaid[j] - Ahead(w, j)
    BY <1>0, <1>1, <2>1, <2>2, <2>4
  <2>6. Settled' = Settled
    BY <2>5, SettledIs, Zenon
  <2> QED
    BY <1>1, <2>6
<1> QED
  BY <1>2, <1>3 DEF WriteInvoice

\* A worker that stops at its commit has moved the money of its transaction, and no other.
LEMMA CommitEnds ==
  ASSUME NEW w, Workers = {w}, SerialInv(w), pc[w] = "commit", amountPaid' = amountPaid, Finish(w)
  PROVE  Abstract!Move(arg[w], Sign(op[w]))
<1>0. /\ pc \in [Workers -> Label] /\ w \in Workers
      /\ amountPaid \in [Invoices -> Int] /\ arg[w] \in Txns
  BY DEF SerialInv, Typed, TypeOK, WorkerTypeOK, InvoiceTypeOK, Placed
<1>1. PICK n \in Int : n = Sign(op[w]) * Amount[arg[w]]
  BY <1>0, LedgerAssumption DEF Sign
<1>2. \A i \in Invoices :
         Ahead(w, i) = (IF i = InvoiceOf[arg[w]] THEN n ELSE 0) /\ Ahead(w, i)' = 0
  BY <1>0, <1>1 DEF Finish, Ahead
<1>3. /\ Settled = [i \in Invoices |-> amountPaid[i] - Ahead(w, i)]
      /\ Settled' = [i \in Invoices |-> amountPaid[i] - Ahead(w, i)']
  BY SettledIs
<1>4. \A i \in Invoices :
         amountPaid[i] - Ahead(w, i)' = Settled[i] + (IF i = InvoiceOf[arg[w]] THEN n ELSE 0)
  BY <1>0, <1>2, <1>3
<1>5. Settled' = [i \in Invoices |-> Settled[i] + (IF i = InvoiceOf[arg[w]] THEN n ELSE 0)]
  BY <1>3, <1>4, Zenon
<1> QED
  BY <1>1, <1>5, Zenon DEF Abstract!Move

\* A request lost at its commit leaves the money astray; lost before, it leaves nothing.
LEMMA AbandonStep ==
  ASSUME NEW w, Workers = {w}, SerialInv(w), pc[w] # "idle", Abandon(w)
  PROVE  Abstract!Next \/ UNCHANGED <<status, Settled>>
<1>0. /\ pc \in [Workers -> Label] /\ w \in Workers /\ InHand(w) /\ arg[w] \in Txns
      /\ Finish(w) /\ UNCHANGED <<status, amountPaid>>
  BY DEF SerialInv, Typed, TypeOK, WorkerTypeOK, Placed, Abandon, invoiceVars
<1>1. CASE pc[w] = "commit"
  <2>1. Abstract!Move(arg[w], Sign(op[w]))
    BY <1>0, <1>1, CommitEnds
  <2>2. status[arg[w]] = Demanded(op[w]) /\ op[w] \in {"complete", "refund"}
    BY <1>0, <1>1 DEF InHand, Settling, SerialInv, Typed, Placed
  <2>3. Abstract!Stray(arg[w])
    BY <1>0, <2>1, <2>2 DEF Abstract!Stray, Demanded, Sign
  <2> QED
    BY <1>0, <2>3 DEF Abstract!Next
<1>2. CASE pc[w] # "commit"
  <2>1. \A i \in Invoices : Ahead(w, i) = 0 /\ Ahead(w, i)' = 0
    BY <1>0, <1>2 DEF Finish, Ahead
  <2> QED
    BY <1>0, <2>1, SettledStays
<1> QED
  BY <1>1, <1>2

\* Every commit is a step of the abstract ledger.
LEMMA CommitsStep ==
  ASSUME NEW w, Workers = {w}, SerialInv(w), CommitCreate(w) \/ CommitSettle(w) \/ FailTxn(w)
  PROVE  Abstract!Next
<1>0. /\ pc \in [Workers -> Label] /\ w \in Workers /\ InHand(w) /\ arg[w] \in Txns
      /\ status \in [Txns -> TxnStatus] /\ Finish(w) /\ amountPaid' = amountPaid
  BY DEF SerialInv, Typed, TypeOK, WorkerTypeOK, TxnTypeOK, Placed, CommitCreate, CommitSettle,
     FailTxn, invoiceVars
<1>1. CASE CommitSettle(w)
  <2>1. Abstract!Move(arg[w], Sign(op[w])) /\ status' = [status EXCEPT ![arg[w]] = Written(op[w])]
    BY <1>0, <1>1, CommitEnds DEF CommitSettle
  <2>2. status[arg[w]] = Demanded(op[w]) /\ op[w] \in {"complete", "refund"}
    BY <1>0, <1>1 DEF CommitSettle, InHand, Settling, SerialInv, Typed, Placed
  <2>3. Abstract!Complete(arg[w]) \/ Abstract!Refund(arg[w])
    BY <2>1, <2>2 DEF Abstract!Complete, Abstract!Refund, Abstract!Become, Demanded, Written, Sign
  <2> QED
    BY <1>0, <2>3 DEF Abstract!Next
<1>2. CASE CommitCreate(w) \/ FailTxn(w)
  <2>1. pc[w] \in {"insert", "statement"} /\ pc'[w] # "commit"
    BY <1>0, <1>2 DEF CommitCreate, FailTxn, Finish
  <2>2. \A i \in Invoices : Ahead(w, i) = 0 /\ Ahead(w, i)' = 0
    BY <2>1 DEF Ahead
  <2>3. Settled' = Settled
    BY <1>0, <2>2, SettledStays
  <2>4. CASE CommitCreate(w)
    <3>1. status[arg[w]] = "absent"
      BY <1>0, <2>4 DEF CommitCreate, SerialInv, Born, Creating
    <3>2. Abstract!Create(arg[w])
      BY <2>3, <2>4, <3>1 DEF CommitCreate, Abstract!Create, Abstract!Become
    <3> QED
      BY <1>0, <3>2 DEF Abstract!Next
  <2>5. CASE FailTxn(w)
    <3>1. status[arg[w]] \in TxnStatus \ {"absent"}
      BY <1>0, <2>5 DEF FailTxn, SerialInv, Born, Creating
    <3>2. Abstract!Fail(arg[w])
      BY <2>3, <2>5, <3>1 DEF FailTxn, Abstract!Fail, Abstract!Become, TxnStatus
    <3> QED
      BY <1>0, <3>2 DEF Abstract!Next
  <2> QED
    BY <1>2, <2>4, <2>5
<1> QED
  BY <1>1, <1>2

\* Every step is one of the abstract ledger, or none.
LEMMA SerialStep ==
  ASSUME NEW w, Workers = {w}, SerialInv(w), [Next]_vars
  PROVE  Abstract!Next \/ UNCHANGED <<status, Settled>>
<1> USE DEF txnVars, invoiceVars, workerVars
<1>1. ASSUME UNCHANGED <<status, amountPaid, pc, arg, op>>
      PROVE  UNCHANGED <<status, Settled>>
  <2>1. \A i \in Invoices : Ahead(w, i)' = Ahead(w, i)
    BY <1>1 DEF Ahead
  <2>2. \A i \in Invoices : amountPaid'[i] - Ahead(w, i)' = amountPaid[i] - Ahead(w, i)
    BY <1>1, <2>1, Zenon
  <2>3. Settled' = Settled
    BY <2>2, SettledIs, Zenon
  <2> QED
    BY <1>1, <2>3
<1>2. CASE ConnectionTimeout(w) \/ Fault(w)
  BY <1>2, AbandonStep DEF ConnectionTimeout, Fault, NeedsPool
<1>3. CASE Start(w) \/ GenerateReference(w) \/ ReadTxn(w) \/ UpdateTxn(w) \/ ReadInvoice(w)
           \/ Connect(w) \/ Reconcile(w)
  BY <1>3, QuietStep
<1>4. ASSUME NEW i \in Invoices, FallDue(i) \/ Postpone(i) \/ DeleteInvoice(i)
      PROVE  UNCHANGED <<status, Settled>>
  <2>1. UNCHANGED <<status, amountPaid, pc, arg, op>>
    BY <1>4 DEF FallDue, Postpone, DeleteInvoice
  <2> QED
    BY <1>1, <2>1
<1>5. CASE MarkOverdue \/ UNCHANGED vars
  <2>1. UNCHANGED <<status, amountPaid, pc, arg, op>>
    BY <1>5 DEF MarkOverdue, vars
  <2> QED
    BY <1>1, <2>1
<1> QED
  BY <1>2, <1>3, <1>4, <1>5, WriteStep, CommitsStep DEF Next, PoolStep, RowStep, CommitStep

\* One request at a time, completing or refunding a transaction moves its status and its
\* money in one step as far as a client can tell, whatever statement fails
\* (completeTransaction, refundTransaction).
THEOREM SerialLedger ==
  ASSUME NEW w, Workers = {w}
  PROVE  Spec => ImplementsLedger
<1>1. ASSUME Init PROVE SerialInv(w) /\ Abstract!Init
  <2>1. Typed /\ Owned
    BY <1>1, TypedInit
  <2>2. Born /\ InHand(w)
    BY <1>1 DEF Init, Born, Creating, InHand, Settling
  <2>3. \A i \in Invoices : Ahead(w, i) = 0 /\ amountPaid[i] = 0
    BY <1>1 DEF Init, Ahead
  <2>4. Settled = [i \in Invoices |-> 0]
    BY <2>3, SettledIs
  <2> QED
    BY <1>1, <2>1, <2>2, <2>4 DEF SerialInv, Init, Abstract!Init
<1>2. ASSUME SerialInv(w), [Next]_vars
      PROVE  SerialInv(w)' /\ [Abstract!Next]_(Abstract!ledger)
  <2>1. Typed' /\ Owned' /\ Born'
    BY <1>2, TypedStep, OwnedStep, BornStep DEF SerialInv
  <2>2. InHand(w)'
    BY <1>2, InHandStep
  <2>3. Abstract!Next \/ UNCHANGED <<status, Settled>>
    BY <1>2, SerialStep
  <2> QED
    BY <2>1, <2>2, <2>3 DEF SerialInv, Abstract!ledger
<1> QED
  BY <1>1, <1>2, PTL DEF Spec, ImplementsLedger, Abstract!Spec
=============================================================================
