------------------------------- MODULE Ledger -------------------------------
(***************************************************************************)
(* What the payment handlers promise a client that waits for each answer:  *)
(* a transaction and the money it moved on its invoice change together.    *)
(* PaymentLedger is shown to implement it when requests come one by one.   *)
(***************************************************************************)
EXTENDS Integers

CONSTANTS Txns, Invoices, NoInvoice, InvoiceOf, Amount

VARIABLES
    standing,       \* the status a client is told
    paid            \* the money an invoice has received

ledger == <<standing, paid>>

Init ==
    /\ standing = [t \in Txns |-> "absent"]
    /\ paid = [i \in Invoices |-> 0]

\* The amount of t is added to its invoice, or taken off again.
Move(t, sign) ==
    paid' = [i \in Invoices |-> paid[i] + (IF i = InvoiceOf[t] THEN sign * Amount[t] ELSE 0)]

Become(t, from, to) ==
    /\ standing[t] \in from
    /\ standing' = [standing EXCEPT ![t] = to]

Create(t)   == Become(t, {"absent"}, "pending") /\ UNCHANGED paid
Complete(t) == Become(t, {"pending"}, "completed") /\ Move(t, 1)
Refund(t)   == Become(t, {"completed"}, "refunded") /\ Move(t, -1)

\* Failing a transaction never touches its invoice, completed or not.
Fail(t) ==
    /\ Become(t, {"pending", "completed", "refunded", "failed"}, "failed")
    /\ UNCHANGED paid

\* A handler that dies between its two commits moves the money and not the status.
Stray(t) ==
    /\ \/ standing[t] = "pending" /\ Move(t, 1)
       \/ standing[t] = "completed" /\ Move(t, -1)
    /\ UNCHANGED standing

Next == \E t \in Txns : Create(t) \/ Complete(t) \/ Refund(t) \/ Fail(t) \/ Stray(t)

Spec == Init /\ [][Next]_ledger
=============================================================================
