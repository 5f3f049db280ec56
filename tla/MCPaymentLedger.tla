-------------------------- MODULE MCPaymentLedger --------------------------
(***************************************************************************)
(* Instances of PaymentLedger for TLC: t1 and t2 pay the same invoice, t3  *)
(* pays another one alone, t4 pays none.  A configuration picks among them.*)
(***************************************************************************)
EXTENDS LedgerReports

CONSTANTS t1, t2, t3, t4, i1, i2

MCInvoiceOf == [t \in Txns |-> CASE t \in {t1, t2} -> i1
                                [] t = t3 -> i2
                                [] t = t4 -> NoInvoice]
MCAmount    == [t \in Txns |-> IF t = t2 THEN 2 ELSE 1]
MCMethodOf  == [t \in Txns |-> IF t = t2 THEN "cash" ELSE "card"]
MCMethods   == {"card", "cash"}
MCAges      == {-1, 0, 1, 60, 61, 62, 120, 121, 122, 180, 181}
MCTotal     == [i \in Invoices |-> IF i = i1 THEN 2 ELSE 1]
=============================================================================
