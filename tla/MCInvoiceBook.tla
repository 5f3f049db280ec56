---------------------------- MODULE MCInvoiceBook ----------------------------
(***************************************************************************)
(* Instances of InvoiceBook.  Between them the orders ask for every kind   *)
(* of rate, and o1 for no discount.                                        *)
(***************************************************************************)
EXTENDS InvoiceBook

CONSTANT o1

MCBusinessRate == [b \in Businesses |-> 75]

Line(value, discount, vat, excise) ==
    [value |-> value, discount |-> discount, vat |-> vat, excise |-> excise]

MCLinesOf == [o \in Orders |->
    IF o = o1 THEN <<Line(3, 0, 0, 20), Line(2, 0, 50, 0)>>
              ELSE <<Line(5, 10, 50, 20), Line(1, 0, 0, 0)>>]
=============================================================================
