--------------------------- MODULE InvoiceFigures ---------------------------
(***************************************************************************)
(* The money of an invoice, which four places of the code work out on      *)
(* their own: createInvoice the header and, a second time, every line      *)
(* (src/src/models/Invoice.ts); validateInvoice a total to compare with    *)
(* (src/src/services/regulatory/DocumentValidationService.ts); and         *)
(* validateVATCalculation and calculateInvoiceTax the tax                  *)
(* (src/src/services/regulatory/TaxCalculationService.ts).                 *)
(*                                                                         *)
(* A requested line has the value quantity * unit_price, a discount in     *)
(* percent, and rates in tenths of a percent, where 0 stands for a rate    *)
(* that is 0 or absent: the code does not tell them apart.  All amounts    *)
(* are in units of 1/100000 of a value, in which every figure is exact;    *)
(* the code adds JavaScript numbers and allows a difference of 0.01.       *)
(* Definitions marked Slip are not part of the specification: each is a    *)
(* plausible mistake that a property of InvoiceBook has to notice.         *)
(***************************************************************************)
EXTENDS Integers, SequencesExt

DefaultVAT == 75

Or(rate, default) == IF rate = 0 THEN default ELSE rate

Total(F(_), lines) == SumFunction([n \in DOMAIN lines |-> F(lines[n])])

Subtotal(l) == 100000 * l.value
Discount(l) == 1000 * l.value * l.discount
Taxable(l)  == l.value * (100 - l.discount)     \* to be multiplied by a rate

\* The schema of the route keeps discount_rate and drops other keys, while
\* createInvoice reads item.discount: whatever was asked, there is none.
Accepted(lines) == [n \in DOMAIN lines |-> [lines[n] EXCEPT !.discount = 0]]

\* The row of a line as createInvoice inserts it.
Row(l) ==
    LET vatRate == Or(l.vat, DefaultVAT) IN
    [value |-> l.value, discount |-> l.discount, vatRate |-> vatRate,
     vat    |-> Taxable(l) * vatRate,
     excise |-> Taxable(l) * l.excise,
     total  |-> Taxable(l) * (1000 + vatRate + l.excise)]

Rows(lines) == [n \in DOMAIN lines |-> Row(lines[n])]

\* Slip: the header taxes every line at the default rate.
HeaderAtDefault(lines) ==
    LET subtotal == Total(Subtotal, lines)
        discount == Total(Discount, lines)
        vat      == Total(LAMBDA l : Taxable(l) * DefaultVAT, lines)
        excise   == Total(LAMBDA l : Taxable(l) * l.excise, lines)
    IN [subtotal |-> subtotal, discount |-> discount, vat |-> vat, excise |-> excise,
        total |-> subtotal - discount + vat + excise]

\* The amounts of the invoice as createInvoice adds them up.
Header(lines) ==
    LET subtotal == Total(Subtotal, lines)
        discount == Total(Discount, lines)
        vat      == Total(LAMBDA l : Taxable(l) * Or(l.vat, DefaultVAT), lines)
        excise   == Total(LAMBDA l : Taxable(l) * l.excise, lines)
    IN [subtotal |-> subtotal, discount |-> discount, vat |-> vat, excise |-> excise,
        total |-> subtotal - discount + vat + excise]

-----------------------------------------------------------------------------
\* validateInvoice raises VAL-008 unless this is the total of the header.
InvoiceTotal(rows) == Total(LAMBDA r : r.total, rows)

\* validateVATCalculation: line by line, and the header against their sum.
ExpectedVAT(r) == Taxable(r) * Or(r.vatRate, DefaultVAT)

VATValid(header, rows) ==
    /\ \A n \in DOMAIN rows : rows[n].vat = ExpectedVAT(rows[n])
    /\ header.vat = Total(ExpectedVAT, rows)

\* calculateInvoiceTax for the lines as a client sends them, to a business with a VAT
\* rate of its own: the discount is left out of the tax base only.
GrandTotal(lines, businessRate) ==
    Total(Subtotal, lines)
    + Total(LAMBDA l : Taxable(l) * Or(l.vat, Or(businessRate, DefaultVAT)), lines)
    + Total(LAMBDA l : Taxable(l) * l.excise, lines)
=============================================================================
