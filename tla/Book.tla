-------------------------------- MODULE Book --------------------------------
(***************************************************************************)
(* What the book of a business promises: an invoice enters whole, under    *)
(* the next number, and what is in the book never changes nor leaves it.   *)
(* InvoiceBook is shown to implement it.                                   *)
(***************************************************************************)
EXTENDS Sequences

CONSTANTS Businesses, Orders, InvoiceOf

VARIABLE entries        \* the invoices of each business, by number

Init == entries = [b \in Businesses |-> <<>>]

Enter(b, o) == entries' = [entries EXCEPT ![b] = Append(@, InvoiceOf[o])]

Next == \E b \in Businesses, o \in Orders : Enter(b, o)

Spec == Init /\ [][Next]_entries
=============================================================================
