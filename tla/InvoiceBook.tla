---------------------------- MODULE InvoiceBook ----------------------------
(***************************************************************************)
(* How an invoice enters the book of a business: createInvoice draws the   *)
(* next number and writes header and line items in one transaction         *)
(* (src/src/models/Invoice.ts, src/src/models/Business.ts), the controller *)
(* queues its processing, records the audit entry and answers              *)
(* (src/src/controllers/v1/InvoiceController.ts), and the job queues the   *)
(* submission and the PDF (src/src/services/queue/InvoiceQueue.ts).        *)
(*                                                                         *)
(* An order is what a client wants invoiced.  It asks again when it is     *)
(* told of a failure, since nothing in a request tells two of them apart.  *)
(* The row of the business is locked from the draw of the number to the    *)
(* end of the transaction, so a drawn number is the counter as it was      *)
(* committed.                                                              *)
(*                                                                         *)
(* createInvoice reads the invoice back inside its try block, after the    *)
(* commit has released the connection.  When that read fails, the handler  *)
(* sends ROLLBACK on the released connection and releases it once more:    *)
(* whoever has got it from the pool loses its transaction and carries on   *)
(* statement by statement.  (Bound: the pool does not hand that connection *)
(* to a third request.)                                                    *)
(* told, lateFailures and intruded are history: only Ask reads told.       *)
(* Definitions marked Slip are not part of the specification: each is a    *)
(* plausible mistake that a property below has to notice.                  *)
(***************************************************************************)
EXTENDS InvoiceFigures, FiniteSets

CONSTANTS
    Businesses, Orders,
    LinesOf,        \* the line items a client asks for in an order
    BusinessRate,   \* tax_settings.vat_rate of a business
    Handlers,       \* concurrent requests
    PoolSize,       \* maxConnections
    NoBusiness, NoOrder, NoHandler,
    JobAttempts,    \* attempts of a job
    MaxStalls,      \* BullMQ's maxStalledCount, which the code leaves at its default
    MaxAsks,        \* bound on requests
    MaxDeletes,     \* bound on deleted invoices
    MaxFaults       \* bound on failed statements, crashes and stalls

ASSUME BookAssumption ==
    /\ NoBusiness \notin Businesses /\ NoOrder \notin Orders /\ NoHandler \notin Handlers
    /\ {PoolSize, JobAttempts, MaxAsks} \subseteq Nat \ {0}
    /\ {MaxStalls, MaxDeletes, MaxFaults} \subseteq Nat
    /\ BusinessRate \in [Businesses -> 0..1000]
    /\ LinesOf \in [Orders -> Seq([value : Nat \ {0}, discount : 0..100, vat : 0..1000, excise : 0..1000])]
    /\ \A o \in Orders : LinesOf[o] # <<>>

Numbers == 1..MaxAsks
Invoices == Businesses \X Numbers
Actions == {"process", "submit-firs", "generate-pdf"}

VARIABLES
    counter, lock,      \* next_invoice_number, and who holds the row of the business
    book,               \* committed invoices by number: order, header and line items
    deleted,            \* invoices with deleted_at
    job, tries, stalls, \* jobs invoice-<action>-<id> of the queue
    run,                \* how far the worker is in each process job
    pc, biz, order, drawn, written,     \* what each request is at and has in hand
    heir,               \* who has got the connection that a request at "fetch" released
    loose,              \* requests whose transaction was rolled back by another request
    extra,              \* invoices such requests wrote: number and order
    asks, told, lateFailures, intruded, faults

bookVars == <<counter, lock, book, deleted, loose, extra>>
jobVars  == <<job, tries, stalls, run>>
requestVars == <<pc, biz, order, drawn, written, heir>>
history  == <<asks, told, lateFailures, intruded>>
vars == <<bookVars, jobVars, requestVars, history, faults>>

Free == [order |-> NoOrder, header |-> Header(<<>>), lines |-> <<>>]

\* What createInvoice writes for an order, and that once n line items are inserted.
InvoiceOf == [o \in Orders |->
    LET lines == Accepted(LinesOf[o]) IN
    [order |-> o, header |-> Header(lines), lines |-> Rows(lines)]]

InvoiceUpTo(o, n) == [InvoiceOf[o] EXCEPT !.lines = SubSeq(@, 1, n)]

Init ==
    /\ counter = [b \in Businesses |-> 1]
    /\ lock = [b \in Businesses |-> NoHandler]
    /\ book = [i \in Invoices |-> Free]
    /\ deleted = {}
    /\ job = [i \in Invoices |-> [a \in Actions |-> "absent"]]
    /\ tries = [i \in Invoices |-> 0]
    /\ stalls = [i \in Invoices |-> 0]
    /\ run = [i \in Invoices |-> "none"]
    /\ pc = [h \in Handlers |-> "idle"]
    /\ biz = [h \in Handlers |-> NoBusiness]
    /\ order = [h \in Handlers |-> NoOrder]
    /\ drawn = [h \in Handlers |-> 0]
    /\ written = [h \in Handlers |-> 0]
    /\ heir = [h \in Handlers |-> NoHandler]
    /\ loose = {} /\ extra = {}
    /\ asks = 0
    /\ told = [o \in Orders |-> "nothing"]
    /\ lateFailures = [o \in Orders |-> 0]
    /\ intruded = FALSE
    /\ faults = 0

Entered(i) == book[i].order # NoOrder
Of(h) == <<biz[h], drawn[h]>>
Goto(h, label) == pc' = [pc EXCEPT ![h] = label]
Hold(h) == UNCHANGED <<biz, order, drawn, written>>
Keep(h) == Hold(h) /\ UNCHANGED heir

InTransaction(h) == pc[h] \in {"business", "header", "items"} /\ h \notin loose

\* Whether the pool has a connection, for a query of its own or for a transaction.
Available ==
    Cardinality({h \in Handlers \ loose : pc[h] \in {"number", "business", "header", "items"}})
        < PoolSize

\* The connections that h has had or held are back in the pool.
GiveBack(h) == heir' = [g \in Handlers |-> IF h \in {g, heir[g]} THEN NoHandler ELSE heir[g]]

Forget(h) ==
    /\ GiveBack(h)
    /\ Goto(h, "idle")
    /\ biz' = [biz EXCEPT ![h] = NoBusiness]
    /\ order' = [order EXCEPT ![h] = NoOrder]
    /\ drawn' = [drawn EXCEPT ![h] = 0]
    /\ written' = [written EXCEPT ![h] = 0]

-----------------------------------------------------------------------------
\* beginTransaction takes a connection, perhaps the one another request just released.
Connect(h) ==
    \/ UNCHANGED heir
    \/ \E g \in Handlers :
          /\ pc[g] = "fetch" /\ heir[g] = NoHandler
          /\ heir' = [heir EXCEPT ![g] = h]

Ask(h, b, o) ==
    /\ pc[h] = "idle"
    /\ Available /\ Connect(h)
    /\ asks < MaxAsks
    /\ told[o] \in {"nothing", "failure"}
    /\ \A g \in Handlers : order[g] # o
    /\ asks' = asks + 1
    /\ Goto(h, "number")
    /\ biz' = [biz EXCEPT ![h] = b]
    /\ order' = [order EXCEPT ![h] = o]
    /\ UNCHANGED <<drawn, written, bookVars, jobVars, told, lateFailures, intruded, faults>>

\* Slip: the number is drawn outside the transaction, as BusinessRepository does.
DrawOnPool(h) ==
    /\ pc[h] = "number"
    /\ lock[biz[h]] = NoHandler
    /\ drawn' = [drawn EXCEPT ![h] = counter[biz[h]]]
    /\ counter' = [counter EXCEPT ![biz[h]] = @ + 1]
    /\ Goto(h, "business")
    /\ UNCHANGED <<lock, book, deleted, loose, extra, biz, order, written, heir, jobVars, history, faults>>

\* getNextInvoiceNumber: the UPDATE waits for the row and keeps it to the end of the
\* transaction; without a transaction it is committed at once.
DrawNumber(h) ==
    /\ pc[h] = "number"
    /\ lock[biz[h]] = NoHandler
    /\ drawn' = [drawn EXCEPT ![h] = counter[biz[h]]]
    /\ IF h \in loose
       THEN counter' = [counter EXCEPT ![biz[h]] = @ + 1] /\ UNCHANGED lock
       ELSE lock' = [lock EXCEPT ![biz[h]] = h] /\ UNCHANGED counter
    /\ Goto(h, "business")
    /\ UNCHANGED <<book, deleted, loose, extra, biz, order, written, heir, jobVars, history, faults>>

\* The business is read on a second connection, which no lock holds up.
ReadBusiness(h) ==
    /\ pc[h] = "business" /\ Available
    /\ Goto(h, "header")
    /\ Keep(h)
    /\ UNCHANGED <<bookVars, jobVars, history, faults>>

InsertHeader(h) ==
    /\ pc[h] = "header"
    /\ extra' = IF h \in loose THEN extra \cup {<<Of(h), order[h]>>} ELSE extra
    /\ Goto(h, "items")
    /\ Keep(h)
    /\ UNCHANGED <<counter, lock, book, deleted, loose, jobVars, history, faults>>

InsertItem(h) ==
    /\ pc[h] = "items"
    /\ written[h] < Len(LinesOf[order[h]])
    /\ written' = [written EXCEPT ![h] = @ + 1]
    /\ UNCHANGED <<pc, biz, order, drawn, heir, bookVars, jobVars, history, faults>>

\* Slip: the transaction ends with the header, the items follow on their own.
CommitHeader(h) ==
    /\ pc[h] = "items" /\ h \notin loose
    /\ counter' = [counter EXCEPT ![biz[h]] = drawn[h] + 1]
    /\ lock' = [lock EXCEPT ![biz[h]] = NoHandler]
    /\ book' = [book EXCEPT ![Of(h)] = InvoiceUpTo(order[h], written[h])]
    /\ Goto(h, "fetch")
    /\ GiveBack(h)
    /\ Hold(h)
    /\ UNCHANGED <<deleted, loose, extra, jobVars, history, faults>>

Commit(h) ==
    /\ pc[h] = "items" /\ h \notin loose
    /\ written[h] = Len(LinesOf[order[h]])
    /\ counter' = [counter EXCEPT ![biz[h]] = drawn[h] + 1]
    /\ lock' = [lock EXCEPT ![biz[h]] = NoHandler]
    /\ book' = [book EXCEPT ![Of(h)] = InvoiceUpTo(order[h], written[h])]
    /\ Goto(h, "fetch")
    /\ GiveBack(h)
    /\ Hold(h)
    /\ UNCHANGED <<deleted, loose, extra, jobVars, history, faults>>

\* Whether an invoice stays behind when the request fails now.
Late(h) == pc[h] \in {"fetch", "queue", "audit"} \/ <<Of(h), order[h]>> \in extra

Answered(h, answer) ==
    /\ told' = [told EXCEPT ![order[h]] = answer]
    /\ lateFailures' = [lateFailures EXCEPT ![order[h]] =
                          IF answer = "failure" /\ Late(h) THEN @ + 1 ELSE @]

Told(h, answer) ==
    /\ Answered(h, answer)
    /\ UNCHANGED <<asks, intruded>>

\* Outside a transaction COMMIT changes nothing, and the release fails: the connection
\* was released by the request that sent the ROLLBACK.
CommitNothing(h) ==
    /\ pc[h] = "items" /\ h \in loose
    /\ written[h] = Len(LinesOf[order[h]])
    /\ loose' = loose \ {h}
    /\ Told(h, "failure")
    /\ Forget(h)
    /\ UNCHANGED <<counter, lock, book, deleted, extra, jobVars, faults>>

\* getWithLineItems answers null for an invoice deleted since: the controller then
\* reads the id of null, inside the try block.
Fetch(h) ==
    /\ pc[h] = "fetch" /\ Available
    /\ IF Of(h) \in deleted
       THEN Forget(h) /\ Told(h, "failure")
       ELSE Goto(h, "queue") /\ Hold(h) /\ GiveBack(h) /\ UNCHANGED history
    /\ UNCHANGED <<bookVars, jobVars, faults>>

\* Under the id of a job the queue knows, adding another does nothing.
Added(i, as) ==
    [job EXCEPT ![i] = [a \in Actions |-> IF a \in as /\ @[a] = "absent" THEN "waiting" ELSE @[a]]]

Queue(h) ==
    /\ pc[h] = "queue"
    /\ job' = Added(Of(h), {"process"})
    /\ Goto(h, "audit")
    /\ Keep(h)
    /\ UNCHANGED <<bookVars, tries, stalls, run, history, faults>>

\* The audit entry, then the answer.
Answer(h) ==
    /\ pc[h] = "audit" /\ Available
    /\ Told(h, "success")
    /\ Forget(h)
    /\ UNCHANGED <<bookVars, jobVars, faults>>

\* deleteInvoice keeps the row, and with it the number.
Delete(i) ==
    /\ Entered(i) /\ Cardinality(deleted) < MaxDeletes
    /\ deleted' = deleted \cup {i}
    /\ UNCHANGED <<counter, lock, book, loose, extra, jobVars, requestVars, history, faults>>

-----------------------------------------------------------------------------
Unlocked(hs) == [b \in Businesses |-> IF lock[b] \in hs THEN NoHandler ELSE lock[b]]

\* Slip: a failed transaction is committed as far as it got.
GiveUpAndKeep(h) ==
    /\ lock' = Unlocked({h})
    /\ IF InTransaction(h)
       THEN /\ book' = [book EXCEPT ![Of(h)] = InvoiceOf[order[h]]]
            /\ counter' = [counter EXCEPT ![biz[h]] = drawn[h] + 1]
       ELSE UNCHANGED <<book, counter>>
    /\ Told(h, "failure")
    /\ Forget(h)
    /\ UNCHANGED <<deleted, loose, extra, jobVars>>

\* The transaction is rolled back, the number with it, and the client is told of the
\* failure, also when the invoice is there.  Past the commit the ROLLBACK hits the heir
\* of the connection, at whatever it is.
GiveUp(h) ==
    LET hit == IF pc[h] = "fetch" THEN {heir[h]} \ {NoHandler} ELSE {} IN
    /\ lock' = Unlocked({h} \cup hit)
    /\ loose' = (loose \ {h}) \cup hit
    /\ intruded' = (intruded \/ hit # {})
    /\ Answered(h, "failure")
    /\ Forget(h)
    /\ UNCHANGED <<counter, book, deleted, extra, jobVars, asks>>

\* A statement or the call to Redis fails.
Fail(h) ==
    /\ pc[h] # "idle" /\ faults < MaxFaults
    /\ faults' = faults + 1
    /\ GiveUp(h)

\* Slip: waiting for a connection has no end.
WaitForever(h) == FALSE /\ UNCHANGED vars

\* connectionTimeoutMillis: what asks for a connection and finds none gives up.
ConnectionTimeout(h) ==
    /\ pc[h] \in {"business", "fetch", "audit"} /\ ~Available
    /\ GiveUp(h)
    /\ UNCHANGED faults

-----------------------------------------------------------------------------
StartProcess(i) ==
    /\ job[i]["process"] = "waiting"
    /\ job' = [job EXCEPT ![i]["process"] = "active"]
    /\ run' = [run EXCEPT ![i] = "read"]
    /\ UNCHANGED <<bookVars, tries, stalls, requestVars, history, faults>>

\* Slip: a failed run is always run again.
ThrowUncounted(i) ==
    /\ job' = [job EXCEPT ![i]["process"] = "waiting"]
    /\ run' = [run EXCEPT ![i] = "none"]
    /\ UNCHANGED <<tries, stalls>>

Throw(i) ==
    /\ tries' = [tries EXCEPT ![i] = @ + 1]
    /\ job' = [job EXCEPT ![i]["process"] = IF tries[i] + 1 < JobAttempts THEN "waiting" ELSE "failed"]
    /\ run' = [run EXCEPT ![i] = "none"]
    /\ UNCHANGED stalls

\* processNewInvoice refuses an invoice deleted since.
ReadInvoice(i) ==
    /\ run[i] = "read" /\ Available
    /\ IF i \in deleted THEN Throw(i)
       ELSE run' = [run EXCEPT ![i] = "submit"] /\ UNCHANGED <<job, tries, stalls>>
    /\ UNCHANGED <<bookVars, requestVars, history, faults>>

QueueSubmission(i) ==
    /\ run[i] = "submit"
    /\ job' = Added(i, {"submit-firs"})
    /\ run' = [run EXCEPT ![i] = "pdf"]
    /\ UNCHANGED <<bookVars, tries, stalls, requestVars, history, faults>>

QueuePDF(i) ==
    /\ run[i] = "pdf"
    /\ job' = [Added(i, {"generate-pdf"}) EXCEPT ![i]["process"] = "completed"]
    /\ run' = [run EXCEPT ![i] = "none"]
    /\ UNCHANGED <<bookVars, tries, stalls, requestVars, history, faults>>

JobTimeout(i) ==
    /\ run[i] = "read" /\ ~Available
    /\ Throw(i)
    /\ UNCHANGED <<bookVars, requestVars, history, faults>>

ProcessFails(i) ==
    /\ run[i] # "none" /\ faults < MaxFaults
    /\ faults' = faults + 1
    /\ Throw(i)
    /\ UNCHANGED <<bookVars, requestVars, history>>

\* The process dies: the database rolls back what was open, clients see no answer, and
\* BullMQ puts its jobs back, or fails those that stalled too often.
Crash ==
    /\ faults < MaxFaults
    /\ faults' = faults + 1
    /\ lock' = Unlocked(Handlers)
    /\ lateFailures' = [o \in Orders |->
                          lateFailures[o] + Cardinality({h \in Handlers : order[h] = o /\ Late(h)})]
    /\ told' = [o \in Orders |->
                  IF \E h \in Handlers : order[h] = o THEN "failure" ELSE told[o]]
    /\ pc' = [h \in Handlers |-> "idle"]
    /\ biz' = [h \in Handlers |-> NoBusiness]
    /\ order' = [h \in Handlers |-> NoOrder]
    /\ drawn' = [h \in Handlers |-> 0]
    /\ written' = [h \in Handlers |-> 0]
    /\ heir' = [h \in Handlers |-> NoHandler]
    /\ loose' = {}
    /\ job' = [i \in Invoices |->
                 IF run[i] = "none" THEN job[i]
                 ELSE [job[i] EXCEPT !["process"] = IF stalls[i] < MaxStalls THEN "waiting" ELSE "failed"]]
    /\ stalls' = [i \in Invoices |-> IF run[i] = "none" THEN stalls[i] ELSE stalls[i] + 1]
    /\ run' = [i \in Invoices |-> "none"]
    /\ UNCHANGED <<counter, book, deleted, extra, tries, asks, intruded>>

-----------------------------------------------------------------------------
RequestStep(h) ==
    \/ DrawNumber(h) \/ ReadBusiness(h) \/ InsertHeader(h) \/ InsertItem(h)
    \/ Commit(h) \/ CommitNothing(h) \/ Fetch(h) \/ Queue(h) \/ Answer(h)
    \/ ConnectionTimeout(h)

JobStep(i) ==
    StartProcess(i) \/ ReadInvoice(i) \/ JobTimeout(i) \/ QueueSubmission(i) \/ QueuePDF(i)

Next ==
    \/ \E h \in Handlers, b \in Businesses, o \in Orders : Ask(h, b, o)
    \/ \E h \in Handlers : RequestStep(h) \/ Fail(h)
    \/ \E i \in Invoices : JobStep(i) \/ ProcessFails(i) \/ Delete(i)
    \/ Crash

Spec == Init /\ [][Next]_vars

\* Every await of a request or of a job ends, the wait for a connection and that for the
\* row of the business among them, and a free worker takes a waiting job.
Fairness ==
    /\ \A h \in Handlers : WF_vars(RequestStep(h))
    /\ \A i \in Invoices : WF_vars(JobStep(i))

FairSpec == Spec /\ Fairness

-----------------------------------------------------------------------------
JobState == {"absent", "waiting", "active", "completed", "failed"}
RunLabel == {"none", "read", "submit", "pdf"}
Label == {"idle", "number", "business", "header", "items", "fetch", "queue", "audit"}

BookTypeOK ==
    /\ counter \in [Businesses -> Numbers \cup {MaxAsks + 1}]
    /\ lock \in [Businesses -> Handlers \cup {NoHandler}]
    /\ \A i \in Invoices :
          /\ book[i].order \in Orders \cup {NoOrder}
          /\ Entered(i) => Len(book[i].lines) <= Len(LinesOf[book[i].order])
    /\ deleted \subseteq Invoices /\ extra \subseteq Invoices \X Orders
    /\ loose \subseteq Handlers

JobTypeOK ==
    /\ job \in [Invoices -> [Actions -> JobState]]
    /\ tries \in [Invoices -> 0..JobAttempts]
    /\ stalls \in [Invoices -> 0..(MaxStalls + 1)]
    /\ run \in [Invoices -> RunLabel]

RequestTypeOK ==
    /\ pc \in [Handlers -> Label]
    /\ biz \in [Handlers -> Businesses \cup {NoBusiness}]
    /\ order \in [Handlers -> Orders \cup {NoOrder}]
    /\ drawn \in [Handlers -> Numbers \cup {0}]
    /\ written \in [Handlers -> Nat]
    /\ \A h \in Handlers : order[h] # NoOrder => written[h] <= Len(LinesOf[order[h]])
    /\ heir \in [Handlers -> Handlers \cup {NoHandler}]

HistoryTypeOK ==
    /\ asks \in 0..MaxAsks
    /\ told \in [Orders -> {"nothing", "success", "failure"}]
    /\ lateFailures \in [Orders -> 0..MaxAsks]
    /\ intruded \in BOOLEAN
    /\ faults \in 0..MaxFaults

\* Every variable ranges over the values the code can give it, and the row of a business
\* is held exactly by the request inside its transaction.
TypeOK ==
    /\ BookTypeOK /\ JobTypeOK /\ RequestTypeOK /\ HistoryTypeOK
    /\ \A h \in Handlers : InTransaction(h) <=> \E b \in Businesses : lock[b] = h

\* The numbers of a business run from one without a gap, whatever requests overlap, fail or
\* die, unless one of them has rolled back the transaction of another; and every invoice
\* that was committed has all its line items (getNextInvoiceNumber and createInvoice).
BookGapless ==
    /\ intruded \/ \A b \in Businesses, n \in Numbers : Entered(<<b, n>>) <=> n < counter[b]
    /\ \A i \in Invoices : Entered(i) => Len(book[i].lines) = Len(LinesOf[book[i].order])

\* The figures of every invoice agree wherever they are worked out: validateInvoice finds
\* the total of the header in the lines, validateVATCalculation finds the tax of each, and
\* for a request without discounts calculateInvoiceTax quotes the invoiced total, but for a
\* rate of the business that createInvoice does not know.  It does not say that the invoice
\* has the discount asked for: two tests of the repository expect it, and it is not so
\* (Accepted of InvoiceFigures).
FiguresAgree ==
    \A i \in Invoices :
        LET invoice == book[i]
            asked   == LinesOf[invoice.order]
            rate    == Or(BusinessRate[i[1]], DefaultVAT)
        IN Entered(i) =>
           /\ InvoiceTotal(invoice.lines) = invoice.header.total
           /\ VATValid(invoice.header, invoice.lines)
           /\ rate = DefaultVAT /\ (\A n \in DOMAIN asked : asked[n].discount = 0) =>
                 GrandTotal(asked, rate) = invoice.header.total

\* An order is invoiced more than once only as often as a request failed that left an
\* invoice behind, since the client is then told of a failure; an order answered with
\* success is in the book and its processing was queued.
AnswersTruthful ==
    \A o \in Orders :
        LET mine == {i \in Invoices : book[i].order = o}
            left == {x \in extra : x[2] = o}
        IN
        /\ Cardinality(mine) + Cardinality(left) <= 1 + lateFailures[o]
        /\ told[o] = "success" => \E i \in mine : job[i]["process"] # "absent"

\* No two invoices of a business have one number: what firs-schema.ts:28 says of a
\* number, 'Unique invoice number assigned by seller', and not what the code does.
NumbersUnique ==
    \A x \in extra : ~Entered(x[1]) /\ \A y \in extra : x[1] = y[1] => x = y

\* Once no client asks any more, every request has been answered and every queued invoice
\* processed: its submission and its PDF are queued, or its job has failed.  Requests that
\* hold a connection and wait for the row of the business leave none for the one that has
\* the row, which needs a second one; only the connection timeout breaks that circle.
ProcessingEnds ==
    <>[](/\ \A h \in Handlers : pc[h] = "idle"
         /\ \A i \in Invoices :
              \/ job[i]["process"] \in {"absent", "failed"}
              \/ job[i]["process"] = "completed" /\ \A a \in Actions : job[i][a] # "absent")

-----------------------------------------------------------------------------
\* The invoices in the book of a business, in the order of their numbers.
Entries(b) == [n \in 1 .. (counter[b] - 1) |-> book[<<b, n>>]]

BookEntries == [b \in Businesses |-> Entries(b)]

Promised == INSTANCE Book WITH entries <- BookEntries

\* Whatever overlaps, fails or dies, an invoice enters the book of its business whole and
\* under the next number, once per committed request, and never changes or leaves it
\* again (createInvoice, getNextInvoiceNumber, deleteInvoice), until a request rolls back
\* the transaction of another.
ImplementsBook == Promised!Init /\ [][Promised!Next \/ intruded']_BookEntries
=============================================================================
