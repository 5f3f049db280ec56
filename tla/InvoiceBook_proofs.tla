--------------------------- MODULE InvoiceBook_proofs ---------------------------
(***************************************************************************)
(* Theorems about InvoiceBook, for every set of businesses, orders and     *)
(* requests, all line items, and every number of connections, attempts,    *)
(* requests, deletions and faults.                                         *)
(***************************************************************************)
EXTENDS InvoiceBook, SumTheorems, SequenceTheorems, TLAPS

\* What the proofs use of the constants over and over.
LEMMA Bounds ==
  /\ NoBusiness \notin Businesses /\ NoOrder \notin Orders /\ NoHandler \notin Handlers
  /\ {JobAttempts, MaxAsks} \subseteq Nat \ {0}
  /\ {MaxStalls, MaxFaults} \subseteq Nat
  BY BookAssumption

USE Bounds

\* Where a request is: in its transaction, still to write, or past its commit.
Opened == {"business", "header", "items"}
Working == {"number"} \cup Opened
Committed == {"fetch", "queue", "audit"}

\* A request has in hand what its label says, holds the row of its business while it is
\* in its transaction, and the connection it released before it read the invoice back went
\* to one that is still to write.
Fit(h) ==
    /\ pc[h] = "idle" =>
          biz[h] = NoBusiness /\ order[h] = NoOrder /\ drawn[h] = 0 /\ written[h] = 0
    /\ pc[h] # "idle" => biz[h] \in Businesses /\ order[h] \in Orders
    /\ pc[h] # "idle" => written[h] <= Len(LinesOf[order[h]])
    /\ pc[h] \in Opened \cup Committed => drawn[h] \in Numbers
    /\ h \in loose => pc[h] \in Working
    /\ InTransaction(h) => lock[biz[h]] = h
    /\ heir[h] # NoHandler => pc[h] = "fetch" /\ pc[heir[h]] \in Working

\* The row is locked from the draw of the number, which nobody else draws meanwhile.
Locked(b) ==
    lock[b] # NoHandler =>
        InTransaction(lock[b]) /\ biz[lock[b]] = b /\ drawn[lock[b]] = counter[b]

\* An invoice of the book is whole and has a number that will not be drawn again.
Filled(i) ==
    Entered(i) => (\E o \in Orders : book[i] = InvoiceOf[o]) /\ i[2] < counter[i[1]]

\* Requests that may still use up a number.
Drawing(b) == {h \in Handlers : biz[h] = b /\ (pc[h] = "number" \/ InTransaction(h))}

\* No more numbers are used up than requests have come.
Numbered(b) ==
    IsFiniteSet(Drawing(b)) /\ counter[b] - 1 + Cardinality(Drawing(b)) <= asks

\* A job is active while the worker is in it, and has attempts and stalls left until it is done.
Runs(i) ==
    /\ run[i] # "none" => job[i]["process"] = "active"
    /\ job[i]["process"] \notin {"completed", "failed"} =>
          tries[i] < JobAttempts /\ stalls[i] <= MaxStalls
    /\ job[i]["process"] = "active" => run[i] # "none"

\* An order is asked for by one request at a time, and answered at most as often as asked.
Single(o) ==
    /\ \A g, h \in Handlers : order[g] = o /\ order[h] = o => g = h
    /\ lateFailures[o] + (IF \E h \in Handlers : order[h] = o THEN 1 ELSE 0) <= asks

\* The part of the invariant that needs nothing of the answers.
Control ==
    /\ BookTypeOK /\ JobTypeOK /\ RequestTypeOK /\ HistoryTypeOK
    /\ book \in [Invoices -> {Free} \cup {InvoiceOf[o] : o \in Orders}]
    /\ loose # {} => intruded
    /\ \A h \in Handlers : Fit(h)
    /\ \A b \in Businesses : Locked(b) /\ Numbered(b)
    /\ \A i \in Invoices : Filled(i) /\ Runs(i)
    /\ \A o \in Orders : Single(o)

\* What an order has in the book, and beside it.
Mine(o) == {i \in Invoices : book[i].order = o}
Left(o) == {x \in extra : x[2] = o}

\* The invoice of the request is there.
Present(h) ==
    \/ pc[h] \in Committed
    \/ h \in loose /\ pc[h] = "items" /\ <<Of(h), order[h]>> \in extra

\* What an order left in the book and beside it is accounted for by late failures, by one
\* success, or by the one request that is still to be answered.
Accounted(o) ==
    /\ IsFiniteSet(Mine(o)) /\ IsFiniteSet(Left(o))
    /\ Cardinality(Mine(o)) + Cardinality(Left(o)) <= 1 + lateFailures[o]
    /\ told[o] # "success" /\ (\A h \in Handlers : order[h] = o => ~Present(h)) =>
          Cardinality(Mine(o)) + Cardinality(Left(o)) <= lateFailures[o]
    /\ told[o] = "success" => \E i \in Mine(o) : job[i]["process"] # "absent"

\* A request that has committed finds its order in the book, and queued before the audit.
Placed(h) ==
    /\ pc[h] \in Committed => book[Of(h)].order = order[h]
    /\ pc[h] = "audit" => job[Of(h)]["process"] # "absent"
    /\ pc[h] # "idle" => told[order[h]] # "success"

-----------------------------------------------------------------------------
(***************************************************************************)
(* What an order becomes.                                                  *)
(***************************************************************************)
\* A function on an initial segment of the numbers is a sequence of its length.
LEMMA FunctionIsSeq ==
  ASSUME NEW m \in Nat, NEW X, NEW f \in [1..m -> X]
  PROVE  Len(f) = m /\ SubSeq(f, 1, m) = f
<1>1. f \in Seq(X)
  OBVIOUS
<1>2. Len(f) \in Nat /\ DOMAIN f = 1..Len(f)
  BY <1>1, LenProperties
<1>3. Len(f) = m
  BY <1>2
<1> QED
  BY <1>1, <1>3, SubSeqFull

\* The invoice of an order has a line for every line that was asked for.
LEMMA InvoiceFacts ==
  ASSUME NEW o \in Orders
  PROVE  /\ InvoiceOf[o].order = o
         /\ Len(InvoiceOf[o].lines) = Len(LinesOf[o])
         /\ Len(LinesOf[o]) \in Nat
         /\ InvoiceUpTo(o, Len(LinesOf[o])) = InvoiceOf[o]
<1> DEFINE asked == LinesOf[o]
           kept == Accepted(asked)
           rows == Rows(kept)
<1>1. Len(asked) \in Nat /\ DOMAIN asked = 1..Len(asked)
  <2>1. asked \in Seq([value : Nat \ {0}, discount : 0..100, vat : 0..1000, excise : 0..1000])
    BY BookAssumption
  <2> QED
    BY <2>1, LenProperties
<1>2. InvoiceOf[o] = [order |-> o, header |-> Header(kept), lines |-> rows]
  BY Zenon DEF InvoiceOf
<1>3. DOMAIN kept = 1..Len(asked)
  BY <1>1, Zenon DEF Accepted
<1> HIDE DEF kept
<1>4. rows = [n \in 1..Len(asked) |-> Row(kept[n])]
  BY <1>3, Zenon DEF Rows
<1>5. rows \in [1..Len(asked) -> {Row(kept[n]) : n \in 1..Len(asked)}]
  BY <1>4
<1> HIDE DEF rows
<1>6. Len(rows) = Len(asked) /\ SubSeq(rows, 1, Len(asked)) = rows
  BY <1>1, <1>5, FunctionIsSeq
<1>7. InvoiceUpTo(o, Len(asked)) = InvoiceOf[o]
  <2>1. InvoiceUpTo(o, Len(asked)) = [InvoiceOf[o] EXCEPT !.lines = SubSeq(@, 1, Len(asked))]
    BY Zenon DEF InvoiceUpTo
  <2>2. InvoiceOf[o].lines = rows
    BY <1>2
  <2>3. [InvoiceOf[o] EXCEPT !.lines = rows] = InvoiceOf[o]
    BY <1>2
  <2> QED
    BY <1>6, <2>1, <2>2, <2>3
<1> QED
  BY <1>1, <1>2, <1>6, <1>7

\* What is free in the book has no order.
LEMMA FreeFacts == Free.order = NoOrder
  BY DEF Free

-----------------------------------------------------------------------------
(***************************************************************************)
(* The alternatives of the steps that branch.                              *)
(***************************************************************************)
\* A failure is counted.
Counts == faults' = faults \/ (faults < MaxFaults /\ faults' = faults + 1)

\* A request is rolled back by a failure or for want of a connection.
Abandon(h) == pc[h] # "idle" /\ GiveUp(h) /\ Counts

\* The invoice is read back, or has been deleted.
FetchOn(h) ==
    /\ pc[h] = "fetch"
    /\ Goto(h, "queue") /\ Hold(h) /\ GiveBack(h)
    /\ UNCHANGED <<history, bookVars, jobVars, faults>>

FetchGone(h) ==
    /\ pc[h] = "fetch"
    /\ Forget(h) /\ Told(h, "failure")
    /\ UNCHANGED <<bookVars, jobVars, faults>>

\* What one request does.
Moves(h) ==
    \/ \E b \in Businesses, o \in Orders : Ask(h, b, o)
    \/ DrawNumber(h) \/ ReadBusiness(h) \/ InsertHeader(h) \/ InsertItem(h) \/ Commit(h)
    \/ FetchOn(h) \/ Queue(h)
    \/ CommitNothing(h) \/ FetchGone(h) \/ Answer(h) \/ Abandon(h)

\* A run of a job ends without its job being done.
Breaks(i) ==
    /\ run[i] # "none"
    /\ Throw(i)
    /\ Counts
    /\ UNCHANGED <<bookVars, requestVars, history>>

ReadOn(i) ==
    /\ run[i] = "read"
    /\ run' = [run EXCEPT ![i] = "submit"]
    /\ UNCHANGED <<job, tries, stalls, bookVars, requestVars, history, faults>>

\* What a job does.
JobMoves(i) ==
    StartProcess(i) \/ ReadOn(i) \/ QueueSubmission(i) \/ QueuePDF(i) \/ Breaks(i)

\* Every step is one of these.
LEMMA Alternatives ==
  ASSUME [Next]_vars
  PROVE  \/ \E h \in Handlers : Moves(h)
         \/ \E i \in Invoices : JobMoves(i) \/ Delete(i)
         \/ Crash
         \/ UNCHANGED vars
<1>1. ASSUME NEW h \in Handlers, Fetch(h) PROVE Moves(h)
  <2>1. FetchOn(h) \/ FetchGone(h)
    BY <1>1 DEF Fetch, FetchOn, FetchGone
  <2> QED
    BY <2>1 DEF Moves
<1>2. ASSUME NEW h \in Handlers, Fail(h) \/ ConnectionTimeout(h) PROVE Moves(h)
  <2>1. Abandon(h)
    BY <1>2 DEF Fail, ConnectionTimeout, Abandon, Counts
  <2> QED
    BY <2>1 DEF Moves
<1>3. ASSUME NEW h \in Handlers, RequestStep(h) PROVE Moves(h)
  BY <1>1, <1>2, <1>3, Zenon DEF RequestStep, Moves
<1>4. ASSUME NEW i \in Invoices, ReadInvoice(i) \/ JobTimeout(i) \/ ProcessFails(i)
      PROVE  JobMoves(i)
  <2>1. ReadOn(i) \/ Breaks(i)
    BY <1>4 DEF ReadInvoice, JobTimeout, ProcessFails, ReadOn, Breaks, Counts, Throw
  <2> QED
    BY <2>1 DEF JobMoves
<1>5. ASSUME NEW i \in Invoices, JobStep(i) PROVE JobMoves(i)
  BY <1>4, <1>5, Zenon DEF JobStep, JobMoves
<1> QED
  BY <1>2, <1>3, <1>4, <1>5, Zenon DEF Next, Moves

-----------------------------------------------------------------------------
(***************************************************************************)
(* How a request moves on.                                                 *)
(***************************************************************************)
\* No other request moves.
Alone(h) ==
    \A g \in Handlers \ {h} :
        /\ pc'[g] = pc[g] /\ biz'[g] = biz[g] /\ order'[g] = order[g]
        /\ drawn'[g] = drawn[g] /\ written'[g] = written[g]

\* A request that goes on keeps what it has in hand.
LEMMA GotoOK ==
  ASSUME RequestTypeOK, NEW h \in Handlers, NEW label \in Label, Goto(h, label), Hold(h),
         heir' \in [Handlers -> Handlers \cup {NoHandler}]
  PROVE  /\ RequestTypeOK' /\ Alone(h) /\ pc'[h] = label
         /\ biz'[h] = biz[h] /\ order'[h] = order[h]
         /\ drawn'[h] = drawn[h] /\ written'[h] = written[h]
<1>1. UNCHANGED <<biz, order, drawn, written>>
  BY DEF Hold
<1>2. pc' \in [Handlers -> Label] /\ pc'[h] = label /\ \A g \in Handlers \ {h} : pc'[g] = pc[g]
  BY DEF RequestTypeOK, Goto
<1>3. \A g \in Handlers : order'[g] # NoOrder => written'[g] <= Len(LinesOf[order'[g]])
  BY <1>1, Zenon DEF RequestTypeOK
<1>4. RequestTypeOK'
  BY <1>1, <1>2, <1>3, Zenon DEF RequestTypeOK
<1> QED
  BY <1>1, <1>2, <1>4 DEF Alone

\* The connections given back are free.
LEMMA GiveBackOK ==
  ASSUME RequestTypeOK, NEW h \in Handlers, GiveBack(h)
  PROVE  /\ heir' \in [Handlers -> Handlers \cup {NoHandler}]
         /\ heir'[h] = NoHandler
         /\ \A g \in Handlers : heir'[g] # h /\ heir'[g] \in {heir[g], NoHandler}
  BY DEF RequestTypeOK, GiveBack

\* A request that ends has nothing in hand.
LEMMA ForgetOK ==
  ASSUME RequestTypeOK, NEW h \in Handlers, Forget(h)
  PROVE  /\ RequestTypeOK' /\ Alone(h) /\ pc'[h] = "idle"
         /\ biz'[h] = NoBusiness /\ order'[h] = NoOrder /\ drawn'[h] = 0 /\ written'[h] = 0
         /\ heir'[h] = NoHandler
         /\ \A g \in Handlers : heir'[g] # h /\ heir'[g] \in {heir[g], NoHandler}
<1>1. /\ heir' \in [Handlers -> Handlers \cup {NoHandler}]
      /\ heir'[h] = NoHandler
      /\ \A g \in Handlers : heir'[g] # h /\ heir'[g] \in {heir[g], NoHandler}
  BY GiveBackOK DEF Forget
<1>2. /\ pc' = [pc EXCEPT ![h] = "idle"] /\ "idle" \in Label
      /\ biz' = [biz EXCEPT ![h] = NoBusiness]
      /\ order' = [order EXCEPT ![h] = NoOrder]
      /\ drawn' = [drawn EXCEPT ![h] = 0]
      /\ written' = [written EXCEPT ![h] = 0]
  BY DEF Forget, Goto, Label
<1>3. /\ pc' \in [Handlers -> Label]
      /\ biz' \in [Handlers -> Businesses \cup {NoBusiness}]
      /\ order' \in [Handlers -> Orders \cup {NoOrder}]
      /\ drawn' \in [Handlers -> Numbers \cup {0}]
      /\ written' \in [Handlers -> Nat]
  BY <1>2 DEF RequestTypeOK
<1>4. /\ Alone(h) /\ pc'[h] = "idle"
      /\ biz'[h] = NoBusiness /\ order'[h] = NoOrder /\ drawn'[h] = 0 /\ written'[h] = 0
  BY <1>2 DEF RequestTypeOK, Alone
<1>5. ASSUME NEW g \in Handlers, order'[g] # NoOrder PROVE written'[g] <= Len(LinesOf[order'[g]])
  <2>1. g # h /\ order'[g] = order[g] /\ written'[g] = written[g]
    BY <1>4, <1>5 DEF Alone
  <2> QED
    BY <1>5, <2>1, Zenon DEF RequestTypeOK
<1> QED
  BY <1>1, <1>3, <1>4, <1>5 DEF RequestTypeOK

-----------------------------------------------------------------------------
(***************************************************************************)
(* Requests, the row of the business and the connections.                  *)
(***************************************************************************)
\* A finite set with a member counts at least one.
LEMMA CountsOne ==
  ASSUME NEW D, IsFiniteSet(D), NEW x \in D
  PROVE  Cardinality(D) \in Nat /\ Cardinality(D) >= 1
<1>1. Cardinality(D) \in Nat
  BY FS_CardinalityType
<1>2. Cardinality(D) # 0
  BY FS_EmptySet
<1> QED
  BY <1>1, <1>2

\* A request that still draws finds a number within bounds.
LEMMA DrawRange ==
  ASSUME Control, NEW h \in Handlers, pc[h] = "number"
  PROVE  biz[h] \in Businesses /\ counter[biz[h]] \in Numbers
<1> DEFINE b == biz[h]
<1>1. b \in Businesses
  BY DEF Control, Fit
<1>2. IsFiniteSet(Drawing(b)) /\ counter[b] - 1 + Cardinality(Drawing(b)) <= asks
  BY <1>1 DEF Control, Numbered
<1>3. h \in Drawing(b)
  BY DEF Drawing
<1>4. Cardinality(Drawing(b)) \in Nat /\ Cardinality(Drawing(b)) >= 1
  BY <1>2, <1>3, CountsOne
<1>5. counter[b] \in Nat \ {0} /\ asks \in 0..MaxAsks
  BY <1>1 DEF Control, BookTypeOK, HistoryTypeOK, Numbers
<1> QED
  BY <1>1, <1>2, <1>4, <1>5 DEF Numbers

\* A request that stands still stays fit.
LEMMA FitStays ==
  ASSUME NEW g \in Handlers, Fit(g),
         pc'[g] = pc[g], biz'[g] = biz[g], order'[g] = order[g], drawn'[g] = drawn[g],
         written'[g] = written[g],
         heir'[g] # NoHandler => heir'[g] = heir[g] /\ pc'[heir[g]] \in Working,
         g \in loose' => pc[g] \in Working,
         InTransaction(g)' => InTransaction(g) /\ lock'[biz[g]] = g
  PROVE  Fit(g)'
  BY DEF Fit

\* The row stays locked while the request that has it is in its transaction.
LEMMA LockStays ==
  ASSUME NEW b \in Businesses, Locked(b), lock'[b] = lock[b], counter'[b] = counter[b],
         lock[b] # NoHandler =>
             InTransaction(lock[b])' /\ biz'[lock[b]] = biz[lock[b]] /\ drawn'[lock[b]] = drawn[lock[b]]
  PROVE  Locked(b)'
  BY DEF Locked

\* What a step of one request does to the others and to the locks.
Settled(h) ==
    /\ RequestTypeOK' /\ Alone(h)
    /\ \A g \in Handlers : Fit(g)'
    /\ lock' \in [Businesses -> Handlers \cup {NoHandler}]
    /\ \A b \in Businesses : Locked(b)'
    /\ loose' \subseteq Handlers
    /\ loose' # {} => intruded'

\* A request that goes on within its transaction, or past it.
LEMMA SettledOn ==
  ASSUME Control, NEW h \in Handlers,
         ReadBusiness(h) \/ InsertHeader(h) \/ InsertItem(h) \/ Queue(h)
  PROVE  Settled(h)
<1>0. /\ RequestTypeOK /\ (\A g \in Handlers : Fit(g)) /\ (\A b \in Businesses : Locked(b))
      /\ lock \in [Businesses -> Handlers \cup {NoHandler}] /\ loose \subseteq Handlers
      /\ loose # {} => intruded
  BY DEF Control, BookTypeOK
<1>1. /\ UNCHANGED <<lock, loose, heir, biz, order, drawn, counter, intruded>>
      /\ \E label \in Label : pc' = [pc EXCEPT ![h] = label]
      /\ \/ pc[h] \in Opened /\ pc'[h] \in Opened
         \/ pc[h] = "queue" /\ pc'[h] = "audit"
  <2>1. {"header", "items", "audit"} \subseteq Label /\ {"business", "header", "items"} = Opened
    BY DEF Label, Opened
  <2>2. CASE InsertItem(h)
    BY <1>0, <2>1, <2>2 DEF InsertItem, bookVars, history, RequestTypeOK
  <2>3. CASE ReadBusiness(h) \/ InsertHeader(h) \/ Queue(h)
    BY <1>0, <2>1, <2>3 DEF ReadBusiness, InsertHeader, Queue, Keep, Hold, Goto, bookVars, history,
       RequestTypeOK
  <2> QED
    BY <2>2, <2>3
<1>2. /\ written' \in [Handlers -> Nat]
      /\ \A g \in Handlers : order[g] # NoOrder => written'[g] <= Len(LinesOf[order[g]])
      /\ \A g \in Handlers \ {h} : written'[g] = written[g]
  <2>1. CASE InsertItem(h)
    <3>1. order[h] \in Orders
      BY <1>0, <2>1 DEF InsertItem, Fit
    <3>2. Len(LinesOf[order[h]]) \in Nat
      BY <3>1, InvoiceFacts
    <3>3. /\ written' = [written EXCEPT ![h] = written[h] + 1]
          /\ written[h] < Len(LinesOf[order[h]])
      BY <2>1 DEF InsertItem
    <3>4. written[h] + 1 <= Len(LinesOf[order[h]])
      BY <1>0, <3>2, <3>3 DEF RequestTypeOK
    <3>5. ASSUME NEW g \in Handlers, order[g] # NoOrder PROVE written'[g] <= Len(LinesOf[order[g]])
      <4>1. CASE g = h
        BY <1>0, <3>3, <3>4, <4>1 DEF RequestTypeOK
      <4>2. CASE g # h
        BY <1>0, <3>3, <3>5, <4>2 DEF RequestTypeOK
      <4> QED
        BY <4>1, <4>2
    <3> QED
      BY <1>0, <3>3, <3>5 DEF RequestTypeOK
  <2>2. CASE ReadBusiness(h) \/ InsertHeader(h) \/ Queue(h)
    <3>1. written' = written
      BY <2>2 DEF ReadBusiness, InsertHeader, Queue, Keep, Hold
    <3> QED
      BY <1>0, <3>1, Zenon DEF RequestTypeOK
  <2> QED
    BY <2>1, <2>2
<1>3. pc' \in [Handlers -> Label] /\ \A g \in Handlers \ {h} : pc'[g] = pc[g]
  BY <1>0, <1>1 DEF RequestTypeOK
<1>4. RequestTypeOK' /\ Alone(h)
  BY <1>0, <1>1, <1>2, <1>3 DEF RequestTypeOK, Alone
<1>5. pc[h] # "idle" /\ (InTransaction(h)' <=> InTransaction(h))
  BY <1>1 DEF InTransaction, Opened
<1>6. ASSUME NEW g \in Handlers \ {h} PROVE Fit(g)'
  <2>1. /\ heir'[g] # NoHandler => heir'[g] = heir[g] /\ pc'[heir[g]] \in Working
        /\ g \in loose' => pc[g] \in Working
        /\ InTransaction(g)' => InTransaction(g) /\ lock'[biz[g]] = g
    BY <1>0, <1>1, <1>3 DEF Fit, InTransaction, RequestTypeOK, Working, Opened
  <2> QED
    BY <1>0, <1>4, <2>1, FitStays DEF Alone
<1>7. Fit(h)'
  <2>1. order[h] # NoOrder /\ NoOrder \notin Orders
    BY <1>0, <1>5 DEF Fit
  <2>2. written'[h] <= Len(LinesOf[order[h]])
    BY <1>2, <2>1
  <2> QED
    BY <1>0, <1>1, <1>5, <2>2 DEF Fit, Working, Opened, Committed
<1>8. ASSUME NEW b \in Businesses PROVE Locked(b)'
  <2>1. lock[b] # NoHandler => InTransaction(lock[b]) /\ lock[b] \in Handlers
    BY <1>0 DEF Locked
  <2>2. lock[b] # NoHandler => InTransaction(lock[b])'
    BY <1>1, <1>3, <1>5, <2>1 DEF InTransaction
  <2> QED
    BY <1>0, <1>1, <2>1, <2>2, LockStays
<1> QED
  BY <1>0, <1>1, <1>4, <1>6, <1>7, <1>8 DEF Settled

\* A request that begins.
LEMMA SettledAsk ==
  ASSUME Control, NEW h \in Handlers, NEW b \in Businesses, NEW o \in Orders, Ask(h, b, o)
  PROVE  Settled(h)
<1>0. /\ RequestTypeOK /\ (\A g \in Handlers : Fit(g)) /\ (\A c \in Businesses : Locked(c))
      /\ lock \in [Businesses -> Handlers \cup {NoHandler}] /\ loose \subseteq Handlers
      /\ loose # {} => intruded
  BY DEF Control, BookTypeOK
<1>1. /\ UNCHANGED <<lock, loose, drawn, written, counter, intruded>>
      /\ pc' = [pc EXCEPT ![h] = "number"] /\ biz' = [biz EXCEPT ![h] = b]
      /\ order' = [order EXCEPT ![h] = o]
      /\ pc[h] = "idle" /\ Connect(h) /\ "number" \in Label
  BY DEF Ask, Goto, bookVars, history, Label
<1>2. heir[h] = NoHandler /\ written[h] = 0 /\ h \notin loose /\ drawn[h] = 0
  BY <1>0, <1>1 DEF Fit, Working, Opened
<1>3. /\ heir' \in [Handlers -> Handlers \cup {NoHandler}] /\ heir'[h] = NoHandler
      /\ \A g \in Handlers : heir'[g] = heir[g] \/ (pc[g] = "fetch" /\ heir'[g] = h)
  <2>0. heir \in [Handlers -> Handlers \cup {NoHandler}]
    BY <1>0 DEF RequestTypeOK
  <2>1. CASE UNCHANGED heir
    BY <1>2, <2>0, <2>1
  <2>2. ASSUME NEW g \in Handlers, pc[g] = "fetch", heir' = [heir EXCEPT ![g] = h]
        PROVE  /\ heir' \in [Handlers -> Handlers \cup {NoHandler}] /\ heir'[h] = NoHandler
               /\ \A k \in Handlers : heir'[k] = heir[k] \/ (pc[k] = "fetch" /\ heir'[k] = h)
    BY <1>1, <1>2, <2>0, <2>2
  <2> QED
    BY <1>1, <2>1, <2>2 DEF Connect
<1>4. /\ pc' \in [Handlers -> Label] /\ biz' \in [Handlers -> Businesses \cup {NoBusiness}]
      /\ order' \in [Handlers -> Orders \cup {NoOrder}] /\ Alone(h)
      /\ pc'[h] = "number" /\ biz'[h] = b /\ order'[h] = o
  BY <1>0, <1>1 DEF RequestTypeOK, Alone
<1>5. Len(LinesOf[o]) \in Nat
  BY InvoiceFacts
<1>6. ASSUME NEW g \in Handlers, order'[g] # NoOrder PROVE written'[g] <= Len(LinesOf[order'[g]])
  <2>1. CASE g = h
    BY <1>1, <1>2, <1>4, <1>5, <2>1
  <2>2. CASE g # h
    <3>1. order'[g] = order[g] /\ written'[g] = written[g]
      BY <1>4, <2>2 DEF Alone
    <3> QED
      BY <1>0, <1>6, <3>1, Zenon DEF RequestTypeOK
  <2> QED
    BY <2>1, <2>2
<1>7. RequestTypeOK'
  <2>1. drawn' \in [Handlers -> Numbers \cup {0}] /\ written' \in [Handlers -> Nat]
    BY <1>0, <1>1, Zenon DEF RequestTypeOK
  <2> QED
    BY <1>3, <1>4, <1>6, <2>1, Zenon DEF RequestTypeOK
<1>8. \A g \in Handlers : InTransaction(g)' <=> InTransaction(g)
  BY <1>1, <1>4 DEF InTransaction, Alone
<1>9. ASSUME NEW g \in Handlers \ {h} PROVE Fit(g)'
  <2>1. CASE heir'[g] = heir[g]
    <3>1. /\ heir'[g] # NoHandler => heir'[g] = heir[g] /\ pc'[heir[g]] \in Working
          /\ g \in loose' => pc[g] \in Working
          /\ InTransaction(g)' => InTransaction(g) /\ lock'[biz[g]] = g
      BY <1>0, <1>1, <1>4, <1>8, <2>1 DEF Fit, RequestTypeOK, Working
    <3> QED
      BY <1>0, <1>4, <3>1, FitStays DEF Alone
  <2>2. CASE pc[g] = "fetch" /\ heir'[g] = h
    BY <1>0, <1>1, <1>4, <1>8, <2>2 DEF Fit, Alone, Working
  <2> QED
    BY <1>3, <2>1, <2>2
<1>10. Fit(h)'
  <2>1. /\ pc'[h] = "number" /\ biz'[h] \in Businesses /\ order'[h] \in Orders
        /\ written'[h] <= Len(LinesOf[order'[h]]) /\ h \notin loose' /\ ~InTransaction(h)'
        /\ heir'[h] = NoHandler
    <3>1. order'[h] # NoOrder
      BY <1>4
    <3> QED
      BY <1>1, <1>2, <1>3, <1>4, <1>6, <3>1 DEF InTransaction
  <2> QED
    BY <2>1 DEF Fit, Opened, Committed
<1>11. ASSUME NEW c \in Businesses PROVE Locked(c)'
  <2>1. lock[c] # NoHandler => InTransaction(lock[c])' /\ lock[c] \in Handlers /\ lock[c] # h
    BY <1>0, <1>1, <1>8 DEF Locked, InTransaction
  <2> QED
    BY <1>0, <1>1, <1>4, <2>1, LockStays DEF Alone
<1> QED
  BY <1>0, <1>1, <1>4, <1>7, <1>9, <1>10, <1>11 DEF Settled

\* A request that draws its number.
LEMMA SettledDraw ==
  ASSUME Control, NEW h \in Handlers, DrawNumber(h)
  PROVE  Settled(h)
<1>0. /\ RequestTypeOK /\ (\A g \in Handlers : Fit(g)) /\ (\A c \in Businesses : Locked(c))
      /\ lock \in [Businesses -> Handlers \cup {NoHandler}] /\ loose \subseteq Handlers
      /\ loose # {} => intruded
      /\ counter \in [Businesses -> Numbers \cup {MaxAsks + 1}]
  BY DEF Control, BookTypeOK
<1> DEFINE b == biz[h]
<1>1. /\ pc[h] = "number" /\ b \in Businesses /\ counter[b] \in Numbers /\ lock[b] = NoHandler
  BY DrawRange DEF DrawNumber
<1>2. /\ UNCHANGED <<loose, biz, order, written, heir, intruded>>
      /\ pc' = [pc EXCEPT ![h] = "business"] /\ "business" \in Label
      /\ drawn' = [drawn EXCEPT ![h] = counter[b]]
  BY DEF DrawNumber, Goto, history, Label
<1>3. /\ pc' \in [Handlers -> Label] /\ drawn' \in [Handlers -> Numbers \cup {0}] /\ Alone(h)
      /\ pc'[h] = "business" /\ drawn'[h] = counter[b]
  BY <1>0, <1>1, <1>2 DEF RequestTypeOK, Alone
<1>4. RequestTypeOK'
  <2>1. /\ biz' \in [Handlers -> Businesses \cup {NoBusiness}]
        /\ order' \in [Handlers -> Orders \cup {NoOrder}]
        /\ written' \in [Handlers -> Nat]
        /\ \A g \in Handlers : order'[g] # NoOrder => written'[g] <= Len(LinesOf[order'[g]])
        /\ heir' \in [Handlers -> Handlers \cup {NoHandler}]
    BY <1>0, <1>2, Zenon DEF RequestTypeOK
  <2> QED
    BY <1>3, <2>1, Zenon DEF RequestTypeOK
<1>5. /\ lock' \in [Businesses -> Handlers \cup {NoHandler}]
      /\ h \notin loose => lock'[b] = h /\ counter' = counter
      /\ h \in loose => lock' = lock
      /\ \A c \in Businesses \ {b} : lock'[c] = lock[c] /\ counter'[c] = counter[c]
  <2>1. CASE h \in loose
    BY <1>0, <1>1, <2>1 DEF DrawNumber
  <2>2. CASE h \notin loose
    <3>1. lock' = [lock EXCEPT ![b] = h] /\ counter' = counter
      BY <2>2 DEF DrawNumber
    <3> QED
      BY <1>0, <1>1, <2>2, <3>1
  <2> QED
    BY <2>1, <2>2
<1>6. ASSUME NEW g \in Handlers \ {h} PROVE Fit(g)'
  <2>1. InTransaction(g)' => InTransaction(g)
    BY <1>2, <1>3 DEF InTransaction, Alone
  <2>2. InTransaction(g) => lock[biz[g]] = g /\ biz[g] \in Businesses
    BY <1>0 DEF Fit, InTransaction
  <2>3. InTransaction(g) => lock'[biz[g]] = g
    BY <1>1, <1>5, <2>2
  <2>4. /\ heir'[g] # NoHandler => heir'[g] = heir[g] /\ pc'[heir[g]] \in Working
        /\ g \in loose' => pc[g] \in Working
    BY <1>0, <1>2, <1>3 DEF Fit, RequestTypeOK, Working, Opened, Alone
  <2> QED
    BY <1>0, <1>3, <1>2, <2>1, <2>3, <2>4, FitStays DEF Alone
<1>7. Fit(h)'
  BY <1>0, <1>1, <1>2, <1>3, <1>5 DEF Fit, Opened, Committed, Working, InTransaction
<1>8. ASSUME NEW c \in Businesses PROVE Locked(c)'
  <2>1. CASE lock'[c] = NoHandler
    BY <2>1 DEF Locked
  <2>2. CASE c = b /\ h \notin loose
    BY <1>2, <1>3, <1>5, <2>2 DEF Locked, InTransaction
  <2>3. CASE lock'[c] # NoHandler /\ ~(c = b /\ h \notin loose)
    <3>1. c # b /\ lock'[c] = lock[c] /\ counter'[c] = counter[c]
      BY <1>1, <1>5, <2>3
    <3>2. InTransaction(lock[c]) /\ biz[lock[c]] = c /\ lock[c] \in Handlers
      BY <1>0, <2>3, <3>1 DEF Locked
    <3>3. lock[c] # h
      BY <1>1, <3>1, <3>2
    <3>4. pc'[lock[c]] = pc[lock[c]] /\ drawn'[lock[c]] = drawn[lock[c]]
      BY <1>3, <3>2, <3>3 DEF Alone
    <3>5. InTransaction(lock[c])' /\ biz'[lock[c]] = biz[lock[c]]
      BY <1>2, <3>1, <3>2, <3>4 DEF InTransaction
    <3> QED
      BY <1>0, <3>1, <3>4, <3>5, LockStays
  <2> QED
    BY <2>1, <2>2, <2>3
<1> QED
  BY <1>0, <1>2, <1>3, <1>4, <1>5, <1>6, <1>7, <1>8 DEF Settled

\* A request that gives its connections back: it has no more part in a transaction, nor
\* have those whose transactions it rolled back.
LEMMA SettledBack ==
  ASSUME Control, NEW h \in Handlers, RequestTypeOK', Alone(h), Fit(h)', pc'[h] \notin Working,
         \A g \in Handlers : heir'[g] # h /\ heir'[g] \in {heir[g], NoHandler},
         \A g \in loose' : g \in Handlers \ {h} /\ pc[g] \in Working,
         loose \ {h} \subseteq loose',
         loose' # {} => intruded',
         lock' \in [Businesses -> Handlers \cup {NoHandler}],
         \A b \in Businesses :
             /\ lock'[b] # NoHandler =>
                   lock[b] = lock'[b] /\ lock[b] \notin {h} \cup loose' /\ counter'[b] = counter[b]
             /\ lock[b] # NoHandler /\ lock[b] \notin {h} \cup loose' => lock'[b] = lock[b]
  PROVE  Settled(h)
<1>0. /\ RequestTypeOK /\ (\A g \in Handlers : Fit(g)) /\ (\A b \in Businesses : Locked(b))
      /\ lock \in [Businesses -> Handlers \cup {NoHandler}] /\ loose \subseteq Handlers
  BY DEF Control, BookTypeOK
<1>1. ASSUME NEW b \in Businesses PROVE Locked(b)'
  <2> SUFFICES ASSUME lock'[b] # NoHandler PROVE Locked(b)'
    BY DEF Locked
  <2> DEFINE k == lock[b]
  <2>1. lock'[b] = k /\ k \notin {h} \cup loose' /\ counter'[b] = counter[b] /\ k \in Handlers
    BY <1>0
  <2>2. InTransaction(k) /\ biz[k] = b /\ drawn[k] = counter[b]
    BY <1>0, <2>1 DEF Locked
  <2>3. pc'[k] = pc[k] /\ biz'[k] = b /\ drawn'[k] = drawn[k] /\ k \notin loose'
    BY <2>1, <2>2 DEF Alone
  <2> HIDE DEF k
  <2> QED
    BY <2>1, <2>2, <2>3 DEF Locked, InTransaction
<1>2. ASSUME NEW g \in Handlers \ {h} PROVE Fit(g)'
  <2>1. heir'[g] # NoHandler => heir'[g] = heir[g] /\ heir[g] \in Handlers \ {h}
    BY <1>0 DEF RequestTypeOK
  <2>2. heir'[g] # NoHandler => heir'[g] = heir[g] /\ pc'[heir[g]] \in Working
    BY <1>0, <2>1 DEF Fit, Alone
  <2>3. ASSUME InTransaction(g)' PROVE InTransaction(g) /\ lock'[biz[g]] = g
    <3>1. InTransaction(g) /\ g \notin {h} \cup loose'
      BY <2>3 DEF InTransaction, Alone
    <3>2. lock[biz[g]] = g /\ biz[g] \in Businesses
      BY <1>0, <3>1 DEF Fit, InTransaction
    <3> QED
      BY <3>1, <3>2
  <2> QED
    BY <1>0, <2>2, <2>3, FitStays DEF Alone
<1> QED
  BY <1>1, <1>2 DEF Settled

\* A request that ends.
LEMMA SettledEnd ==
  ASSUME Control, NEW h \in Handlers, CommitNothing(h) \/ FetchGone(h) \/ Answer(h) \/ Abandon(h)
  PROVE  Settled(h)
<1>0. /\ RequestTypeOK /\ (\A g \in Handlers : Fit(g)) /\ (\A b \in Businesses : Locked(b))
      /\ lock \in [Businesses -> Handlers \cup {NoHandler}] /\ loose \subseteq Handlers
      /\ loose # {} => intruded
  BY DEF Control, BookTypeOK
<1>1. Forget(h)
  BY DEF CommitNothing, FetchGone, Answer, Abandon, GiveUp
<1>2. /\ RequestTypeOK' /\ Alone(h) /\ pc'[h] = "idle"
      /\ biz'[h] = NoBusiness /\ order'[h] = NoOrder /\ drawn'[h] = 0 /\ written'[h] = 0
      /\ heir'[h] = NoHandler
      /\ \A g \in Handlers : heir'[g] # h /\ heir'[g] \in {heir[g], NoHandler}
  BY <1>0, <1>1, ForgetOK
<1>3. PICK hit \in SUBSET Handlers :
         /\ \A g \in hit : pc[g] \in Working /\ g # h
         /\ loose' = (loose \ {h}) \cup hit
         /\ loose' # {} => intruded'
         /\ counter' = counter /\ lock' = Unlocked({h} \cup hit)
  <2>1. CASE Abandon(h)
    <3> DEFINE hit == IF pc[h] = "fetch" THEN {heir[h]} \ {NoHandler} ELSE {}
    <3>1. hit \in SUBSET Handlers /\ \A g \in hit : pc[g] \in Working /\ g # h
      BY <1>0 DEF RequestTypeOK, Fit, Working, Opened
    <3>2. /\ loose' = (loose \ {h}) \cup hit
          /\ loose' # {} => intruded'
          /\ counter' = counter /\ lock' = Unlocked({h} \cup hit)
      BY <1>0, <2>1 DEF Abandon, GiveUp
    <3> HIDE DEF hit
    <3> QED
      BY <3>1, <3>2
  <2>2. CASE CommitNothing(h) \/ FetchGone(h) \/ Answer(h)
    <3>1. /\ UNCHANGED <<counter, lock, intruded>>
          /\ ~InTransaction(h) /\ loose' = loose \ {h}
      <4>1. CASE CommitNothing(h)
        BY <4>1 DEF CommitNothing, Told, InTransaction
      <4>2. CASE FetchGone(h) \/ Answer(h)
        <5>1. /\ UNCHANGED <<counter, lock, intruded, loose>>
              /\ pc[h] \in {"fetch", "audit"}
          BY <4>2 DEF FetchGone, Answer, Told, bookVars
        <5> QED
          BY <1>0, <5>1 DEF Fit, InTransaction, Working, Opened
      <4> QED
        BY <2>2, <4>1, <4>2
    <3>2. \A b \in Businesses : lock[b] # h
      BY <1>0, <3>1 DEF Locked
    <3> DEFINE hit == {}
    <3>3. hit \in SUBSET Handlers /\ \A g \in hit : pc[g] \in Working /\ g # h
      OBVIOUS
    <3>4. lock' = Unlocked({h} \cup hit)
      BY <1>0, <3>1, <3>2 DEF Unlocked
    <3>5. loose' = (loose \ {h}) \cup hit /\ (loose' # {} => intruded') /\ counter' = counter
      BY <1>0, <3>1
    <3> HIDE DEF hit
    <3> QED
      BY <3>3, <3>4, <3>5, Zenon
  <2> QED
    BY <2>1, <2>2
<1>4. /\ \A g \in loose' : g \in Handlers \ {h} /\ pc[g] \in Working
      /\ loose \ {h} \subseteq loose'
  BY <1>0, <1>3 DEF Fit
<1>5. \A b \in Businesses :
         /\ lock'[b] # NoHandler =>
               lock[b] = lock'[b] /\ lock[b] \notin {h} \cup loose' /\ counter'[b] = counter[b]
         /\ lock[b] # NoHandler /\ lock[b] \notin {h} \cup loose' => lock'[b] = lock[b]
  <2>1. \A b \in Businesses : lock[b] # NoHandler => lock[b] \notin loose
    BY <1>0 DEF Locked, InTransaction
  <2> QED
    BY <1>0, <1>3, <2>1 DEF Unlocked
<1>6. lock' \in [Businesses -> Handlers \cup {NoHandler}]
  BY <1>0, <1>3 DEF Unlocked
<1>7. Fit(h)' /\ pc'[h] \notin Working
  BY <1>2, <1>4 DEF Fit, Working, Opened, Committed, InTransaction
<1> QED
  BY <1>2, <1>3, <1>4, <1>5, <1>6, <1>7, SettledBack

\* A request that commits, or has read its invoice back.
LEMMA SettledCommit ==
  ASSUME Control, NEW h \in Handlers, Commit(h) \/ FetchOn(h)
  PROVE  Settled(h)
<1>0. /\ RequestTypeOK /\ (\A g \in Handlers : Fit(g)) /\ (\A b \in Businesses : Locked(b))
      /\ lock \in [Businesses -> Handlers \cup {NoHandler}] /\ loose \subseteq Handlers
      /\ loose # {} => intruded
      /\ counter \in [Businesses -> Numbers \cup {MaxAsks + 1}]
  BY DEF Control, BookTypeOK
<1>1. /\ pc[h] \in {"items", "fetch"} /\ h \notin loose /\ UNCHANGED <<loose, intruded>>
      /\ Goto(h, "fetch") \/ Goto(h, "queue")
      /\ Hold(h) /\ GiveBack(h)
      /\ {"fetch", "queue"} \subseteq Label
  BY <1>0 DEF Commit, FetchOn, bookVars, history, Label, Fit, Working, Opened
<1>2. /\ heir' \in [Handlers -> Handlers \cup {NoHandler}] /\ heir'[h] = NoHandler
      /\ \A g \in Handlers : heir'[g] # h /\ heir'[g] \in {heir[g], NoHandler}
  BY <1>0, <1>1, GiveBackOK
<1>3. /\ RequestTypeOK' /\ Alone(h) /\ pc'[h] \in {"fetch", "queue"}
      /\ biz'[h] = biz[h] /\ order'[h] = order[h] /\ drawn'[h] = drawn[h] /\ written'[h] = written[h]
  BY <1>0, <1>1, <1>2, GotoOK
<1>4. Fit(h)' /\ pc'[h] \notin Working
  BY <1>0, <1>1, <1>2, <1>3 DEF Fit, Working, Opened, Committed, InTransaction
<1>5. /\ \A g \in loose' : g \in Handlers \ {h} /\ pc[g] \in Working
      /\ loose \ {h} \subseteq loose'
      /\ loose' # {} => intruded'
  BY <1>0, <1>1 DEF Fit
<1>6. /\ lock' \in [Businesses -> Handlers \cup {NoHandler}]
      /\ \A b \in Businesses :
            /\ lock'[b] # NoHandler =>
                  lock[b] = lock'[b] /\ lock[b] # h /\ counter'[b] = counter[b]
            /\ lock[b] # NoHandler /\ lock[b] # h => lock'[b] = lock[b]
  <2>1. CASE Commit(h)
    <3>1. /\ lock' = [lock EXCEPT ![biz[h]] = NoHandler]
          /\ counter' = [counter EXCEPT ![biz[h]] = drawn[h] + 1]
          /\ InTransaction(h)
      BY <2>1 DEF Commit, InTransaction
    <3>2. \A b \in Businesses : lock[b] = h => b = biz[h]
      BY <1>0 DEF Locked
    <3>3. lock[biz[h]] = h /\ biz[h] \in Businesses
      BY <1>0, <3>1 DEF Fit, InTransaction
    <3> QED
      BY <1>0, <3>1, <3>2, <3>3
  <2>2. CASE FetchOn(h)
    <3>1. pc[h] = "fetch" /\ UNCHANGED <<lock, counter>>
      BY <2>2 DEF FetchOn, bookVars
    <3>2. \A b \in Businesses : lock[b] # h
      BY <1>0, <3>1 DEF Locked, InTransaction
    <3> QED
      BY <1>0, <3>1, <3>2
  <2> QED
    BY <2>1, <2>2
<1>7. \A b \in Businesses : lock[b] # NoHandler => lock[b] \notin loose'
  BY <1>0, <1>1 DEF Locked, InTransaction
<1> QED
  BY <1>2, <1>3, <1>4, <1>5, <1>6, <1>7, SettledBack

\* Whatever a request does.
LEMMA SettledMove ==
  ASSUME Control, NEW h \in Handlers, Moves(h)
  PROVE  Settled(h)
  BY SettledOn, SettledAsk, SettledDraw, SettledEnd, SettledCommit, Zenon DEF Moves

-----------------------------------------------------------------------------
(***************************************************************************)
(* The book and its numbers.                                               *)
(***************************************************************************)
\* A request in its transaction, about to write what nobody has written.
LEMMA CommitFacts ==
  ASSUME Control, NEW h \in Handlers, Commit(h)
  PROVE  /\ InTransaction(h) /\ Of(h) \in Invoices /\ Of(h) = <<biz[h], drawn[h]>>
         /\ biz[h] \in Businesses /\ order[h] \in Orders
         /\ drawn[h] = counter[biz[h]] /\ drawn[h] \in Numbers
         /\ ~Entered(Of(h))
         /\ book' = [book EXCEPT ![Of(h)] = InvoiceOf[order[h]]]
         /\ counter' = [counter EXCEPT ![biz[h]] = drawn[h] + 1]
<1>1. /\ InTransaction(h) /\ pc[h] = "items"
      /\ book' = [book EXCEPT ![Of(h)] = InvoiceUpTo(order[h], Len(LinesOf[order[h]]))]
      /\ counter' = [counter EXCEPT ![biz[h]] = drawn[h] + 1]
  BY DEF Commit, InTransaction
<1>2. /\ lock[biz[h]] = h /\ biz[h] \in Businesses /\ order[h] \in Orders /\ drawn[h] \in Numbers
  BY <1>1 DEF Control, Fit, Opened
<1>3. drawn[h] = counter[biz[h]]
  BY <1>2 DEF Control, Locked
<1>4. Of(h) \in Invoices
  BY <1>2 DEF Of, Invoices
<1>5. ~Entered(Of(h))
  <2>1. Of(h)[1] = biz[h] /\ Of(h)[2] = drawn[h]
    BY DEF Of
  <2>2. Entered(Of(h)) => drawn[h] < counter[biz[h]]
    BY <1>4, <2>1 DEF Control, Filled
  <2> QED
    BY <1>2, <1>3, <2>2 DEF Numbers
<1>6. InvoiceUpTo(order[h], Len(LinesOf[order[h]])) = InvoiceOf[order[h]]
  BY <1>2, InvoiceFacts
<1> QED
  BY <1>1, <1>2, <1>3, <1>4, <1>5, <1>6 DEF Of

\* The book changes only with a commit, the counter also with a draw outside a transaction.
LEMMA BookStays ==
  ASSUME Control, NEW h \in Handlers, Moves(h), ~Commit(h)
  PROVE  /\ book' = book
         /\ \/ counter' = counter
            \/ /\ DrawNumber(h) /\ h \in loose
               /\ counter' = [counter EXCEPT ![biz[h]] = @ + 1]
<1>1. ASSUME DrawNumber(h)
      PROVE  /\ book' = book
             /\ \/ counter' = counter
                \/ DrawNumber(h) /\ h \in loose /\ counter' = [counter EXCEPT ![biz[h]] = @ + 1]
  BY <1>1 DEF DrawNumber
<1>2. ASSUME \/ \E b \in Businesses, o \in Orders : Ask(h, b, o)
             \/ ReadBusiness(h) \/ InsertHeader(h) \/ InsertItem(h) \/ FetchOn(h) \/ Queue(h)
             \/ CommitNothing(h) \/ FetchGone(h) \/ Answer(h) \/ Abandon(h)
      PROVE  book' = book /\ counter' = counter
  BY <1>2 DEF Ask, ReadBusiness, InsertHeader, InsertItem, FetchOn, Queue, CommitNothing, FetchGone,
     Answer, Abandon, GiveUp, bookVars
<1> QED
  BY <1>1, <1>2, Zenon DEF Moves

\* The group of requests that may draw gains or loses at most the one that moves.
LEMMA DrawingChanges ==
  ASSUME NEW h \in Handlers, Alone(h), NEW b \in Businesses, IsFiniteSet(Drawing(b)),
         \A g \in Handlers \ {h} : g \notin loose' => g \notin loose
  PROVE  /\ IsFiniteSet(Drawing(b)')
         /\ Cardinality(Drawing(b)) \in Nat /\ Cardinality(Drawing(b)') \in Nat
         /\ Cardinality(Drawing(b)') <= Cardinality(Drawing(b)) + 1
         /\ h \notin Drawing(b)' => Cardinality(Drawing(b)') <= Cardinality(Drawing(b))
         /\ h \in Drawing(b) => Cardinality(Drawing(b)') <= Cardinality(Drawing(b))
         /\ h \in Drawing(b) /\ h \notin Drawing(b)' =>
               Cardinality(Drawing(b)') <= Cardinality(Drawing(b)) - 1
<1> DEFINE before == Drawing(b)
           after == Drawing(b)'
<1>1. after \ {h} \subseteq before \ {h}
  BY DEF Drawing, InTransaction, Alone
<1> HIDE DEF before, after
<1>2. IsFiniteSet(before) /\ Cardinality(before) \in Nat
  BY FS_CardinalityType DEF before
<1>3. /\ IsFiniteSet(before \ {h}) /\ Cardinality(before \ {h}) \in Nat
      /\ Cardinality(before \ {h}) = IF h \in before THEN Cardinality(before) - 1 ELSE Cardinality(before)
  <2>1. /\ IsFiniteSet(before \ {h})
        /\ Cardinality(before \ {h}) = IF h \in before THEN Cardinality(before) - 1 ELSE Cardinality(before)
    BY <1>2, FS_RemoveElement
  <2> QED
    BY <2>1, FS_CardinalityType
<1>4. /\ IsFiniteSet(after \ {h}) /\ Cardinality(after \ {h}) \in Nat
      /\ Cardinality(after \ {h}) <= Cardinality(before \ {h})
  <2>1. IsFiniteSet(after \ {h}) /\ Cardinality(after \ {h}) <= Cardinality(before \ {h})
    BY <1>1, <1>3, FS_Subset
  <2> QED
    BY <2>1, FS_CardinalityType
<1>5. /\ IsFiniteSet((after \ {h}) \cup {h})
      /\ Cardinality((after \ {h}) \cup {h}) = Cardinality(after \ {h}) + 1
  BY <1>4, FS_AddElement
<1>6. CASE h \in after
  <2>1. (after \ {h}) \cup {h} = after
    BY <1>6
  <2> QED
    BY <1>2, <1>3, <1>4, <1>5, <1>6, <2>1 DEF before, after
<1>7. CASE h \notin after
  <2>1. after \ {h} = after
    BY <1>7
  <2> QED
    BY <1>2, <1>3, <1>4, <1>7, <2>1 DEF before, after
<1> QED
  BY <1>6, <1>7

\* Nobody who lost its transaction gets it back.
LEMMA LooseStays ==
  ASSUME NEW h \in Handlers, Moves(h)
  PROVE  loose \ {h} \subseteq loose'
<1>1. ASSUME CommitNothing(h) \/ Abandon(h) PROVE loose \ {h} \subseteq loose'
  BY <1>1 DEF CommitNothing, Abandon, GiveUp
<1>2. ASSUME \/ \E b \in Businesses, o \in Orders : Ask(h, b, o)
             \/ DrawNumber(h) \/ ReadBusiness(h) \/ InsertHeader(h) \/ InsertItem(h)
             \/ Commit(h) \/ FetchOn(h) \/ Queue(h) \/ FetchGone(h) \/ Answer(h)
      PROVE  loose' = loose
  BY <1>2 DEF Ask, DrawNumber, ReadBusiness, InsertHeader, InsertItem, Commit, FetchOn, Queue,
     FetchGone, Answer, bookVars
<1> QED
  BY <1>1, <1>2, Zenon DEF Moves

\* Requests join those that may draw only by asking.
LEMMA DrawsFromAsk ==
  ASSUME Control, NEW h \in Handlers, Moves(h), NEW b \in Businesses,
         \A c \in Businesses, o \in Orders : ~Ask(h, c, o), h \in Drawing(b)'
  PROVE  h \in Drawing(b) /\ (DrawNumber(h) => h \notin loose) /\ ~Commit(h)
<1>1. RequestTypeOK /\ biz'[h] = b /\ (pc'[h] = "number" \/ InTransaction(h)')
  BY DEF Control, Drawing
<1>2. ASSUME FetchOn(h) \/ Queue(h) \/ Commit(h) PROVE pc'[h] \in Committed
  BY <1>1, <1>2 DEF FetchOn, Queue, Commit, Goto, RequestTypeOK, Committed
<1>3. ASSUME CommitNothing(h) \/ FetchGone(h) \/ Answer(h) \/ Abandon(h) PROVE biz'[h] = NoBusiness
  BY <1>1, <1>3 DEF CommitNothing, FetchGone, Answer, Abandon, GiveUp, Forget, RequestTypeOK
<1>4. ASSUME DrawNumber(h)
      PROVE  pc[h] = "number" /\ pc'[h] = "business" /\ biz' = biz /\ loose' = loose
  BY <1>1, <1>4 DEF DrawNumber, Goto, RequestTypeOK
<1>5. ASSUME ReadBusiness(h) \/ InsertHeader(h) \/ InsertItem(h)
      PROVE  pc[h] \in Opened /\ pc'[h] \in Opened /\ biz' = biz /\ loose' = loose
  BY <1>1, <1>5 DEF ReadBusiness, InsertHeader, InsertItem, Keep, Hold, Goto, bookVars,
     RequestTypeOK, Opened
<1>6. \/ DrawNumber(h) \/ ReadBusiness(h) \/ InsertHeader(h) \/ InsertItem(h)
      \/ FetchOn(h) \/ Queue(h) \/ Commit(h)
      \/ CommitNothing(h) \/ FetchGone(h) \/ Answer(h) \/ Abandon(h)
  BY Zenon DEF Moves
<1>7. ~(FetchOn(h) \/ Queue(h) \/ Commit(h))
  BY <1>1, <1>2 DEF InTransaction, Committed
<1>8. ~(CommitNothing(h) \/ FetchGone(h) \/ Answer(h) \/ Abandon(h))
  BY <1>1, <1>3
<1>9. CASE DrawNumber(h)
  BY <1>1, <1>4, <1>7, <1>9 DEF Drawing, InTransaction
<1>10. CASE ~DrawNumber(h) /\ (ReadBusiness(h) \/ InsertHeader(h) \/ InsertItem(h))
  BY <1>1, <1>5, <1>7, <1>10 DEF Drawing, InTransaction, Opened
<1> QED
  BY <1>6, <1>7, <1>8, <1>9, <1>10

\* No step uses up more numbers than requests have come.
LEMMA NumberedMove ==
  ASSUME Control, NEW h \in Handlers, Moves(h), NEW b \in Businesses
  PROVE  /\ Numbered(b)' /\ counter'[b] \in Nat /\ counter'[b] >= counter[b]
         /\ asks' \in 0..MaxAsks /\ asks' >= asks
<1>0. /\ counter \in [Businesses -> Numbers \cup {MaxAsks + 1}] /\ Numbered(b)
      /\ asks \in Nat /\ asks <= MaxAsks /\ Alone(h) /\ RequestTypeOK
      /\ counter[b] \in Nat /\ MaxAsks \in Nat
  BY SettledMove DEF Control, BookTypeOK, HistoryTypeOK, Settled, Numbers
<1> DEFINE n == Cardinality(Drawing(b))
           m == Cardinality(Drawing(b)')
<1>1. /\ IsFiniteSet(Drawing(b)') /\ n \in Nat /\ m \in Nat /\ m <= n + 1
      /\ h \notin Drawing(b)' => m <= n
      /\ h \in Drawing(b) => m <= n
      /\ h \in Drawing(b) /\ h \notin Drawing(b)' => m <= n - 1
  <2>1. \A g \in Handlers \ {h} : g \notin loose' => g \notin loose
    BY LooseStays
  <2>2. IsFiniteSet(Drawing(b))
    BY <1>0 DEF Numbered
  <2> QED
    BY <1>0, <2>1, <2>2, DrawingChanges
<1>2. counter[b] - 1 + n <= asks
  BY <1>0 DEF Numbered
<1>3. (Numbered(b)' <=> counter'[b] - 1 + m <= asks')
  BY <1>1 DEF Numbered
<1> HIDE DEF n, m
<1>4. CASE \E c \in Businesses, o \in Orders : Ask(h, c, o)
  <2>1. asks' = asks + 1 /\ asks < MaxAsks /\ counter' = counter
    BY <1>4 DEF Ask, bookVars
  <2> QED
    BY <1>0, <1>1, <1>2, <1>3, <2>1
<1>5. CASE ~\E c \in Businesses, o \in Orders : Ask(h, c, o)
  <2>1. asks' = asks
    <3>1. ASSUME \/ DrawNumber(h) \/ ReadBusiness(h) \/ InsertHeader(h) \/ InsertItem(h)
                 \/ FetchOn(h) \/ Queue(h) \/ Commit(h)
                 \/ CommitNothing(h) \/ FetchGone(h) \/ Answer(h) \/ Abandon(h)
          PROVE  asks' = asks
      BY <3>1 DEF DrawNumber, ReadBusiness, InsertHeader, InsertItem, FetchOn, Queue, Commit,
         CommitNothing, FetchGone, Answer, Abandon, GiveUp, Told, history
    <3> QED
      BY <1>5, <3>1, Zenon DEF Moves
  <2>2. CASE Commit(h)
    <3>1. /\ counter' = [counter EXCEPT ![biz[h]] = counter[biz[h]] + 1]
          /\ InTransaction(h) /\ biz[h] \in Businesses
      BY <2>2, CommitFacts
    <3>2. h \notin Drawing(b)'
      BY <1>5, <2>2, DrawsFromAsk
    <3>3. CASE b = biz[h]
      <4>1. h \in Drawing(b) /\ counter'[b] = counter[b] + 1
        BY <1>0, <3>1, <3>3 DEF Drawing
      <4> QED
        BY <1>0, <1>1, <1>2, <1>3, <2>1, <3>2, <4>1
    <3>4. CASE b # biz[h]
      <4>1. counter'[b] = counter[b]
        BY <1>0, <3>1, <3>4
      <4> QED
        BY <1>0, <1>1, <1>2, <1>3, <2>1, <3>2, <4>1
    <3> QED
      BY <3>3, <3>4
  <2>3. CASE /\ DrawNumber(h) /\ h \in loose
             /\ counter' = [counter EXCEPT ![biz[h]] = @ + 1]
    <3>1. h \notin Drawing(b)'
      BY <1>5, <2>3, DrawsFromAsk
    <3>2. CASE b = biz[h]
      <4>1. h \in Drawing(b) /\ counter'[b] = counter[b] + 1
        BY <1>0, <2>3, <3>2 DEF Drawing, DrawNumber
      <4> QED
        BY <1>0, <1>1, <1>2, <1>3, <2>1, <3>1, <4>1
    <3>3. CASE b # biz[h]
      <4>1. counter'[b] = counter[b]
        BY <1>0, <2>3, <3>3
      <4> QED
        BY <1>0, <1>1, <1>2, <1>3, <2>1, <3>1, <4>1
    <3> QED
      BY <3>2, <3>3
  <2>4. CASE counter' = counter
    <3>1. m <= n
      BY <1>1, <1>5, DrawsFromAsk
    <3> QED
      BY <1>0, <1>1, <1>2, <1>3, <2>1, <2>4, <3>1
  <2> QED
    BY <2>2, <2>3, <2>4, BookStays
<1> QED
  BY <1>4, <1>5

\* The book stays in order: what enters is whole, and has the number drawn last.
LEMMA BookMove ==
  ASSUME Control, NEW h \in Handlers, Moves(h)
  PROVE  /\ BookTypeOK'
         /\ book' \in [Invoices -> {Free} \cup {InvoiceOf[o] : o \in Orders}]
         /\ \A i \in Invoices : Filled(i)'
<1>0. /\ counter \in [Businesses -> Numbers \cup {MaxAsks + 1}]
      /\ book \in [Invoices -> {Free} \cup {InvoiceOf[o] : o \in Orders}]
      /\ \A i \in Invoices : Filled(i)
      /\ Settled(h) /\ RequestTypeOK /\ MaxAsks \in Nat
  BY SettledMove DEF Control, BookTypeOK
<1>1. book' \in [Invoices -> {Free} \cup {InvoiceOf[o] : o \in Orders}]
  <2>1. CASE Commit(h)
    BY <1>0, <2>1, CommitFacts
  <2>2. CASE ~Commit(h)
    BY <1>0, <2>2, BookStays
  <2> QED
    BY <2>1, <2>2
<1>2. counter' \in [Businesses -> Numbers \cup {MaxAsks + 1}]
  <2>1. ASSUME NEW b \in Businesses PROVE counter'[b] \in Numbers \cup {MaxAsks + 1}
    <3>1. /\ IsFiniteSet(Drawing(b)') /\ counter'[b] - 1 + Cardinality(Drawing(b)') <= asks'
          /\ counter'[b] \in Nat /\ counter'[b] >= counter[b] /\ asks' \in Nat /\ asks' <= MaxAsks
          /\ counter[b] \in Nat /\ counter[b] >= 1
      BY <1>0, NumberedMove DEF Numbered, Numbers
    <3>2. Cardinality(Drawing(b)') \in Nat
      BY <3>1, FS_CardinalityType
    <3> QED
      BY <1>0, <3>1, <3>2 DEF Numbers
  <2>2. counter' = [b \in Businesses |-> counter'[b]]
    <3>1. CASE Commit(h)
      BY <1>0, <3>1, CommitFacts
    <3>2. CASE ~Commit(h)
      BY <1>0, <3>2, BookStays
    <3> QED
      BY <3>1, <3>2
  <2> QED
    BY <2>1, <2>2
<1>3. ASSUME NEW i \in Invoices PROVE Filled(i)'
  <2>1. i[1] \in Businesses /\ i[2] \in Numbers
    BY DEF Invoices
  <2>2. counter'[i[1]] >= counter[i[1]] /\ counter[i[1]] \in Nat /\ counter'[i[1]] \in Nat
    BY <1>0, <2>1, NumberedMove DEF Numbers
  <2>3. CASE book'[i] = book[i]
    BY <1>0, <2>1, <2>2, <2>3 DEF Filled, Entered, Numbers
  <2>4. CASE Commit(h) /\ i = Of(h)
    <3>1. /\ i[1] = biz[h] /\ i[2] = drawn[h] /\ order[h] \in Orders /\ drawn[h] \in Nat
          /\ book'[i] = InvoiceOf[order[h]] /\ counter'[i[1]] = drawn[h] + 1
      BY <1>0, <2>1, <2>4, CommitFacts DEF Numbers
    <3> QED
      BY <3>1 DEF Filled
  <2>5. book'[i] = book[i] \/ (Commit(h) /\ i = Of(h))
    BY <1>0, BookStays, CommitFacts
  <2> QED
    BY <2>3, <2>4, <2>5
<1>4. deleted' = deleted
  <2>1. ASSUME \/ \E b \in Businesses, o \in Orders : Ask(h, b, o)
               \/ DrawNumber(h) \/ ReadBusiness(h) \/ InsertHeader(h) \/ InsertItem(h)
               \/ FetchOn(h) \/ Queue(h) \/ Commit(h)
               \/ CommitNothing(h) \/ FetchGone(h) \/ Answer(h) \/ Abandon(h)
        PROVE  deleted' = deleted
    BY <2>1 DEF Ask, DrawNumber, ReadBusiness, InsertHeader, InsertItem, FetchOn, Queue, Commit,
       CommitNothing, FetchGone, Answer, Abandon, GiveUp, bookVars
  <2> QED
    BY <2>1, Zenon DEF Moves
<1>5. extra' \subseteq Invoices \X Orders
  <2>1. extra \subseteq Invoices \X Orders
    BY DEF Control, BookTypeOK
  <2>2. CASE InsertHeader(h)
    <3>1. Of(h) \in Invoices /\ order[h] \in Orders
      BY <2>2 DEF Control, InsertHeader, Fit, Opened, Of, Invoices
    <3> QED
      BY <2>1, <2>2, <3>1 DEF InsertHeader
  <2>3. ASSUME \/ \E b \in Businesses, o \in Orders : Ask(h, b, o)
               \/ DrawNumber(h) \/ ReadBusiness(h) \/ InsertItem(h)
               \/ FetchOn(h) \/ Queue(h) \/ Commit(h)
               \/ CommitNothing(h) \/ FetchGone(h) \/ Answer(h) \/ Abandon(h)
        PROVE  extra' = extra
    BY <2>3 DEF Ask, DrawNumber, ReadBusiness, InsertItem, FetchOn, Queue, Commit,
       CommitNothing, FetchGone, Answer, Abandon, GiveUp, bookVars
  <2> QED
    BY <2>1, <2>2, <2>3, Zenon DEF Moves
<1>6. ASSUME NEW i \in Invoices
      PROVE  /\ book'[i].order \in Orders \cup {NoOrder}
             /\ Entered(i)' => Len(book'[i].lines) <= Len(LinesOf[book'[i].order])
  <2>1. CASE book'[i] = Free
    BY <2>1, FreeFacts DEF Entered
  <2>2. ASSUME NEW o \in Orders, book'[i] = InvoiceOf[o]
        PROVE  /\ book'[i].order \in Orders \cup {NoOrder}
               /\ Entered(i)' => Len(book'[i].lines) <= Len(LinesOf[book'[i].order])
    BY <2>2, InvoiceFacts
  <2> QED
    BY <1>1, <2>1, <2>2
<1>7. deleted \subseteq Invoices
  BY DEF Control, BookTypeOK
<1> QED
  BY <1>0, <1>1, <1>2, <1>3, <1>4, <1>5, <1>6, <1>7 DEF BookTypeOK, Settled

-----------------------------------------------------------------------------
(***************************************************************************)
(* Answers.                                                                *)
(***************************************************************************)
\* A request ends: the client is told, and nothing is written.
Ends(h) ==
    /\ pc[h] # "idle" /\ Forget(h) /\ Counts /\ asks' = asks
    /\ intruded \in BOOLEAN => intruded' \in BOOLEAN
    /\ Answered(h, "failure") \/ (pc[h] = "audit" /\ Answered(h, "success"))
    /\ UNCHANGED <<book, extra, deleted, jobVars>>

\* A request goes on: nobody is told anything.
Goes(h) == pc[h] # "idle" /\ UNCHANGED <<order, history, faults>>

\* A request begins, goes on, or ends.
LEMMA Kinds ==
  ASSUME NEW h \in Handlers, Moves(h)
  PROVE  (\E b \in Businesses, o \in Orders : Ask(h, b, o)) \/ Goes(h) \/ Ends(h)
<1>1. ASSUME \/ DrawNumber(h) \/ ReadBusiness(h) \/ InsertHeader(h) \/ InsertItem(h)
             \/ Commit(h) \/ FetchOn(h) \/ Queue(h)
      PROVE  Goes(h)
  BY <1>1 DEF DrawNumber, ReadBusiness, InsertHeader, InsertItem, Commit, FetchOn, Queue, Keep, Hold,
     history, Goes
<1>2. ASSUME CommitNothing(h) \/ FetchGone(h)
      PROVE  Ends(h)
  BY <1>2 DEF CommitNothing, FetchGone, Told, Ends, Counts, bookVars
<1>3. ASSUME Answer(h)
      PROVE  Ends(h)
  BY <1>3 DEF Answer, Told, Ends, Counts, bookVars
<1>4. ASSUME Abandon(h)
      PROVE  Ends(h)
  BY <1>4 DEF Abandon, GiveUp, Ends
<1> QED
  BY <1>1, <1>2, <1>3, <1>4, Zenon DEF Moves

\* Every answer is the answer to a request.
LEMMA HistoryMove ==
  ASSUME Control, NEW h \in Handlers, Moves(h)
  PROVE  HistoryTypeOK' /\ \A o \in Orders : Single(o)'
<1>0. /\ HistoryTypeOK /\ RequestTypeOK /\ (\A o \in Orders : Single(o)) /\ Fit(h)
      /\ MaxAsks \in Nat /\ MaxFaults \in Nat
  BY DEF Control
<1>1. /\ asks \in Nat /\ asks <= MaxAsks /\ intruded \in BOOLEAN /\ faults \in 0..MaxFaults
      /\ told \in [Orders -> {"nothing", "success", "failure"}]
      /\ lateFailures \in [Orders -> 0..MaxAsks]
  BY <1>0 DEF HistoryTypeOK
<1>2. CASE \E b \in Businesses, o \in Orders : Ask(h, b, o)
  <2>1. PICK a \in Orders : \E b \in Businesses : Ask(h, b, a)
    BY <1>2
  <2>2. /\ asks' = asks + 1 /\ asks < MaxAsks /\ UNCHANGED <<told, lateFailures, intruded, faults>>
        /\ order' = [order EXCEPT ![h] = a] /\ \A g \in Handlers : order[g] # a
    BY <2>1 DEF Ask
  <2>3. HistoryTypeOK'
    BY <1>0, <1>1, <2>2 DEF HistoryTypeOK
  <2>4. order'[h] = a /\ \A g \in Handlers \ {h} : order'[g] = order[g]
    BY <1>0, <2>2 DEF RequestTypeOK
  <2>5. ASSUME NEW o \in Orders PROVE Single(o)'
    <3>1. \A f, g \in Handlers : order'[f] = o /\ order'[g] = o => f = g
      BY <1>0, <2>2, <2>4 DEF Single
    <3>2. lateFailures[o] <= asks /\ lateFailures[o] \in Nat
      BY <1>0, <1>1 DEF Single
    <3>3. lateFailures'[o] + 1 <= asks'
      BY <1>1, <2>2, <3>2
    <3> QED
      BY <1>1, <2>2, <3>1, <3>2, <3>3 DEF Single
  <2> QED
    BY <2>3, <2>5
<1>3. CASE Goes(h)
  BY <1>0, <1>3, Zenon DEF Goes, history, HistoryTypeOK, Single
<1>4. CASE Ends(h)
  <2> DEFINE a == order[h]
  <2>1. a \in Orders /\ asks' = asks /\ intruded' \in BOOLEAN /\ faults' \in 0..MaxFaults
    BY <1>0, <1>1, <1>4 DEF Ends, Fit, Counts
  <2>2. /\ order'[h] = NoOrder /\ \A g \in Handlers \ {h} : order'[g] = order[g]
    BY <1>0, <1>4, ForgetOK DEF Ends, Alone
  <2>3. /\ told' \in [Orders -> {"nothing", "success", "failure"}]
        /\ lateFailures' \in [Orders -> Nat]
        /\ lateFailures'[a] <= lateFailures[a] + 1
        /\ \A o \in Orders \ {a} : lateFailures'[o] = lateFailures[o]
    BY <1>1, <1>4, <2>1 DEF Ends, Answered
  <2>4. ASSUME NEW o \in Orders
        PROVE  Single(o)' /\ lateFailures'[o] <= MaxAsks
    <3>1. \A f, g \in Handlers : order'[f] = o /\ order'[g] = o => f = g
      BY <1>0, <2>2 DEF Single
    <3>2. CASE o = a
      <4>1. ~\E g \in Handlers : order'[g] = o
        BY <1>0, <2>1, <2>2, <3>2 DEF Single
      <4>2. lateFailures[o] + 1 <= asks
        BY <1>0, <3>2 DEF Single
      <4>3. lateFailures'[o] <= asks'
        BY <1>1, <2>1, <2>3, <3>2, <4>2
      <4> QED
        BY <1>0, <1>1, <2>1, <2>3, <3>1, <4>1, <4>3 DEF Single
    <3>3. CASE o # a
      <4>1. (\E g \in Handlers : order'[g] = o) => \E g \in Handlers : order[g] = o
        BY <1>0, <2>1, <2>2
      <4>2. lateFailures[o] + (IF \E g \in Handlers : order[g] = o THEN 1 ELSE 0) <= asks
        BY <1>0 DEF Single
      <4>3. lateFailures'[o] + (IF \E g \in Handlers : order'[g] = o THEN 1 ELSE 0) <= asks'
        BY <1>1, <2>1, <2>3, <3>3, <4>1, <4>2
      <4> QED
        BY <1>0, <1>1, <2>1, <2>3, <3>1, <3>3, <4>2, <4>3 DEF Single
    <3> QED
      BY <3>2, <3>3
  <2>5. lateFailures' \in [Orders -> 0..MaxAsks]
    BY <1>0, <2>3, <2>4
  <2>6. asks' \in 0..MaxAsks
    BY <1>0, <1>1, <2>1
  <2> QED
    BY <2>1, <2>3, <2>4, <2>5, <2>6 DEF HistoryTypeOK
<1> QED
  BY <1>2, <1>3, <1>4, Kinds

-----------------------------------------------------------------------------
(***************************************************************************)
(* The queue.                                                              *)
(***************************************************************************)
\* Adding a job to the queue changes nothing but a job that was absent.
LEMMA AddedFacts ==
  ASSUME JobTypeOK, NEW i \in Invoices, NEW as
  PROVE  /\ Added(i, as) \in [Invoices -> [Actions -> JobState]]
         /\ \A j \in Invoices \ {i} : Added(i, as)[j] = job[j]
         /\ \A a \in Actions :
               Added(i, as)[i][a] = IF a \in as /\ job[i][a] = "absent" THEN "waiting" ELSE job[i][a]
<1> DEFINE new == [a \in Actions |->
                      IF a \in as /\ job[i][a] = "absent" THEN "waiting" ELSE job[i][a]]
<1>1. Added(i, as) = [job EXCEPT ![i] = new]
  BY DEF Added
<1>2. job \in [Invoices -> [Actions -> JobState]] /\ "waiting" \in JobState
  BY DEF JobTypeOK, JobState
<1>3. new \in [Actions -> JobState]
  BY <1>2
<1>4. \A a \in Actions :
         new[a] = IF a \in as /\ job[i][a] = "absent" THEN "waiting" ELSE job[i][a]
  OBVIOUS
<1> HIDE DEF new
<1> QED
  BY <1>1, <1>2, <1>3, <1>4

\* The jobs change under a request only when it queues its own, and none is lost again.
LEMMA JobsMove ==
  ASSUME Control, NEW h \in Handlers, Moves(h)
  PROVE  /\ JobTypeOK' /\ \A i \in Invoices : Runs(i)'
         /\ \A i \in Invoices : job[i]["process"] # "absent" => job'[i]["process"] # "absent"
         /\ Queue(h) => job'[Of(h)]["process"] # "absent"
<1>0. JobTypeOK /\ (\A i \in Invoices : Runs(i)) /\ MaxStalls \in Nat /\ JobAttempts \in Nat
  BY DEF Control
<1>1. CASE Queue(h)
  <2>1. Of(h) \in Invoices
    BY <1>1 DEF Control, Queue, Fit, Committed, Of, Invoices
  <2>2. "process" \in Actions /\ UNCHANGED <<tries, stalls, run>> /\ job' = Added(Of(h), {"process"})
    BY <1>1 DEF Queue, Actions
  <2>3. /\ job' \in [Invoices -> [Actions -> JobState]]
        /\ \A j \in Invoices \ {Of(h)} : job'[j] = job[j]
        /\ job'[Of(h)]["process"] =
              IF job[Of(h)]["process"] = "absent" THEN "waiting" ELSE job[Of(h)]["process"]
    BY <1>0, <2>1, <2>2, AddedFacts
  <2>4. JobTypeOK'
    BY <1>0, <2>2, <2>3 DEF JobTypeOK
  <2>5. ASSUME NEW i \in Invoices
        PROVE  Runs(i)' /\ (job[i]["process"] # "absent" => job'[i]["process"] # "absent")
    BY <1>0, <2>2, <2>3 DEF Runs
  <2> QED
    BY <2>3, <2>4, <2>5
<1>2. CASE ~Queue(h)
  <2>1. UNCHANGED jobVars
    <3>1. ASSUME \/ \E b \in Businesses, o \in Orders : Ask(h, b, o)
                 \/ DrawNumber(h) \/ ReadBusiness(h) \/ InsertHeader(h) \/ InsertItem(h)
                 \/ Commit(h) \/ FetchOn(h)
                 \/ CommitNothing(h) \/ FetchGone(h) \/ Answer(h) \/ Abandon(h)
          PROVE  UNCHANGED jobVars
      BY <3>1 DEF Ask, DrawNumber, ReadBusiness, InsertHeader, InsertItem, Commit, FetchOn,
         CommitNothing, FetchGone, Answer, Abandon, GiveUp
    <3> QED
      BY <1>2, <3>1, Zenon DEF Moves
  <2> QED
    BY <1>0, <1>2, <2>1 DEF jobVars, JobTypeOK, Runs
<1> QED
  BY <1>1, <1>2

\* What a worker does to a job.
LEMMA JobsWork ==
  ASSUME Control, NEW i \in Invoices, JobMoves(i)
  PROVE  /\ JobTypeOK' /\ (\A j \in Invoices : Runs(j)')
         /\ \A j \in Invoices : job[j]["process"] # "absent" => job'[j]["process"] # "absent"
         /\ faults' \in 0..MaxFaults
         /\ UNCHANGED <<bookVars, requestVars, history>>
<1>0. /\ JobTypeOK /\ (\A j \in Invoices : Runs(j)) /\ "process" \in Actions
      /\ MaxStalls \in Nat /\ MaxFaults \in Nat /\ JobAttempts \in Nat
      /\ faults \in 0..MaxFaults
      /\ job \in [Invoices -> [Actions -> JobState]] /\ run \in [Invoices -> RunLabel]
      /\ tries \in [Invoices -> 0..JobAttempts] /\ stalls \in [Invoices -> 0..(MaxStalls + 1)]
  BY DEF Control, HistoryTypeOK, JobTypeOK, Actions
<1>1. UNCHANGED <<bookVars, requestVars, history>> /\ Counts
  BY DEF JobMoves, StartProcess, ReadOn, QueueSubmission, QueuePDF, Breaks, Throw, Counts
<1>2. faults' \in 0..MaxFaults
  BY <1>0, <1>1 DEF Counts
<1>3. PICK state \in JobState \ {"absent"} :
         /\ job' \in [Invoices -> [Actions -> JobState]] /\ job'[i]["process"] = state
         /\ \A j \in Invoices \ {i} : job'[j] = job[j]
         /\ run' \in [Invoices -> RunLabel] /\ \A j \in Invoices \ {i} : run'[j] = run[j]
         /\ tries' \in [Invoices -> 0..JobAttempts] /\ \A j \in Invoices \ {i} : tries'[j] = tries[j]
         /\ stalls' = stalls
         /\ state = "active" <=> run'[i] # "none"
         /\ state \notin {"completed", "failed"} => tries'[i] < JobAttempts /\ stalls'[i] <= MaxStalls
  <2> DEFINE Fine(state) ==
         /\ job' \in [Invoices -> [Actions -> JobState]] /\ job'[i]["process"] = state
         /\ \A j \in Invoices \ {i} : job'[j] = job[j]
         /\ run' \in [Invoices -> RunLabel] /\ \A j \in Invoices \ {i} : run'[j] = run[j]
         /\ tries' \in [Invoices -> 0..JobAttempts] /\ \A j \in Invoices \ {i} : tries'[j] = tries[j]
         /\ stalls' = stalls
         /\ state = "active" <=> run'[i] # "none"
         /\ state \notin {"completed", "failed"} => tries'[i] < JobAttempts /\ stalls'[i] <= MaxStalls
  <2>0. Runs(i) /\ {"none", "read", "submit", "pdf"} = RunLabel
        /\ {"absent", "waiting", "active", "completed", "failed"} = JobState
    BY <1>0 DEF RunLabel, JobState
  <2>1. CASE StartProcess(i)
    <3>1. Fine("active")
      BY <1>0, <2>0, <2>1 DEF StartProcess, Runs
    <3> QED
      BY <2>0, <3>1
  <2>2. CASE ReadOn(i)
    <3>1. Fine("active")
      BY <1>0, <2>0, <2>2 DEF ReadOn, Runs
    <3> QED
      BY <2>0, <3>1
  <2>3. CASE QueueSubmission(i)
    <3>1. /\ Added(i, {"submit-firs"}) \in [Invoices -> [Actions -> JobState]]
          /\ \A j \in Invoices \ {i} : Added(i, {"submit-firs"})[j] = job[j]
          /\ Added(i, {"submit-firs"})[i]["process"] = job[i]["process"]
      BY <1>0, AddedFacts
    <3>2. Fine("active")
      BY <1>0, <2>0, <2>3, <3>1 DEF QueueSubmission, Runs
    <3> QED
      BY <2>0, <3>2
  <2>4. CASE QueuePDF(i)
    <3>1. /\ Added(i, {"generate-pdf"}) \in [Invoices -> [Actions -> JobState]]
          /\ \A j \in Invoices \ {i} : Added(i, {"generate-pdf"})[j] = job[j]
      BY <1>0, AddedFacts
    <3>2. Fine("completed")
      BY <1>0, <2>0, <2>4, <3>1 DEF QueuePDF, Runs
    <3> QED
      BY <2>0, <3>2
  <2>5. CASE Breaks(i)
    <3> DEFINE state == IF tries[i] + 1 < JobAttempts THEN "waiting" ELSE "failed"
    <3>1. tries[i] < JobAttempts /\ stalls[i] <= MaxStalls /\ tries[i] \in Nat
      BY <1>0, <2>0, <2>5 DEF Breaks, Runs
    <3>2. Fine(state)
      BY <1>0, <2>0, <2>5, <3>1 DEF Breaks, Throw
    <3> QED
      BY <2>0, <3>2
  <2> QED
    BY <2>1, <2>2, <2>3, <2>4, <2>5 DEF JobMoves
<1>4. JobTypeOK'
  BY <1>0, <1>3 DEF JobTypeOK
<1>5. ASSUME NEW j \in Invoices
      PROVE  Runs(j)' /\ (job[j]["process"] # "absent" => job'[j]["process"] # "absent")
  BY <1>0, <1>3 DEF Runs
<1> QED
  BY <1>1, <1>2, <1>4, <1>5

-----------------------------------------------------------------------------
(***************************************************************************)
(* The crash, and all steps together.                                      *)
(***************************************************************************)
\* Of the requests for one order at most one is cut off.
LEMMA CutOff ==
  ASSUME Control, NEW o \in Orders
  PROVE  Cardinality({h \in Handlers : order[h] = o /\ Late(h)}) =
             IF \E h \in Handlers : order[h] = o /\ Late(h) THEN 1 ELSE 0
<1> DEFINE late == {h \in Handlers : order[h] = o /\ Late(h)}
<1>1. CASE \E h \in Handlers : order[h] = o /\ Late(h)
  <2>1. PICK g \in Handlers : order[g] = o /\ Late(g)
    BY <1>1
  <2>2. \A h \in Handlers : order[h] = o => h = g
    BY <2>1 DEF Control, Single
  <2>3. late = {g}
    BY <2>1, <2>2
  <2> QED
    BY <1>1, <2>3, FS_Singleton
<1>2. CASE ~\E h \in Handlers : order[h] = o /\ Late(h)
  <2>1. late = {}
    BY <1>2
  <2> QED
    BY <1>2, <2>1, FS_EmptySet
<1> QED
  BY <1>1, <1>2

\* A crash cuts off every request, frees every row and puts the jobs back.
LEMMA CrashControl ==
  ASSUME Control, Crash
  PROVE  Control'
<1>0. /\ BookTypeOK /\ JobTypeOK /\ RequestTypeOK /\ HistoryTypeOK
      /\ book \in [Invoices -> {Free} \cup {InvoiceOf[o] : o \in Orders}]
      /\ MaxStalls \in Nat /\ MaxAsks \in Nat /\ MaxFaults \in Nat /\ NoHandler \notin Handlers
  BY DEF Control
<1>1. /\ UNCHANGED <<counter, book, deleted, extra, tries, asks, intruded>>
      /\ loose' = {} /\ lock' = Unlocked(Handlers) /\ faults' = faults + 1 /\ faults < MaxFaults
      /\ pc' = [h \in Handlers |-> "idle"]
      /\ biz' = [h \in Handlers |-> NoBusiness]
      /\ order' = [h \in Handlers |-> NoOrder]
      /\ drawn' = [h \in Handlers |-> 0]
      /\ written' = [h \in Handlers |-> 0]
      /\ heir' = [h \in Handlers |-> NoHandler]
  BY DEF Crash
<1>2. \A b \in Businesses : lock'[b] = NoHandler
  BY <1>0, <1>1 DEF BookTypeOK, Unlocked
<1>3. BookTypeOK'
  <2>1. lock' \in [Businesses -> Handlers \cup {NoHandler}]
    BY <1>1, <1>2 DEF Unlocked
  <2>2. counter' \in [Businesses -> Numbers \cup {MaxAsks + 1}]
    BY <1>0, <1>1 DEF BookTypeOK
  <2>3. \A i \in Invoices :
           /\ book'[i].order \in Orders \cup {NoOrder}
           /\ Entered(i)' => Len(book'[i].lines) <= Len(LinesOf[book'[i].order])
    BY <1>0, <1>1, Zenon DEF BookTypeOK, Entered
  <2>4. deleted' \subseteq Invoices /\ extra' \subseteq Invoices \X Orders /\ loose' \subseteq Handlers
    BY <1>0, <1>1 DEF BookTypeOK
  <2> QED
    BY <2>1, <2>2, <2>3, <2>4 DEF BookTypeOK
<1>4. RequestTypeOK'
  BY <1>1 DEF RequestTypeOK, Label
<1>5. /\ \A h \in Handlers : Fit(h)'
      /\ \A b \in Businesses : Locked(b)'
  BY <1>1, <1>2 DEF Fit, Locked, InTransaction, Opened, Committed
<1>6. ASSUME NEW b \in Businesses PROVE Numbered(b)'
  <2>1. Drawing(b)' = {}
    BY <1>1 DEF Drawing, InTransaction
  <2>2. IsFiniteSet(Drawing(b)') /\ Cardinality(Drawing(b)') = 0
    BY <2>1, FS_EmptySet
  <2>3. IsFiniteSet(Drawing(b)) /\ counter[b] - 1 + Cardinality(Drawing(b)) <= asks
    BY DEF Control, Numbered
  <2>4. Cardinality(Drawing(b)) \in Nat
    BY <2>3, FS_CardinalityType
  <2>5. counter[b] \in Nat /\ asks \in Nat
    BY <1>0 DEF BookTypeOK, HistoryTypeOK, Numbers
  <2>6. counter'[b] - 1 + 0 <= asks'
    BY <1>1, <2>3, <2>4, <2>5
  <2> QED
    BY <2>2, <2>6 DEF Numbered
<1>7. \A i \in Invoices : Filled(i)'
  BY <1>1, Zenon DEF Control, Filled, Entered
<1>8. ASSUME NEW o \in Orders
      PROVE  /\ Single(o)' /\ lateFailures'[o] \in 0..MaxAsks
             /\ told'[o] \in {"nothing", "success", "failure"}
  <2>1. /\ lateFailures'[o] = lateFailures[o] + Cardinality({h \in Handlers : order[h] = o /\ Late(h)})
        /\ told'[o] = IF \E h \in Handlers : order[h] = o THEN "failure" ELSE told[o]
    BY DEF Crash
  <2>2. lateFailures'[o] = lateFailures[o] + (IF \E h \in Handlers : order[h] = o /\ Late(h) THEN 1 ELSE 0)
    BY <2>1, CutOff
  <2>3. lateFailures[o] + (IF \E h \in Handlers : order[h] = o THEN 1 ELSE 0) <= asks
    BY DEF Control, Single
  <2>4. /\ lateFailures[o] \in Nat /\ asks \in Nat /\ asks <= MaxAsks
        /\ told[o] \in {"nothing", "success", "failure"}
    BY <1>0 DEF HistoryTypeOK
  <2>5. lateFailures'[o] <= asks' /\ lateFailures'[o] \in Nat
    BY <1>1, <2>2, <2>3, <2>4
  <2>6. ~\E h \in Handlers : order'[h] = o
    BY <1>1
  <2> QED
    BY <1>0, <1>1, <2>1, <2>4, <2>5, <2>6 DEF Single
<1>9. HistoryTypeOK'
  <2>1. /\ lateFailures' = [o \in Orders |-> lateFailures'[o]]
        /\ told' = [o \in Orders |-> told'[o]]
    BY DEF Crash
  <2> QED
    BY <1>0, <1>1, <1>8, <2>1 DEF HistoryTypeOK
<1>10. JobTypeOK' /\ \A i \in Invoices : Runs(i)'
  <2>0. /\ job \in [Invoices -> [Actions -> JobState]] /\ "process" \in Actions
        /\ stalls \in [Invoices -> 0..(MaxStalls + 1)]
        /\ {"waiting", "failed"} \subseteq JobState /\ "none" \in RunLabel
    BY <1>0 DEF JobTypeOK, Actions, JobState, RunLabel
  <2>1. \A i \in Invoices : Runs(i)
    BY DEF Control
  <2>2. job' = [i \in Invoices |->
                 IF run[i] = "none" THEN job[i]
                 ELSE [job[i] EXCEPT !["process"] = IF stalls[i] < MaxStalls THEN "waiting" ELSE "failed"]]
    BY DEF Crash
  <2>3. /\ stalls' = [i \in Invoices |-> IF run[i] = "none" THEN stalls[i] ELSE stalls[i] + 1]
        /\ run' = [i \in Invoices |-> "none"]
    BY DEF Crash
  <2>4. job' \in [Invoices -> [Actions -> JobState]]
    BY <2>0, <2>2
  <2>5. ASSUME NEW i \in Invoices
        PROVE  stalls'[i] \in 0..(MaxStalls + 1) /\ Runs(i)'
    <3>1. CASE run[i] = "none"
      BY <1>1, <2>0, <2>1, <2>2, <2>3, <3>1 DEF Runs
    <3>2. CASE run[i] # "none"
      <4>1. stalls[i] <= MaxStalls /\ stalls[i] \in Nat /\ tries[i] < JobAttempts
        BY <2>0, <2>1, <3>2 DEF Runs
      <4>2. job'[i]["process"] = IF stalls[i] < MaxStalls THEN "waiting" ELSE "failed"
        BY <2>0, <2>2, <3>2
      <4> QED
        BY <1>0, <1>1, <2>3, <3>2, <4>1, <4>2 DEF Runs
    <3> QED
      BY <3>1, <3>2
  <2>6. stalls' \in [Invoices -> 0..(MaxStalls + 1)]
    BY <2>3, <2>5
  <2> QED
    BY <1>0, <1>1, <2>0, <2>3, <2>4, <2>5, <2>6 DEF JobTypeOK
<1> QED
  BY <1>0, <1>1, <1>3, <1>4, <1>5, <1>6, <1>7, <1>8, <1>9, <1>10 DEF Control

\* The invariant holds at the start.
LEMMA ControlInit ==
  ASSUME Init
  PROVE  Control
<1>1. MaxAsks \in Nat \ {0} /\ {MaxStalls, MaxFaults} \subseteq Nat /\ JobAttempts \in Nat \ {0}
  OBVIOUS
<1>2. \A i \in Invoices : book[i] = Free /\ ~Entered(i)
  BY FreeFacts DEF Init, Entered
<1>3. BookTypeOK
  BY <1>1, <1>2, FreeFacts DEF Init, BookTypeOK, Numbers
<1>4. JobTypeOK
  BY <1>1 DEF Init, JobTypeOK, JobState, RunLabel, Actions
<1>5. RequestTypeOK
  BY <1>1 DEF Init, RequestTypeOK, Label
<1>6. HistoryTypeOK
  <2>1. /\ asks = 0 /\ faults = 0 /\ intruded = FALSE
        /\ told = [o \in Orders |-> "nothing"] /\ lateFailures = [o \in Orders |-> 0]
    BY DEF Init
  <2>2. 0 \in 0..MaxAsks /\ 0 \in 0..MaxFaults
    BY <1>1
  <2> QED
    BY <2>1, <2>2 DEF HistoryTypeOK
<1>7. /\ book \in [Invoices -> {Free} \cup {InvoiceOf[o] : o \in Orders}]
      /\ loose = {}
  BY DEF Init
<1>8. ASSUME NEW h \in Handlers PROVE Fit(h)
  BY DEF Init, Fit, InTransaction, Opened, Committed
<1>9. ASSUME NEW b \in Businesses PROVE Locked(b) /\ Numbered(b)
  <2>1. Drawing(b) = {}
    BY DEF Init, Drawing, InTransaction
  <2>2. IsFiniteSet(Drawing(b)) /\ Cardinality(Drawing(b)) = 0
    BY <2>1, FS_EmptySet
  <2>3. counter[b] = 1 /\ asks = 0 /\ lock[b] = NoHandler
    BY DEF Init
  <2> QED
    BY <2>2, <2>3 DEF Locked, Numbered
<1>10. ASSUME NEW i \in Invoices PROVE Filled(i) /\ Runs(i)
  BY <1>1, <1>2 DEF Init, Filled, Runs, Actions
<1>11. ASSUME NEW o \in Orders PROVE Single(o)
  BY DEF Init, Single
<1> QED
  BY <1>3, <1>4, <1>5, <1>6, <1>7, <1>8, <1>9, <1>10, <1>11 DEF Control

\* Every step keeps it.
LEMMA ControlStep ==
  ASSUME Control, [Next]_vars
  PROVE  Control'
<1>1. ASSUME NEW h \in Handlers, Moves(h) PROVE Control'
  <2>1. Settled(h)
    BY <1>1, SettledMove
  <2>2. /\ BookTypeOK'
        /\ book' \in [Invoices -> {Free} \cup {InvoiceOf[o] : o \in Orders}]
        /\ \A i \in Invoices : Filled(i)'
    BY <1>1, BookMove
  <2>3. \A b \in Businesses : Numbered(b)'
    BY <1>1, NumberedMove
  <2>4. HistoryTypeOK' /\ \A o \in Orders : Single(o)'
    BY <1>1, HistoryMove
  <2>5. JobTypeOK' /\ \A i \in Invoices : Runs(i)'
    BY <1>1, JobsMove
  <2> QED
    BY <2>1, <2>2, <2>3, <2>4, <2>5 DEF Control, Settled
<1>2. ASSUME NEW i \in Invoices, JobMoves(i) PROVE Control'
  <2>1. /\ JobTypeOK' /\ (\A j \in Invoices : Runs(j)') /\ faults' \in 0..MaxFaults
        /\ UNCHANGED <<bookVars, requestVars, history>>
    BY <1>2, JobsWork
  <2>2. /\ UNCHANGED <<counter, lock, book, deleted, loose, extra>>
        /\ UNCHANGED <<pc, biz, order, drawn, written, heir>>
        /\ UNCHANGED <<asks, told, lateFailures, intruded>>
    BY <2>1 DEF bookVars, requestVars, history
  <2>3. BookTypeOK' /\ RequestTypeOK'
    BY <2>2, Zenon DEF Control, BookTypeOK, RequestTypeOK, Entered
  <2>4. HistoryTypeOK'
    BY <2>1, <2>2 DEF Control, HistoryTypeOK
  <2>5. \A h \in Handlers : Fit(h)'
    BY <2>2, Zenon DEF Control, Fit, InTransaction
  <2>6. \A b \in Businesses : Locked(b)' /\ Numbered(b)'
    BY <2>2, Zenon DEF Control, Locked, Numbered, Drawing, InTransaction
  <2>7. \A j \in Invoices : Filled(j)'
    BY <2>2, Zenon DEF Control, Filled, Entered
  <2>8. \A o \in Orders : Single(o)'
    BY <2>2, Zenon DEF Control, Single
  <2>9. /\ book' \in [Invoices -> {Free} \cup {InvoiceOf[o] : o \in Orders}]
        /\ loose' # {} => intruded'
    BY <2>2 DEF Control
  <2> QED
    BY <2>1, <2>3, <2>4, <2>5, <2>6, <2>7, <2>8, <2>9 DEF Control
<1>3. ASSUME NEW i \in Invoices, Delete(i) PROVE Control'
  <2>1. /\ UNCHANGED <<counter, lock, book, loose, extra>> /\ deleted' = deleted \cup {i}
        /\ UNCHANGED <<pc, biz, order, drawn, written, heir>>
        /\ UNCHANGED <<asks, told, lateFailures, intruded, faults>>
        /\ UNCHANGED <<job, tries, stalls, run>>
    BY <1>3 DEF Delete, jobVars, requestVars, history
  <2>2. deleted' \subseteq Invoices
    BY <2>1 DEF Control, BookTypeOK
  <2>3. BookTypeOK'
    BY <2>1, <2>2, Zenon DEF Control, BookTypeOK, Entered
  <2>4. RequestTypeOK' /\ HistoryTypeOK' /\ JobTypeOK'
    BY <2>1, Zenon DEF Control, RequestTypeOK, HistoryTypeOK, JobTypeOK
  <2>5. \A h \in Handlers : Fit(h)'
    BY <2>1, Zenon DEF Control, Fit, InTransaction
  <2>6. \A b \in Businesses : Locked(b)' /\ Numbered(b)'
    BY <2>1, Zenon DEF Control, Locked, Numbered, Drawing, InTransaction
  <2>7. \A j \in Invoices : Filled(j)' /\ Runs(j)'
    BY <2>1, Zenon DEF Control, Filled, Entered, Runs
  <2>8. \A o \in Orders : Single(o)'
    BY <2>1, Zenon DEF Control, Single
  <2>9. /\ book' \in [Invoices -> {Free} \cup {InvoiceOf[o] : o \in Orders}]
        /\ loose' # {} => intruded'
    BY <2>1 DEF Control
  <2> QED
    BY <2>3, <2>4, <2>5, <2>6, <2>7, <2>8, <2>9 DEF Control
<1>4. ASSUME UNCHANGED vars PROVE Control'
  <2>1. /\ UNCHANGED <<counter, lock, book, deleted, loose, extra>>
        /\ UNCHANGED <<pc, biz, order, drawn, written, heir>>
        /\ UNCHANGED <<asks, told, lateFailures, intruded, faults>>
        /\ UNCHANGED <<job, tries, stalls, run>>
    BY <1>4 DEF vars, bookVars, jobVars, requestVars, history
  <2>2. BookTypeOK' /\ RequestTypeOK' /\ HistoryTypeOK' /\ JobTypeOK'
    BY <2>1, Zenon DEF Control, BookTypeOK, Entered, RequestTypeOK, HistoryTypeOK, JobTypeOK
  <2>3. \A h \in Handlers : Fit(h)'
    BY <2>1, Zenon DEF Control, Fit, InTransaction
  <2>4. \A b \in Businesses : Locked(b)' /\ Numbered(b)'
    BY <2>1, Zenon DEF Control, Locked, Numbered, Drawing, InTransaction
  <2>5. \A j \in Invoices : Filled(j)' /\ Runs(j)'
    BY <2>1, Zenon DEF Control, Filled, Entered, Runs
  <2>6. \A o \in Orders : Single(o)'
    BY <2>1, Zenon DEF Control, Single
  <2>7. /\ book' \in [Invoices -> {Free} \cup {InvoiceOf[o] : o \in Orders}]
        /\ loose' # {} => intruded'
    BY <2>1 DEF Control
  <2> QED
    BY <2>2, <2>3, <2>4, <2>5, <2>6, <2>7 DEF Control
<1> QED
  BY <1>1, <1>2, <1>3, <1>4, CrashControl, Alternatives

-----------------------------------------------------------------------------
(***************************************************************************)
(* What is in the book for a request, and for an order.                    *)
(***************************************************************************)
\* A request that goes on keeps its place, and reaches the commit and the audit in turn.
LEMMA GoesOn ==
  ASSUME Control, NEW h \in Handlers, Moves(h), Goes(h)
  PROVE  /\ pc'[h] # "idle" /\ biz'[h] = biz[h] /\ order'[h] = order[h]
         /\ pc'[h] \in Committed =>
               drawn'[h] = drawn[h] /\ (pc[h] \in Committed \/ Commit(h))
         /\ pc'[h] = "audit" => Queue(h)
         /\ pc[h] \in Committed => pc'[h] \in Committed /\ drawn'[h] = drawn[h]
         /\ h \in loose /\ pc[h] = "items" =>
               h \in loose' /\ pc'[h] = "items" /\ drawn'[h] = drawn[h]
<1>0. RequestTypeOK /\ order' = order /\ pc[h] # "idle" /\ order[h] \in Orders
  BY DEF Control, Goes, Fit
<1>1. CASE FetchOn(h) \/ Queue(h)
  BY <1>0, <1>1 DEF FetchOn, Queue, Keep, Hold, Goto, Committed, RequestTypeOK
<1>2. CASE Commit(h)
  BY <1>0, <1>2 DEF Commit, Hold, Goto, Committed, RequestTypeOK
<1>3. CASE DrawNumber(h) \/ ReadBusiness(h) \/ InsertHeader(h)
  BY <1>0, <1>3 DEF DrawNumber, ReadBusiness, InsertHeader, Keep, Hold, Goto, Committed, RequestTypeOK
<1>4. CASE InsertItem(h)
  BY <1>0, <1>4 DEF InsertItem, Committed, bookVars
<1>5. ASSUME \E b \in Businesses, o \in Orders : Ask(h, b, o) PROVE FALSE
  BY <1>0, <1>5 DEF Ask
<1>6. ASSUME CommitNothing(h) \/ FetchGone(h) \/ Answer(h) \/ Abandon(h) PROVE FALSE
  <2>1. order'[h] = NoOrder
    BY <1>0, <1>6 DEF CommitNothing, FetchGone, Answer, Abandon, GiveUp, Forget, RequestTypeOK
  <2> QED
    BY <1>0, <2>1
<1> QED
  BY <1>1, <1>2, <1>3, <1>4, <1>5, <1>6, Zenon DEF Moves

\* A step of a request keeps what is in the book, and beside it.
LEMMA WrittenStays ==
  ASSUME Control, NEW h \in Handlers, Moves(h)
  PROVE  /\ \A i \in Invoices : Entered(i) => book'[i] = book[i]
         /\ extra \subseteq extra'
         /\ extra' # extra => InsertHeader(h) /\ h \in loose
         /\ InsertHeader(h) /\ h \in loose => extra' = extra \cup {<<Of(h), order[h]>>}
<1>1. \A i \in Invoices : Entered(i) => book'[i] = book[i]
  <2>1. CASE Commit(h)
    BY <2>1, CommitFacts DEF Control
  <2>2. CASE ~Commit(h)
    BY <2>2, BookStays
  <2> QED
    BY <2>1, <2>2
<1>2. ASSUME \/ \E b \in Businesses, o \in Orders : Ask(h, b, o)
             \/ DrawNumber(h) \/ ReadBusiness(h) \/ InsertItem(h)
             \/ FetchOn(h) \/ Queue(h) \/ Commit(h)
             \/ CommitNothing(h) \/ FetchGone(h) \/ Answer(h) \/ Abandon(h)
      PROVE  extra' = extra
  BY <1>2 DEF Ask, DrawNumber, ReadBusiness, InsertItem, FetchOn, Queue, Commit,
     CommitNothing, FetchGone, Answer, Abandon, GiveUp, bookVars
<1>3. InsertHeader(h) => extra' = IF h \in loose THEN extra \cup {<<Of(h), order[h]>>} ELSE extra
  BY DEF InsertHeader
<1> QED
  BY <1>1, <1>2, <1>3, Zenon DEF Moves

\* A request that has committed finds its invoice in the book, whatever others do.
LEMMA PlacedMove ==
  ASSUME Control, \A g \in Handlers : Placed(g), NEW h \in Handlers, Moves(h), NEW g \in Handlers
  PROVE  Placed(g)'
<1>0. Alone(h) /\ RequestTypeOK
  BY SettledMove DEF Settled, Control
<1>1. \A f \in Handlers : pc[f] # "idle" =>
         order[f] \in Orders /\ (pc[f] \in Committed => Of(f) \in Invoices)
  BY DEF Control, Fit, Of, Invoices
<1>2. \A i \in Invoices : Entered(i) => book'[i] = book[i]
  BY WrittenStays
<1>3. \A i \in Invoices : job[i]["process"] # "absent" => job'[i]["process"] # "absent"
  BY JobsMove
<1>4. ASSUME g # h PROVE Placed(g)'
  <2>1. /\ pc'[g] = pc[g] /\ order'[g] = order[g] /\ Of(g)' = Of(g) /\ Placed(g)
    BY <1>0, <1>4 DEF Alone, Of
  <2>2. ASSUME pc[g] \in Committed PROVE book'[Of(g)].order = order[g]
    BY <1>1, <1>2, <2>1, <2>2 DEF Placed, Committed, Entered
  <2>3. ASSUME pc[g] = "audit" PROVE job'[Of(g)]["process"] # "absent"
    BY <1>1, <1>3, <2>1, <2>3 DEF Placed, Committed
  <2>4. ASSUME pc[g] # "idle" PROVE told'[order[g]] # "success"
    <3>1. told[order[g]] # "success" /\ order[g] \in Orders
      BY <1>1, <2>1, <2>4 DEF Placed
    <3>2. ASSUME Ends(h) PROVE told'[order[g]] = told[order[g]]
      <4>1. order[h] # order[g]
        BY <1>1, <1>4, <2>4, <3>2 DEF Control, Single, Ends
      <4>2. told \in [Orders -> {"nothing", "success", "failure"}]
        BY DEF Control, HistoryTypeOK
      <4> QED
        BY <3>1, <3>2, <4>1, <4>2 DEF Ends, Answered
    <3>3. ASSUME Goes(h) \/ \E b \in Businesses, o \in Orders : Ask(h, b, o) PROVE told' = told
      BY <3>3 DEF Goes, Ask, history
    <3> QED
      BY <3>1, <3>2, <3>3, Kinds
  <2> QED
    BY <2>1, <2>2, <2>3, <2>4 DEF Placed
<1>5. ASSUME g = h PROVE Placed(g)'
  <2>1. CASE \E b \in Businesses, o \in Orders : Ask(h, b, o)
    <3>1. PICK o \in Orders : \E b \in Businesses : Ask(h, b, o)
      BY <2>1
    <3>2. pc'[h] = "number" /\ order'[h] = o /\ told'[o] # "success"
      BY <1>0, <3>1 DEF Ask, Goto, RequestTypeOK
    <3> QED
      BY <1>5, <3>2 DEF Placed, Committed
  <2>2. CASE Ends(h)
    <3>1. pc'[h] = "idle"
      BY <1>0, <2>2, ForgetOK DEF Ends
    <3> QED
      BY <1>5, <3>1 DEF Placed, Committed
  <2>3. CASE Goes(h)
    <3>1. /\ pc'[h] # "idle" /\ biz'[h] = biz[h] /\ order'[h] = order[h]
          /\ pc'[h] \in Committed =>
               drawn'[h] = drawn[h] /\ (pc[h] \in Committed \/ Commit(h))
          /\ pc'[h] = "audit" => Queue(h)
      BY <2>3, GoesOn
    <3>2. told' = told /\ pc[h] # "idle" /\ Placed(h)
      BY <2>3 DEF Goes, history
    <3>3. ASSUME pc'[h] \in Committed PROVE Of(h)' = Of(h) /\ book'[Of(h)].order = order[h]
      <4>1. Of(h)' = Of(h)
        BY <3>1, <3>3 DEF Of
      <4>2. CASE Commit(h)
        <5>1. /\ Of(h) \in Invoices /\ order[h] \in Orders
              /\ book' = [book EXCEPT ![Of(h)] = InvoiceOf[order[h]]]
          BY <4>2, CommitFacts
        <5>2. book'[Of(h)] = InvoiceOf[order[h]]
          BY <5>1 DEF Control
        <5> QED
          BY <4>1, <5>1, <5>2, InvoiceFacts
      <4>3. CASE pc[h] \in Committed
        BY <1>1, <1>2, <3>2, <4>1, <4>3 DEF Placed, Committed, Entered
      <4> QED
        BY <3>1, <3>3, <4>2, <4>3
    <3>4. ASSUME pc'[h] = "audit" PROVE job'[Of(h)]["process"] # "absent" /\ pc'[h] \in Committed
      BY <3>1, <3>4, JobsMove DEF Committed
    <3> QED
      BY <1>5, <3>1, <3>2, <3>3, <3>4 DEF Placed
  <2> QED
    BY <2>1, <2>2, <2>3, Kinds
<1> QED
  BY <1>4, <1>5

\* What is there stays there while the request has not ended.
LEMMA PresentStays ==
  ASSUME Control, NEW h \in Handlers, Moves(h), NEW g \in Handlers, Present(g), g # h \/ Goes(h)
  PROVE  Present(g)' /\ order'[g] = order[g]
<1>0. Alone(h)
  BY SettledMove DEF Settled
<1>1. loose \ {h} \subseteq loose' /\ extra \subseteq extra'
  BY LooseStays, WrittenStays
<1>2. CASE g # h
  BY <1>0, <1>1, <1>2 DEF Present, Alone, Of
<1>3. CASE g = h /\ Goes(h)
  <2>1. /\ biz'[h] = biz[h] /\ order'[h] = order[h]
        /\ pc[h] \in Committed => pc'[h] \in Committed /\ drawn'[h] = drawn[h]
        /\ h \in loose /\ pc[h] = "items" => h \in loose' /\ pc'[h] = "items" /\ drawn'[h] = drawn[h]
    BY <1>3, GoesOn
  <2> QED
    BY <1>1, <1>3, <2>1 DEF Present, Of
<1> QED
  BY <1>2, <1>3

\* The account of an order that a step neither adds to nor answers.
LEMMA AccountStays ==
  ASSUME NEW o \in Orders, Accounted(o), Mine(o)' = Mine(o), Left(o)' = Left(o),
         lateFailures'[o] = lateFailures[o], told'[o] = told[o],
         \A g \in Handlers : order[g] = o /\ Present(g) => order'[g] = o /\ Present(g)',
         \A i \in Invoices : job[i]["process"] # "absent" => job'[i]["process"] # "absent"
  PROVE  Accounted(o)'
<1>1. \A i \in Mine(o) : i \in Invoices
  BY DEF Mine
<1>2. told'[o] = "success" => \E i \in Mine(o)' : job'[i]["process"] # "absent"
  BY <1>1 DEF Accounted
<1>3. /\ IsFiniteSet(Mine(o)') /\ IsFiniteSet(Left(o)')
      /\ Cardinality(Mine(o)') + Cardinality(Left(o)') <= 1 + lateFailures'[o]
  BY DEF Accounted
<1>4. ASSUME told'[o] # "success", \A h \in Handlers : order'[h] = o => ~Present(h)'
      PROVE  Cardinality(Mine(o)') + Cardinality(Left(o)') <= lateFailures'[o]
  <2>1. \A h \in Handlers : order[h] = o => ~Present(h)
    BY <1>4
  <2> QED
    BY <1>4, <2>1 DEF Accounted
<1> QED
  BY <1>2, <1>3, <1>4 DEF Accounted

\* The invoices of an order change only when it is committed, and what is beside the book
\* only when a request without a transaction writes it.
LEMMA MineMoves ==
  ASSUME Control, NEW h \in Handlers, Moves(h), NEW o \in Orders
  PROVE  /\ Mine(o)' = IF Commit(h) /\ order[h] = o THEN Mine(o) \cup {Of(h)} ELSE Mine(o)
         /\ Left(o)' = IF InsertHeader(h) /\ h \in loose /\ order[h] = o
                       THEN Left(o) \cup {<<Of(h), o>>} ELSE Left(o)
<1>1. CASE Commit(h)
  <2>1. /\ Of(h) \in Invoices /\ order[h] \in Orders /\ book[Of(h)].order = NoOrder
        /\ book' = [book EXCEPT ![Of(h)] = InvoiceOf[order[h]]]
    BY <1>1, CommitFacts DEF Entered
  <2>2. /\ book'[Of(h)].order = order[h]
        /\ \A i \in Invoices \ {Of(h)} : book'[i] = book[i]
    BY <2>1, InvoiceFacts DEF Control
  <2>3. Mine(o)' = IF order[h] = o THEN Mine(o) \cup {Of(h)} ELSE Mine(o)
    BY <2>1, <2>2 DEF Mine
  <2>4. pc[h] = "items" /\ extra' = extra
    BY <1>1 DEF Commit
  <2> QED
    BY <1>1, <2>3, <2>4 DEF Left, InsertHeader
<1>2. CASE ~Commit(h)
  <2>1. Mine(o)' = Mine(o)
    BY <1>2, BookStays DEF Mine
  <2>2. CASE InsertHeader(h) /\ h \in loose
    <3>1. extra' = extra \cup {<<Of(h), order[h]>>}
      BY <2>2, WrittenStays
    <3>2. \A x : x = <<Of(h), order[h]>> => x[2] = order[h]
      OBVIOUS
    <3> QED
      BY <1>2, <2>1, <2>2, <3>1, <3>2 DEF Left
  <2>3. CASE ~(InsertHeader(h) /\ h \in loose)
    <3>1. extra' = extra
      BY <2>3, WrittenStays
    <3> QED
      BY <1>2, <2>1, <2>3, <3>1 DEF Left
  <2> QED
    BY <2>2, <2>3
<1> QED
  BY <1>1, <1>2

\* What a request adds for its order is the one thing that is not accounted for yet.
LEMMA AccountAdds ==
  ASSUME NEW o \in Orders, Accounted(o), lateFailures[o] \in Nat,
         NEW h \in Handlers, order'[h] = o, Present(h)',
         \A g \in Handlers : order[g] = o => ~Present(g),
         told[o] # "success", told'[o] = told[o], lateFailures'[o] = lateFailures[o],
         NEW x, NEW y,
         \/ Mine(o)' = Mine(o) \cup {x} /\ Left(o)' = Left(o)
         \/ Mine(o)' = Mine(o) /\ Left(o)' = Left(o) \cup {y}
  PROVE  Accounted(o)'
<1>1. /\ IsFiniteSet(Mine(o)) /\ IsFiniteSet(Left(o))
      /\ Cardinality(Mine(o)) + Cardinality(Left(o)) <= lateFailures[o]
  BY DEF Accounted
<1> DEFINE mine == Mine(o)
           left == Left(o)
           mine2 == Mine(o)'
           left2 == Left(o)'
<1>2. \/ mine2 = mine \cup {x} /\ left2 = left
      \/ mine2 = mine /\ left2 = left \cup {y}
  OBVIOUS
<1>3. /\ IsFiniteSet(mine) /\ IsFiniteSet(left)
      /\ Cardinality(mine) + Cardinality(left) <= lateFailures[o]
  BY <1>1
<1>4. (IsFiniteSet(mine2) /\ IsFiniteSet(left2)
          /\ Cardinality(mine2) + Cardinality(left2) <= 1 + lateFailures[o]) => Accounted(o)'
  BY DEF Accounted
<1> HIDE DEF mine, left, mine2, left2
<1>5. /\ Cardinality(mine) \in Nat /\ Cardinality(left) \in Nat
  BY <1>3, FS_CardinalityType
<1>6. /\ IsFiniteSet(mine \cup {x}) /\ Cardinality(mine \cup {x}) <= Cardinality(mine) + 1
      /\ IsFiniteSet(left \cup {y}) /\ Cardinality(left \cup {y}) <= Cardinality(left) + 1
  <2> DEFINE k == Cardinality(mine)
             l == Cardinality(left)
             k2 == Cardinality(mine \cup {x})
             l2 == Cardinality(left \cup {y})
  <2>1. IsFiniteSet(mine \cup {x}) /\ (k2 = k \/ k2 = k + 1)
    BY <1>3, FS_AddElement, Zenon
  <2>2. IsFiniteSet(left \cup {y}) /\ (l2 = l \/ l2 = l + 1)
    BY <1>3, FS_AddElement, Zenon
  <2>3. k \in Nat /\ l \in Nat
    BY <1>5
  <2> HIDE DEF k, l, k2, l2
  <2>4. k2 <= k + 1 /\ l2 <= l + 1
    BY <2>1, <2>2, <2>3
  <2> QED
    BY <2>1, <2>2, <2>4 DEF k, l, k2, l2
<1>7. CASE mine2 = mine \cup {x} /\ left2 = left
  <2>1. IsFiniteSet(mine2) /\ Cardinality(mine2) <= Cardinality(mine) + 1 /\ Cardinality(mine2) \in Nat
    BY <1>6, <1>7, FS_CardinalityType, Zenon
  <2>2. IsFiniteSet(left2) /\ Cardinality(left2) = Cardinality(left)
    BY <1>3, <1>7, Zenon
  <2>3. Cardinality(mine2) + Cardinality(left2) <= 1 + lateFailures[o]
    BY <1>3, <1>5, <2>1, <2>2
  <2> QED
    BY <1>4, <2>1, <2>2, <2>3
<1>8. CASE mine2 = mine /\ left2 = left \cup {y}
  <2>1. IsFiniteSet(left2) /\ Cardinality(left2) <= Cardinality(left) + 1 /\ Cardinality(left2) \in Nat
    BY <1>6, <1>8, FS_CardinalityType, Zenon
  <2>2. IsFiniteSet(mine2) /\ Cardinality(mine2) = Cardinality(mine)
    BY <1>3, <1>8, Zenon
  <2>3. Cardinality(mine2) + Cardinality(left2) <= 1 + lateFailures[o]
    BY <1>3, <1>5, <2>1, <2>2
  <2> QED
    BY <1>4, <2>1, <2>2, <2>3
<1> QED
  BY <1>2, <1>7, <1>8

\* Every order stays accounted for under a step of a request.
LEMMA AccountedMove ==
  ASSUME Control, \A g \in Handlers : Placed(g), NEW h \in Handlers, Moves(h),
         NEW o \in Orders, Accounted(o)
  PROVE  Accounted(o)'
<1>0. /\ RequestTypeOK /\ HistoryTypeOK /\ Single(o) /\ Fit(h) /\ Placed(h) /\ Alone(h)
      /\ lateFailures[o] \in Nat
  BY SettledMove DEF Control, Settled, HistoryTypeOK
<1>1. \A i \in Invoices : job[i]["process"] # "absent" => job'[i]["process"] # "absent"
  BY JobsMove
<1>2. /\ Mine(o)' = IF Commit(h) /\ order[h] = o THEN Mine(o) \cup {Of(h)} ELSE Mine(o)
      /\ Left(o)' = IF InsertHeader(h) /\ h \in loose /\ order[h] = o
                    THEN Left(o) \cup {<<Of(h), o>>} ELSE Left(o)
  BY MineMoves
<1>3. CASE \E b \in Businesses, a \in Orders : Ask(h, b, a)
  <2>1. /\ UNCHANGED <<told, lateFailures, book, extra>> /\ pc[h] = "idle" /\ order[h] = NoOrder
    BY <1>0, <1>3 DEF Ask, bookVars, Fit
  <2>2. Mine(o)' = Mine(o) /\ Left(o)' = Left(o)
    BY <2>1 DEF Mine, Left
  <2>3. \A g \in Handlers : order[g] = o /\ Present(g) => order'[g] = o /\ Present(g)'
    BY <2>1, PresentStays
  <2> QED
    BY <1>1, <2>1, <2>2, <2>3, AccountStays
<1>4. CASE Goes(h)
  <2>1. UNCHANGED <<told, lateFailures, order>> /\ pc[h] # "idle"
    BY <1>4 DEF Goes, history
  <2>2. \A g \in Handlers : order[g] = o /\ Present(g) => order'[g] = o /\ Present(g)'
    BY <1>4, PresentStays
  <2>3. CASE order[h] = o /\ (Commit(h) \/ (InsertHeader(h) /\ h \in loose))
    <3>1. ~Present(h) /\ Present(h)'
      <4>1. CASE Commit(h)
        <5>1. pc[h] = "items" /\ h \notin loose /\ pc'[h] = "fetch"
          BY <1>0, <4>1 DEF Commit, Goto, RequestTypeOK
        <5> QED
          BY <5>1 DEF Present, Committed
      <4>2. CASE InsertHeader(h) /\ h \in loose
        <5>1. /\ pc[h] = "header" /\ pc'[h] = "items" /\ h \in loose' /\ Of(h)' = Of(h)
              /\ extra' = extra \cup {<<Of(h), order[h]>>}
          BY <1>0, <4>2 DEF InsertHeader, Goto, RequestTypeOK, Keep, Hold, Of
        <5> QED
          BY <2>1, <5>1 DEF Present, Committed
      <4> QED
        BY <2>3, <4>1, <4>2
    <3>2. \A g \in Handlers : order[g] = o => ~Present(g)
      BY <1>0, <2>3, <3>1 DEF Single
    <3>3. told[o] # "success"
      BY <1>0, <2>1, <2>3 DEF Placed
    <3>4. ~(Commit(h) /\ InsertHeader(h))
      BY DEF Commit, InsertHeader
    <3> QED
      BY <1>0, <1>2, <2>1, <2>3, <3>1, <3>2, <3>3, <3>4, AccountAdds
  <2>4. CASE ~(order[h] = o /\ (Commit(h) \/ (InsertHeader(h) /\ h \in loose)))
    <3>1. Mine(o)' = Mine(o) /\ Left(o)' = Left(o)
      BY <1>2, <2>4
    <3> QED
      BY <1>1, <2>1, <2>2, <3>1, AccountStays
  <2> QED
    BY <2>3, <2>4
<1>5. CASE Ends(h)
  <2> DEFINE a == order[h]
  <2>1. /\ UNCHANGED <<book, extra, job>> /\ pc[h] # "idle" /\ a \in Orders
        /\ told \in [Orders -> {"nothing", "success", "failure"}]
        /\ lateFailures \in [Orders -> 0..MaxAsks]
    BY <1>0, <1>5 DEF Ends, jobVars, Fit, HistoryTypeOK
  <2>2. Mine(o)' = Mine(o) /\ Left(o)' = Left(o)
    BY <2>1 DEF Mine, Left
  <2>3. CASE o # a
    <3>1. told'[o] = told[o] /\ lateFailures'[o] = lateFailures[o]
      BY <1>5, <2>1, <2>3 DEF Ends, Answered
    <3>2. \A g \in Handlers : order[g] = o /\ Present(g) => order'[g] = o /\ Present(g)'
      BY <2>3, PresentStays
    <3> QED
      BY <1>1, <2>2, <3>1, <3>2, AccountStays
  <2>4. CASE o = a
    <3>1. told[o] # "success" /\ \A g \in Handlers : order[g] = o => g = h
      BY <1>0, <2>1, <2>4 DEF Placed, Single
    <3>2. /\ IsFiniteSet(Mine(o)) /\ IsFiniteSet(Left(o))
          /\ Cardinality(Mine(o)) + Cardinality(Left(o)) <= 1 + lateFailures[o]
          /\ ~Present(h) => Cardinality(Mine(o)) + Cardinality(Left(o)) <= lateFailures[o]
      BY <3>1 DEF Accounted
    <3>3. Cardinality(Mine(o)) \in Nat /\ Cardinality(Left(o)) \in Nat
      BY <3>2, FS_CardinalityType
    <3>4. Present(h) => Late(h)
      BY DEF Present, Late, Committed
    <3>5. CASE Answered(h, "failure")
      <4>1. /\ told'[o] = "failure"
            /\ lateFailures'[o] = IF Late(h) THEN lateFailures[o] + 1 ELSE lateFailures[o]
        BY <2>1, <2>4, <3>5 DEF Answered
      <4>2. Cardinality(Mine(o)) + Cardinality(Left(o)) <= lateFailures'[o] /\ lateFailures'[o] \in Nat
        BY <1>0, <3>2, <3>3, <3>4, <4>1
      <4> QED
        BY <2>2, <3>2, <3>3, <4>1, <4>2 DEF Accounted
    <3>6. CASE pc[h] = "audit" /\ Answered(h, "success")
      <4>1. told'[o] = "success" /\ lateFailures'[o] = lateFailures[o]
        BY <2>1, <2>4, <3>6 DEF Answered
      <4>2. Of(h) \in Mine(o)' /\ job'[Of(h)]["process"] # "absent"
        <5>1. Of(h) \in Invoices
          BY <1>0, <2>1, <3>6 DEF Fit, Committed, Of, Invoices
        <5> QED
          BY <1>0, <2>1, <2>2, <2>4, <3>6, <5>1 DEF Placed, Committed, Mine
      <4> QED
        BY <2>2, <3>2, <4>1, <4>2 DEF Accounted
    <3> QED
      BY <1>5, <3>5, <3>6 DEF Ends
  <2> QED
    BY <2>3, <2>4
<1> QED
  BY <1>3, <1>4, <1>5, Kinds

\* A crash tells every client that waited of a failure, late or not.
LEMMA CrashAccounts ==
  ASSUME Control, \A g \in Handlers : Placed(g), Crash
  PROVE  /\ \A g \in Handlers : Placed(g)'
         /\ \A o \in Orders : Accounted(o) => Accounted(o)'
<1>1. /\ UNCHANGED <<book, extra>> /\ pc' = [h \in Handlers |-> "idle"]
      /\ order' = [h \in Handlers |-> NoOrder]
  BY DEF Crash
<1>2. ASSUME NEW g \in Handlers PROVE Placed(g)'
  BY <1>1 DEF Placed, Committed
<1>3. ASSUME NEW o \in Orders, Accounted(o) PROVE Accounted(o)'
  <2>1. Mine(o)' = Mine(o) /\ Left(o)' = Left(o)
    BY <1>1 DEF Mine, Left
  <2>2. /\ lateFailures'[o] = lateFailures[o] + Cardinality({h \in Handlers : order[h] = o /\ Late(h)})
        /\ told'[o] = IF \E h \in Handlers : order[h] = o THEN "failure" ELSE told[o]
    BY DEF Crash
  <2>3. lateFailures'[o] = lateFailures[o] + (IF \E h \in Handlers : order[h] = o /\ Late(h) THEN 1 ELSE 0)
    BY <2>2, CutOff
  <2>4. lateFailures[o] \in Nat
    BY DEF Control, HistoryTypeOK
  <2>5. \A i \in Invoices : job[i]["process"] # "absent" => job'[i]["process"] # "absent"
    <3>1. job \in [Invoices -> [Actions -> JobState]] /\ "process" \in Actions
      BY DEF Control, JobTypeOK, Actions
    <3>2. job' = [i \in Invoices |->
                 IF run[i] = "none" THEN job[i]
                 ELSE [job[i] EXCEPT !["process"] = IF stalls[i] < MaxStalls THEN "waiting" ELSE "failed"]]
      BY DEF Crash
    <3> QED
      BY <3>1, <3>2
  <2>6. \A h \in Handlers : Present(h) => Late(h)
    BY DEF Present, Late, Committed
  <2>7. /\ IsFiniteSet(Mine(o)) /\ IsFiniteSet(Left(o))
        /\ Cardinality(Mine(o)) + Cardinality(Left(o)) <= 1 + lateFailures[o]
        /\ told[o] # "success" /\ (\A h \in Handlers : order[h] = o => ~Present(h)) =>
              Cardinality(Mine(o)) + Cardinality(Left(o)) <= lateFailures[o]
        /\ told[o] = "success" => \E i \in Mine(o) : job[i]["process"] # "absent"
    BY <1>3 DEF Accounted
  <2>8. Cardinality(Mine(o)) \in Nat /\ Cardinality(Left(o)) \in Nat
    BY <2>7, FS_CardinalityType
  <2>9. ASSUME NEW h \in Handlers, order[h] = o PROVE told[o] # "success"
    BY <2>9 DEF Placed, Control, Fit
  <2>10. ASSUME told'[o] # "success"
         PROVE  Cardinality(Mine(o)) + Cardinality(Left(o)) <= lateFailures'[o]
    <3>1. told[o] # "success"
      BY <2>2, <2>9, <2>10
    <3>2. CASE \E h \in Handlers : order[h] = o /\ Late(h)
      BY <2>3, <2>4, <2>7, <2>8, <3>2
    <3>3. CASE ~\E h \in Handlers : order[h] = o /\ Late(h)
      BY <2>3, <2>4, <2>6, <2>7, <2>8, <3>1, <3>3
    <3> QED
      BY <3>2, <3>3
  <2>11. Cardinality(Mine(o)) + Cardinality(Left(o)) <= 1 + lateFailures'[o]
    BY <2>3, <2>4, <2>7, <2>8
  <2>12. ASSUME told'[o] = "success"
         PROVE  \E i \in Mine(o)' : job'[i]["process"] # "absent"
    <3>1. told[o] = "success"
      BY <2>2, <2>12
    <3>2. PICK i \in Mine(o) : job[i]["process"] # "absent"
      BY <2>7, <3>1
    <3>3. i \in Invoices
      BY DEF Mine
    <3> QED
      BY <2>1, <2>5, <3>2, <3>3
  <2> QED
    BY <2>1, <2>7, <2>10, <2>11, <2>12 DEF Accounted
<1> QED
  BY <1>2, <1>3

-----------------------------------------------------------------------------
(***************************************************************************)
(* The numbers without a gap.                                              *)
(***************************************************************************)
\* Until a request rolls back the transaction of another, every number used up is in the book.
Gapless(b) == intruded \/ \A n \in Numbers : n < counter[b] => Entered(<<b, n>>)

\* Everything above.
Kept ==
    /\ Control
    /\ \A h \in Handlers : Placed(h)
    /\ \A o \in Orders : Accounted(o)
    /\ \A b \in Businesses : Gapless(b)

\* A request that breaks into the transaction of another is never forgotten.
LEMMA IntrudedStays ==
  ASSUME NEW h \in Handlers, Moves(h), intruded
  PROVE  intruded'
<1>1. ASSUME CommitNothing(h) \/ FetchGone(h) \/ Answer(h) PROVE intruded'
  BY <1>1 DEF CommitNothing, FetchGone, Answer, Told
<1>2. ASSUME Abandon(h) PROVE intruded'
  BY <1>2 DEF Abandon, GiveUp
<1>3. ASSUME Goes(h) \/ \E b \in Businesses, o \in Orders : Ask(h, b, o) PROVE intruded'
  BY <1>3 DEF Goes, Ask, history
<1>4. ASSUME \/ DrawNumber(h) \/ ReadBusiness(h) \/ InsertHeader(h) \/ InsertItem(h)
             \/ Commit(h) \/ FetchOn(h) \/ Queue(h)
      PROVE  intruded'
  BY <1>4 DEF DrawNumber, ReadBusiness, InsertHeader, InsertItem, Commit, FetchOn, Queue, history
<1> QED
  BY <1>1, <1>2, <1>3, <1>4, Zenon DEF Moves

\* A number is used up by the commit that puts it in the book.
LEMMA GaplessMove ==
  ASSUME Control, NEW b \in Businesses, Gapless(b), NEW h \in Handlers, Moves(h)
  PROVE  Gapless(b)'
<1>0. /\ counter \in [Businesses -> Numbers \cup {MaxAsks + 1}]
      /\ book \in [Invoices -> {Free} \cup {InvoiceOf[o] : o \in Orders}]
      /\ loose # {} => intruded
  BY DEF Control, BookTypeOK
<1>1. SUFFICES ASSUME ~intruded', NEW n \in Numbers, n < counter'[b]
               PROVE  Entered(<<b, n>>)'
  BY DEF Gapless
<1>2. ~intruded /\ loose = {} /\ <<b, n>> \in Invoices
  BY <1>0, <1>1, IntrudedStays DEF Invoices
<1>3. n < counter[b] => Entered(<<b, n>>)
  BY <1>2 DEF Gapless
<1>4. CASE Commit(h)
  <2>1. /\ Of(h) \in Invoices /\ Of(h) = <<biz[h], drawn[h]>>
        /\ biz[h] \in Businesses /\ order[h] \in Orders
        /\ drawn[h] = counter[biz[h]] /\ drawn[h] \in Numbers
        /\ book' = [book EXCEPT ![Of(h)] = InvoiceOf[order[h]]]
        /\ counter' = [counter EXCEPT ![biz[h]] = drawn[h] + 1]
    BY <1>4, CommitFacts
  <2>2. CASE <<b, n>> = Of(h)
    <3>1. book'[<<b, n>>].order = order[h] /\ order[h] # NoOrder
      BY <1>0, <2>1, <2>2, InvoiceFacts
    <3> QED
      BY <3>1 DEF Entered
  <2>3. CASE <<b, n>> # Of(h)
    <3>1. n < counter[b]
      BY <1>0, <1>1, <2>1, <2>3 DEF Numbers
    <3>2. book'[<<b, n>>] = book[<<b, n>>]
      BY <1>0, <1>2, <2>1, <2>3
    <3> QED
      BY <1>3, <3>1, <3>2 DEF Entered
  <2> QED
    BY <2>2, <2>3
<1>5. CASE ~Commit(h)
  <2>1. book' = book /\ counter' = counter
    BY <1>2, <1>5, BookStays
  <2> QED
    BY <1>1, <1>3, <2>1 DEF Entered
<1> QED
  BY <1>4, <1>5

\* The whole invariant holds at the start.
LEMMA KeptInit ==
  ASSUME Init
  PROVE  Kept
<1>1. Control
  BY ControlInit
<1>2. \A i \in Invoices : book[i].order = NoOrder
  BY FreeFacts DEF Init
<1>3. ASSUME NEW o \in Orders PROVE Accounted(o)
  <2>1. Mine(o) = {} /\ Left(o) = {}
    BY <1>2 DEF Init, Mine, Left
  <2>2. lateFailures[o] = 0 /\ told[o] = "nothing"
    BY DEF Init
  <2>3. /\ IsFiniteSet(Mine(o)) /\ IsFiniteSet(Left(o))
        /\ Cardinality(Mine(o)) = 0 /\ Cardinality(Left(o)) = 0
    BY <2>1, FS_EmptySet
  <2> QED
    BY <2>2, <2>3 DEF Accounted
<1>4. \A h \in Handlers : Placed(h)
  BY DEF Init, Placed, Committed
<1>5. \A b \in Businesses : Gapless(b)
  <2>1. \A b \in Businesses : counter[b] = 1
    BY DEF Init
  <2> QED
    BY <2>1 DEF Gapless, Numbers
<1> QED
  BY <1>1, <1>3, <1>4, <1>5 DEF Kept

\* Every step keeps it.
LEMMA KeptStep ==
  ASSUME Kept, [Next]_vars
  PROVE  Kept'
<1>0. /\ Control /\ \A h \in Handlers : Placed(h)
      /\ (\A o \in Orders : Accounted(o)) /\ (\A b \in Businesses : Gapless(b))
  BY DEF Kept
<1>1. Control'
  BY <1>0, ControlStep
<1>2. ASSUME NEW h \in Handlers, Moves(h) PROVE Kept'
  <2>1. \A g \in Handlers : Placed(g)'
    BY <1>0, <1>2, PlacedMove
  <2>2. \A o \in Orders : Accounted(o)'
    BY <1>0, <1>2, AccountedMove
  <2>3. \A b \in Businesses : Gapless(b)'
    BY <1>0, <1>2, GaplessMove
  <2> QED
    BY <1>1, <2>1, <2>2, <2>3 DEF Kept
<1>3. ASSUME Crash PROVE Kept'
  <2>1. (\A g \in Handlers : Placed(g)') /\ \A o \in Orders : Accounted(o)'
    BY <1>0, <1>3, CrashAccounts
  <2>2. UNCHANGED <<book, counter, intruded>>
    BY <1>3 DEF Crash
  <2>3. \A b \in Businesses : Gapless(b)'
    BY <1>0, <2>2, Zenon DEF Gapless, Entered
  <2> QED
    BY <1>1, <2>1, <2>3 DEF Kept
<1>4. ASSUME \/ \E i \in Invoices : JobMoves(i) \/ Delete(i)
             \/ UNCHANGED vars
      PROVE  Kept'
  <2>1. /\ UNCHANGED <<book, counter, extra, loose>> /\ UNCHANGED requestVars /\ UNCHANGED history
        /\ \A i \in Invoices : job[i]["process"] # "absent" => job'[i]["process"] # "absent"
    <3>1. CASE UNCHANGED vars
      BY <3>1 DEF vars, bookVars, jobVars
    <3>2. ASSUME NEW i \in Invoices, Delete(i)
          PROVE  /\ UNCHANGED <<book, counter, extra, loose>>
                 /\ UNCHANGED requestVars /\ UNCHANGED history /\ job' = job
      BY <3>2 DEF Delete, jobVars
    <3>3. ASSUME NEW i \in Invoices, JobMoves(i)
          PROVE  /\ UNCHANGED <<book, counter, extra, loose>>
                 /\ UNCHANGED requestVars /\ UNCHANGED history
                 /\ \A j \in Invoices : job[j]["process"] # "absent" => job'[j]["process"] # "absent"
      BY <1>0, <3>3, JobsWork DEF bookVars
    <3> QED
      BY <1>4, <3>1, <3>2, <3>3
  <2>2. UNCHANGED <<pc, biz, order, drawn, told, lateFailures, intruded>>
    BY <2>1 DEF requestVars, history
  <2>3. \A h \in Handlers : pc[h] # "idle" =>
           (pc[h] \in Committed => Of(h) \in Invoices)
    BY <1>0 DEF Control, Fit, Of, Invoices
  <2>4. ASSUME NEW g \in Handlers PROVE Placed(g)'
    <3>1. Of(g)' = Of(g) /\ Placed(g)
      BY <1>0, <2>2 DEF Of
    <3> QED
      BY <2>1, <2>2, <2>3, <3>1 DEF Placed, Committed
  <2>5. ASSUME NEW o \in Orders PROVE Accounted(o)'
    <3>1. Mine(o)' = Mine(o) /\ Left(o)' = Left(o)
      BY <2>1 DEF Mine, Left
    <3>2. \A g \in Handlers : order[g] = o /\ Present(g) => order'[g] = o /\ Present(g)'
      BY <2>1, <2>2, Zenon DEF Present, Of
    <3> QED
      BY <1>0, <2>1, <2>2, <3>1, <3>2, AccountStays
  <2>6. \A b \in Businesses : Gapless(b)'
    BY <1>0, <2>1, <2>2, Zenon DEF Gapless, Entered
  <2> QED
    BY <1>1, <2>4, <2>5, <2>6 DEF Kept
<1> QED
  BY <1>0, <1>2, <1>3, <1>4, Alternatives

\* So it always holds.
LEMMA KeptAlways == Spec => []Kept
<1>1. Init => Kept
  BY KeptInit
<1>2. Kept /\ [Next]_vars => Kept'
  BY KeptStep
<1> QED
  BY <1>1, <1>2, PTL DEF Spec

-----------------------------------------------------------------------------
\* Every variable of requests, book and queue keeps to the values the code can give it, and
\* the row of a business is held exactly by the request inside its transaction.
THEOREM TypeCorrect == Spec => []TypeOK
<1>1. ASSUME Kept PROVE TypeOK
  <2>1. BookTypeOK /\ JobTypeOK /\ RequestTypeOK /\ HistoryTypeOK
    BY <1>1 DEF Kept, Control
  <2>2. ASSUME NEW h \in Handlers
        PROVE  InTransaction(h) <=> \E b \in Businesses : lock[b] = h
    <3>1. InTransaction(h) => biz[h] \in Businesses /\ lock[biz[h]] = h
      BY <1>1 DEF Kept, Control, Fit, InTransaction
    <3>2. ASSUME NEW b \in Businesses, lock[b] = h PROVE InTransaction(h)
      BY <1>1, <3>2 DEF Kept, Control, Locked
    <3> QED
      BY <3>1, <3>2
  <2> QED
    BY <2>1, <2>2 DEF TypeOK
<1> QED
  BY <1>1, KeptAlways, PTL

\* The numbers of a business run from one without a gap, whatever requests overlap, fail or
\* die, unless one of them has rolled back the transaction of another; and every invoice
\* that was committed has all its line items (getNextInvoiceNumber and createInvoice).
THEOREM BookIsGapless == Spec => []BookGapless
<1>1. ASSUME Kept PROVE BookGapless
  <2>1. ASSUME ~intruded, NEW b \in Businesses, NEW n \in Numbers
        PROVE  Entered(<<b, n>>) <=> n < counter[b]
    <3>1. n < counter[b] => Entered(<<b, n>>)
      BY <1>1, <2>1 DEF Kept, Gapless
    <3>2. <<b, n>> \in Invoices /\ <<b, n>>[1] = b /\ <<b, n>>[2] = n
      BY DEF Invoices
    <3>3. Entered(<<b, n>>) => n < counter[b]
      BY <1>1, <3>2 DEF Kept, Control, Filled
    <3> QED
      BY <3>1, <3>3
  <2>2. ASSUME NEW i \in Invoices, Entered(i)
        PROVE  Len(book[i].lines) = Len(LinesOf[book[i].order])
    <3>1. PICK o \in Orders : book[i] = InvoiceOf[o]
      BY <1>1, <2>2 DEF Kept, Control, Filled
    <3> QED
      BY <3>1, InvoiceFacts
  <2> QED
    BY <2>1, <2>2 DEF BookGapless
<1> QED
  BY <1>1, KeptAlways, PTL

\* An order is invoiced more than once only as often as a request failed that left an
\* invoice behind; an order answered with success is in the book and its processing was
\* queued (the controller's create and createInvoice).
THEOREM AnswersAreTruthful == Spec => []AnswersTruthful
<1>1. ASSUME Kept PROVE AnswersTruthful
  <2>1. ASSUME NEW o \in Orders
        PROVE  /\ Cardinality({i \in Invoices : book[i].order = o})
                    + Cardinality({x \in extra : x[2] = o}) <= 1 + lateFailures[o]
               /\ told[o] = "success" =>
                    \E i \in {i \in Invoices : book[i].order = o} : job[i]["process"] # "absent"
    <3>1. Accounted(o)
      BY <1>1 DEF Kept
    <3> QED
      BY <3>1 DEF Accounted, Mine, Left
  <2> QED
    BY <2>1 DEF AnswersTruthful
<1> QED
  BY <1>1, KeptAlways, PTL

-----------------------------------------------------------------------------
(***************************************************************************)
(* The book implements what a book promises.                               *)
(***************************************************************************)
\* A sequence with one more element.
LEMMA Appended ==
  ASSUME NEW m \in Nat, NEW X, NEW f \in [1..m -> X], NEW x \in X
  PROVE  Append(f, x) = [n \in 1..(m + 1) |-> IF n = m + 1 THEN x ELSE f[n]]
<1> DEFINE g == [n \in 1..(m + 1) |-> IF n = m + 1 THEN x ELSE f[n]]
<1>1. f \in Seq(X) /\ g \in [1..(m + 1) -> X]
  OBVIOUS
<1>2. Len(f) = m /\ g \in Seq(X) /\ Len(g) = m + 1
  BY <1>1, FunctionIsSeq
<1>3. /\ Append(f, x) \in Seq(X) /\ Len(Append(f, x)) = m + 1
      /\ \A n \in 1..m : Append(f, x)[n] = f[n]
      /\ Append(f, x)[m + 1] = x
  BY <1>1, <1>2, AppendProperties
<1>4. \A n \in 1..(m + 1) : Append(f, x)[n] = g[n]
  BY <1>3
<1> HIDE DEF g
<1>5. Append(f, x) = g
  BY <1>2, <1>3, <1>4, SeqEqual
<1> QED
  BY <1>5 DEF g

\* A commit enters the invoice of one order under the next number of one business.
LEMMA CommitEnters ==
  ASSUME Control, NEW h \in Handlers, Commit(h)
  PROVE  Promised!Next
<1>1. PICK b \in Businesses, o \in Orders, k \in Numbers :
         /\ k = counter[b]
         /\ book' = [book EXCEPT ![<<b, k>>] = InvoiceOf[o]]
         /\ counter' = [counter EXCEPT ![b] = k + 1]
  BY CommitFacts
<1>2. /\ counter \in [Businesses -> Numbers \cup {MaxAsks + 1}]
      /\ book \in [Invoices -> {Free} \cup {InvoiceOf[a] : a \in Orders}]
      /\ MaxAsks \in Nat
  BY DEF Control, BookTypeOK
<1> DEFINE m == k - 1
           X == {Free} \cup {InvoiceOf[a] : a \in Orders}
<1>3. m \in Nat /\ m + 1 = k /\ counter[b] - 1 = m /\ counter'[b] - 1 = m + 1
  BY <1>1, <1>2 DEF Numbers
<1>4. \A n \in 1..(m + 1) : <<b, n>> \in Invoices
  <2>1. m + 1 <= MaxAsks
    BY <1>2, <1>3 DEF Numbers
  <2>2. \A n \in 1..(m + 1) : n \in Numbers
    BY <1>2, <1>3, <2>1 DEF Numbers
  <2> QED
    BY <2>2 DEF Invoices
<1> HIDE DEF m
<1>5. /\ Entries(b) = [n \in 1..m |-> book[<<b, n>>]]
      /\ Entries(b)' = [n \in 1..(m + 1) |-> book'[<<b, n>>]]
      /\ book' = [book EXCEPT ![<<b, m + 1>>] = InvoiceOf[o]]
  BY <1>1, <1>3, Zenon DEF Entries
<1>6. Entries(b) \in [1..m -> X] /\ InvoiceOf[o] \in X
  <2>1. \A n \in 1..m : n \in 1..(m + 1)
    BY <1>3
  <2> QED
    BY <1>2, <1>4, <1>5, <2>1
<1>7. Append(Entries(b), InvoiceOf[o])
        = [n \in 1..(m + 1) |-> IF n = m + 1 THEN InvoiceOf[o] ELSE Entries(b)[n]]
  BY <1>3, <1>6, Appended
<1>8. \A n \in 1..(m + 1) :
         book'[<<b, n>>] = IF n = m + 1 THEN InvoiceOf[o] ELSE Entries(b)[n]
  BY <1>2, <1>3, <1>4, <1>5
<1>9. Entries(b)' = Append(Entries(b), InvoiceOf[o])
  BY <1>5, <1>7, <1>8
<1>10. ASSUME NEW c \in Businesses \ {b} PROVE Entries(c)' = Entries(c)
  <2>1. counter'[c] = counter[c] /\ counter[c] \in Nat /\ counter[c] - 1 <= MaxAsks
    BY <1>1, <1>2 DEF Numbers
  <2>2. \A n \in 1..(counter[c] - 1) : <<c, n>> \in Invoices
    BY <1>2, <2>1 DEF Invoices, Numbers
  <2>3. \A n \in 1..(counter[c] - 1) : book'[<<c, n>>] = book[<<c, n>>]
    BY <1>1, <1>2, <2>2
  <2> QED
    BY <2>1, <2>3 DEF Entries
<1>11. BookEntries' = [BookEntries EXCEPT ![b] = Append(@, InvoiceOf[o])]
  <2>1. /\ BookEntries = [c \in Businesses |-> Entries(c)]
        /\ BookEntries' = [c \in Businesses |-> Entries(c)']
    BY DEF BookEntries
  <2> QED
    BY <1>9, <1>10, <2>1
<1> QED
  BY <1>1, <1>11 DEF Promised!Next, Promised!Enter

\* Every step keeps the promise or leaves the book alone, or a request has broken into the
\* transaction of another.
LEMMA StepPromised ==
  ASSUME Control, [Next]_vars
  PROVE  Promised!Next \/ intruded' \/ UNCHANGED BookEntries
<1>1. ASSUME UNCHANGED <<book, counter>> PROVE UNCHANGED BookEntries
  BY <1>1 DEF BookEntries, Entries
<1>2. ASSUME NEW h \in Handlers, Moves(h)
      PROVE  Promised!Next \/ intruded' \/ UNCHANGED BookEntries
  <2>1. CASE Commit(h)
    BY <2>1, CommitEnters
  <2>2. CASE DrawNumber(h) /\ h \in loose
    BY <1>2, <2>2, IntrudedStays DEF Control
  <2>3. CASE ~Commit(h) /\ ~(DrawNumber(h) /\ h \in loose)
    BY <1>1, <1>2, <2>3, BookStays
  <2> QED
    BY <2>1, <2>2, <2>3
<1>3. ASSUME NEW i \in Invoices, JobMoves(i) PROVE UNCHANGED BookEntries
  BY <1>1, <1>3, JobsWork DEF bookVars
<1>4. ASSUME NEW i \in Invoices, Delete(i) PROVE UNCHANGED BookEntries
  BY <1>1, <1>4 DEF Delete
<1>5. ASSUME Crash PROVE UNCHANGED BookEntries
  BY <1>1, <1>5 DEF Crash
<1>6. ASSUME UNCHANGED vars PROVE UNCHANGED BookEntries
  BY <1>1, <1>6 DEF vars, bookVars
<1> QED
  BY <1>2, <1>3, <1>4, <1>5, <1>6, Alternatives

\* Whatever overlaps, fails or dies, an invoice enters the book of its business whole and
\* under the next number, once per committed request, and never changes or leaves it
\* again (createInvoice, getNextInvoiceNumber, deleteInvoice), until a request rolls back
\* the transaction of another.
THEOREM BookKeepsPromise == Spec => ImplementsBook
<1>1. ASSUME Init PROVE Promised!Init
  <2>1. \A b \in Businesses : counter[b] = 1
    BY <1>1 DEF Init
  <2>2. \A b \in Businesses : Entries(b) = <<>>
    BY <2>1 DEF Entries
  <2> QED
    BY <2>2 DEF Promised!Init, BookEntries
<1>2. ASSUME Kept, [Next]_vars PROVE [Promised!Next \/ intruded']_BookEntries
  BY <1>2, StepPromised DEF Kept
<1> QED
  BY <1>1, <1>2, KeptAlways, PTL DEF Spec, ImplementsBook

-----------------------------------------------------------------------------
(***************************************************************************)
(* The figures.  An invoice in the book is what createInvoice makes of an  *)
(* order, so its figures are sums over the lines of that order; two sums   *)
(* agree when they agree line by line.                                     *)
(***************************************************************************)
\* What a client may ask for.
Lines == [value : Nat \ {0}, discount : 0..100, vat : 0..1000, excise : 0..1000]

\* The row of a line carries what the header and the checks count for the line.
Figured(l, r) ==
    /\ Subtotal(l) \in Int /\ Discount(l) \in Int
    /\ Taxable(l) * r \in Int /\ Taxable(l) * l.excise \in Int /\ Row(l).total \in Int
    /\ Row(l).total + Discount(l) = Subtotal(l) + (Taxable(l) * r + Taxable(l) * l.excise)
    /\ Row(l).vat = Taxable(l) * r
    /\ ExpectedVAT(Row(l)) = Row(l).vat

\* It is arithmetic: c is the value in percent, p what the discount takes off it.
LEMMA LineFigured ==
  ASSUME NEW l, NEW v \in Nat \ {0}, NEW d \in 0..100, NEW r \in Nat \ {0}, NEW e \in Nat,
         l.value = v, l.discount = d, l.excise = e, r = Or(l.vat, DefaultVAT)
  PROVE  Figured(l, r)
<1> DEFINE p == v * d
           t == Taxable(l)
<1>1. p \in Int
  OBVIOUS
<1>2. PICK c \in Nat : c = v * 100
  OBVIOUS
<1>3. t = c - p
  BY <1>2 DEF Taxable
<1>4. Subtotal(l) = 1000 * c
  BY <1>2 DEF Subtotal
<1>5. Discount(l) = 1000 * p
  <2>1. Discount(l) = (1000 * v) * d
    BY DEF Discount
  <2>2. (1000 * v) * d = 1000 * (v * d)
    OBVIOUS
  <2> QED
    BY <2>1, <2>2
<1>6. Row(l).vat = t * r /\ Row(l).total = t * (1000 + r + e)
  BY DEF Row
<1>7. ExpectedVAT(Row(l)) = t * r
  <2>1. Row(l).value = v /\ Row(l).discount = d /\ Row(l).vatRate = r
    BY DEF Row
  <2>2. Taxable(Row(l)) = t /\ Or(Row(l).vatRate, DefaultVAT) = r
    BY <2>1 DEF Taxable, Or
  <2> QED
    BY <2>2 DEF ExpectedVAT
<1> HIDE DEF p, t
<1>8. t \in Int /\ t * r \in Int /\ t * e \in Int
  BY <1>1, <1>3
<1>9. t * (1000 + r + e) = 1000 * t + (t * r + t * e)
  BY <1>8
<1>10. 1000 * t + 1000 * p = 1000 * c
  BY <1>1, <1>3
<1>11. /\ Subtotal(l) \in Int /\ Discount(l) \in Int
       /\ t * r \in Int /\ t * e \in Int /\ Row(l).total \in Int
       /\ Row(l).total + Discount(l) = Subtotal(l) + (t * r + t * e)
  <2> DEFINE x == t * r
             y == t * e
  <2>1. Row(l).total = 1000 * t + (x + y) /\ x \in Int /\ y \in Int
    BY <1>6, <1>8, <1>9
  <2> HIDE DEF x, y
  <2>2. /\ Subtotal(l) \in Int /\ Discount(l) \in Int /\ Row(l).total \in Int
        /\ Row(l).total + Discount(l) = Subtotal(l) + (x + y)
    BY <1>1, <1>4, <1>5, <1>8, <1>10, <2>1
  <2> QED
    BY <1>8, <2>2 DEF x, y
<1> QED
  BY <1>6, <1>7, <1>11 DEF Figured, t

\* That holds of every line that a client may ask for.
LEMMA LineFigures ==
  ASSUME NEW l \in Lines
  PROVE  Figured(l, Or(l.vat, DefaultVAT))
<1>1. l.value \in Nat \ {0} /\ l.discount \in 0..100 /\ l.vat \in 0..1000 /\ l.excise \in Nat
  BY DEF Lines
<1>2. Or(l.vat, DefaultVAT) \in Nat \ {0}
  BY <1>1 DEF Or, DefaultVAT
<1> QED
  BY <1>1, <1>2, LineFigured, Zenon

\* The sums over the lines of an order agree because the lines do; without a discount the
\* lines are entered as they were asked for.
LEMMA Figures ==
  ASSUME NEW o \in Orders
  PROVE  LET asked  == LinesOf[o]
             header == InvoiceOf[o].header
             rows   == InvoiceOf[o].lines
         IN /\ InvoiceTotal(rows) = header.total
            /\ VATValid(header, rows)
            /\ (\A n \in DOMAIN asked : asked[n].discount = 0) =>
                  GrandTotal(asked, DefaultVAT) = header.total
<1> DEFINE asked == LinesOf[o]
           kept  == Accepted(asked)
           rows  == Rows(kept)
           I     == DOMAIN asked
           sub   == [n \in I |-> Subtotal(kept[n])]
           disc  == [n \in I |-> Discount(kept[n])]
           vat   == [n \in I |-> Taxable(kept[n]) * Or(kept[n].vat, DefaultVAT)]
           exc   == [n \in I |-> Taxable(kept[n]) * kept[n].excise]
           sub1  == [n \in I |-> Subtotal(asked[n])]
           vat1  == [n \in I |-> Taxable(asked[n]) * Or(asked[n].vat, DefaultVAT)]
           exc1  == [n \in I |-> Taxable(asked[n]) * asked[n].excise]
           tot   == [n \in I |-> rows[n].total]
           duty  == [n \in I |-> vat[n] + exc[n]]
           gross == [n \in I |-> sub[n] + duty[n]]
           due   == [n \in I |-> ExpectedVAT(rows[n])]
           S(f)  == SumFunctionOnSet(f, I)
<1>1. IsFiniteSet(I) /\ \A n \in I : asked[n] \in Lines
  <2>1. asked \in Seq(Lines)
    BY BookAssumption DEF Lines
  <2>2. Len(asked) \in Nat /\ I = 1..Len(asked) /\ \A n \in I : asked[n] \in Lines
    BY <2>1, LenProperties, ElementOfSeq
  <2>3. \A m \in Nat : IsFiniteSet(1..m)
    BY FS_Interval
  <2> QED
    BY <2>2, <2>3
<1>2. /\ InvoiceOf[o].header = Header(kept) /\ InvoiceOf[o].lines = rows
      /\ DOMAIN kept = I /\ DOMAIN rows = I
      /\ \A n \in I : kept[n] = [asked[n] EXCEPT !.discount = 0] /\ rows[n] = Row(kept[n])
  <2>1. InvoiceOf[o] = [order |-> o, header |-> Header(kept), lines |-> rows]
    BY Zenon DEF InvoiceOf
  <2>2. DOMAIN kept = I /\ \A n \in I : kept[n] = [asked[n] EXCEPT !.discount = 0]
    BY Zenon DEF Accepted
  <2> HIDE DEF kept, I
  <2>3. DOMAIN rows = I /\ \A n \in I : rows[n] = Row(kept[n])
    BY <2>2, Zenon DEF Rows
  <2> HIDE DEF rows
  <2> QED
    BY <2>1, <2>2, <2>3
<1> HIDE DEF asked, kept, rows, I
<1>3. \A n \in I : kept[n] \in Lines /\ Figured(kept[n], Or(kept[n].vat, DefaultVAT))
  <2> SUFFICES ASSUME NEW n \in I
               PROVE  kept[n] \in Lines /\ Figured(kept[n], Or(kept[n].vat, DefaultVAT))
    OBVIOUS
  <2>1. kept[n] \in Lines
    BY <1>1, <1>2 DEF Lines
  <2> QED
    BY <2>1, LineFigures
<1>4. /\ Header(kept).vat = S(vat)
      /\ Header(kept).total = S(sub) - S(disc) + S(vat) + S(exc)
  BY <1>2 DEF Header, Total, SumFunction
<1>5. InvoiceTotal(rows) = S(tot) /\ Total(ExpectedVAT, rows) = S(due)
  BY <1>2 DEF InvoiceTotal, Total, SumFunction
<1>6. GrandTotal(asked, DefaultVAT) = S(sub1) + S(vat1) + S(exc1)
  BY DEF GrandTotal, Total, SumFunction, Or, DefaultVAT, I
<1>7. /\ \A n \in I : {sub[n], disc[n], vat[n], exc[n], tot[n]} \subseteq Int
      /\ \A n \in I : due[n] = vat[n] /\ rows[n].vat = ExpectedVAT(rows[n])
      /\ \A n \in I : gross[n] = tot[n] + disc[n]
  BY <1>2, <1>3 DEF Figured
<1>8. ASSUME \A n \in I : asked[n].discount = 0
      PROVE  \A n \in I : disc[n] = 0 /\ sub1[n] = sub[n] /\ vat1[n] = vat[n] /\ exc1[n] = exc[n]
  <2>1. \A n \in I : kept[n] = asked[n]
    BY <1>1, <1>2, <1>8 DEF Lines
  <2>2. \A n \in I : kept[n].discount = 0 /\ kept[n].value \in Nat
    BY <1>1, <1>8, <2>1 DEF Lines
  <2> QED
    BY <2>1, <2>2 DEF Discount
<1>9. \A n \in I : duty[n] = vat[n] + exc[n] /\ gross[n] = sub[n] + duty[n]
  OBVIOUS
<1> HIDE DEF sub, disc, vat, exc, sub1, vat1, exc1, tot, duty, gross, due
<1>10. \A n \in I : duty[n] \in Int
  BY <1>7, <1>9
<1>11. S(gross) = S(sub) + S(duty) /\ S(duty) = S(vat) + S(exc)
  BY <1>1, <1>7, <1>9, <1>10, SumOfSums
<1>12. S(gross) = S(tot) + S(disc)
  BY <1>1, <1>7, SumOfSums
<1>13. S(due) = S(vat)
  BY <1>1, <1>7, SumSame
<1>14. ASSUME \A n \in I : asked[n].discount = 0
       PROVE  S(disc) = 0 /\ S(sub1) = S(sub) /\ S(vat1) = S(vat) /\ S(exc1) = S(exc)
  BY <1>1, <1>7, <1>8, <1>14, SumZero, SumSame
<1>15. {S(sub), S(disc), S(vat), S(exc), S(tot)} \subseteq Int
  BY <1>1, <1>7, SumType
<1> HIDE DEF S
<1>16. Header(kept).total = S(tot)
  BY <1>4, <1>11, <1>12, <1>15
<1>17. VATValid(Header(kept), rows)
  BY <1>2, <1>4, <1>5, <1>7, <1>13 DEF VATValid
<1>18. ASSUME \A n \in I : asked[n].discount = 0
       PROVE  GrandTotal(asked, DefaultVAT) = Header(kept).total
  BY <1>4, <1>6, <1>14, <1>15, <1>18
<1> QED
  BY <1>2, <1>5, <1>16, <1>17, <1>18 DEF asked, I

\* Wherever the figures of an invoice are worked out, whatever lines were asked for, they
\* agree (createInvoice, validateInvoice, validateVATCalculation), and for a request without
\* discounts the quote of calculateInvoiceTax, to a business with the default rate, is the
\* invoiced total.
THEOREM FiguresAreRight == Spec => []FiguresAgree
<1>1. ASSUME Kept PROVE FiguresAgree
  <2>1. ASSUME NEW i \in Invoices, Entered(i)
        PROVE  LET invoice == book[i]
                   asked   == LinesOf[invoice.order]
                   rate    == Or(BusinessRate[i[1]], DefaultVAT)
               IN /\ InvoiceTotal(invoice.lines) = invoice.header.total
                  /\ VATValid(invoice.header, invoice.lines)
                  /\ rate = DefaultVAT /\ (\A n \in DOMAIN asked : asked[n].discount = 0) =>
                        GrandTotal(asked, rate) = invoice.header.total
    <3>1. PICK o \in Orders : book[i] = InvoiceOf[o] /\ book[i].order = o
      BY <1>1, <2>1, InvoiceFacts DEF Kept, Control, Filled
    <3>2. LET asked  == LinesOf[o]
              header == InvoiceOf[o].header
              rows   == InvoiceOf[o].lines
          IN /\ InvoiceTotal(rows) = header.total
             /\ VATValid(header, rows)
             /\ (\A n \in DOMAIN asked : asked[n].discount = 0) =>
                   GrandTotal(asked, DefaultVAT) = header.total
      BY Figures
    <3> QED
      BY <3>1, <3>2
  <2> QED
    BY <2>1 DEF FiguresAgree
<1> QED
  BY <1>1, KeptAlways, PTL
=============================================================================
