# Verification of elexsol-backend

TLA+ specifications of the parts of the backend whose correctness depends on
interleaving, failure and ordering, the TLC configurations that check them, and proofs
that TLAPS checks. Paths are relative to the repository: the TypeScript sources are in
`src/src/`, and line numbers refer to the modelled commit.

## 1. The system

An Express application over PostgreSQL (`config/database.ts`, one pool of connections),
Redis (`config/redis.ts`: reset tokens, webhook registrations, queued syncs, rate limits) and BullMQ
queues in Redis (`services/queue/`). Request handlers, queue workers and cron jobs are
async functions: they run interleaved, and every `await` is a point where another one
may go on. Nothing uses a row lock, a version test or a conditional update, although
`version` columns exist.

| Component | State it keeps | Operations | Hard behaviour | What makes it correct |
|---|---|---|---|---|
| Payment ledger (`models/Transaction.ts`, `controllers/v1/TransactionController.ts`) | rows of `transactions`; `amount_paid`, `balance_due`, `payment_status`, `paid_at` of `invoices`; the pool | create, complete, fail, refund, reconcile, overdue sweep | reads outside the transaction, the invoice written on a second connection, pool exhaustion, rollback after the invoice is committed | money on an invoice equals the transactions that say so; the columns agree; every request ends |
| Invoice creation (`models/Invoice.ts`, `models/Business.ts`, `controllers/v1/InvoiceController.ts`) | `invoices`, `invoice_line_items`, `businesses.next_invoice_number`, the process job | create, number, queue, delete | one row per business that every creation locks, failures on both sides of the commit, repeated requests, the same amounts worked out in four places | numbers without gap or repetition, whole invoices, one per order, figures that agree |
| FIRS submission (`services/regulatory/FIRSService.ts`) | `firs_status`, `status` of `invoices`; rows of `regulatory_logs`; documents at FIRS | submit, check status, cancel, delete | retries with new request ids, lost replies, two updates without a transaction, concurrent submission and cancellation | what the database says is what FIRS said; one document per submission |
| Invoice queue (`services/queue/InvoiceQueue.ts`, `QueueService.ts`) | BullMQ jobs | process, submit-firs | attempts, stalled jobs, job ids | jobs end; a job is not run twice for nothing |
| Webhook delivery (`services/webhook/`, `services/queue/WebhookQueue.ts`) | registration in Redis; rows of `webhook_events`; jobs | receive, deliver, count failures, pause, resume, edit, unregister, retry | read-modify-write in Redis, redelivery, two retry mechanisms, retention of jobs | event, job and receiver agree; redelivery only after a loss; a pause sticks |
| Integrations and sync (`services/integrations/IntegrationService.ts`, `repositories/AccountIntegrationRepository.ts`, `jobs/sync-scheduler.ts`) | rows of `account_integrations` (status, sync status, tokens, settings), the Redis set of queued syncs | connect, disconnect, test, sync by request, queue and schedule, refresh the token, change settings | double sync, a crash while syncing, a rotating token refreshed twice, whole-column writes | a row says syncing only while somebody syncs; no request for a sync is lost; the stored token is the provider's |
| Authentication (`services/auth/auth.service.ts`, `repositories/UserRepository.ts`, `models/Session.ts`) | columns of `users` (hash, history, attempts, lock, MFA), rows of `sessions`, reset tokens in Redis | login, MFA set-up, verification, switching off, change and reset of the password, logoutAll, refresh | read-modify-write of counters and lists, a login that overlaps a change of the password | no undeserved lock; a backup code is good once; sessions end with their password |
| Reports (`controllers/ReportController.ts`, `services/queue/ReportQueue.ts`, `services/reporting/ScheduledReportService.ts`) | rows of `reports`, jobs, the process's table of cron entries | create, generate, edit, delete, schedule, pause, resume, execute | an execution that lost its lock goes on, job ids that outlive a job, cron entries that a restart forgets | completed means a whole file; row and job tell one story; the schedule follows the last request |
| Redis utilities, notifications, growth engine, compliance and document formats, administration, health, HTTP layer, accounts, encryption | see section 6 and `PROJECT.json` | queries, arithmetic, external calls | little that is reachable | |

How they interact: the invoice controller creates an invoice and queues `process`, which
queues `submit-firs`, whose worker calls the FIRS service, which writes the log row and
the invoice. The transaction model calls the invoice model. The webhook service stores
an event and queues its job; the worker calls the webhook processor, which changes the
event, the registration and, through pauseWebhook, the registration again. Cron jobs
call the same services as requests do.

### How the source is read

The repository does not build as it stands, so some calls need a reading.
`repositories/BaseRepository.ts` has a syntax error in buildWhereClause. `redis` is read as
an ioredis client: the `RedisManager` that `config/redis.ts` exports has no setex, sadd,
smembers and srem, which the services call, and its get has parsed what they parse again.
`db.query` is not a method of the Database class and is read as a query on the pool, which
takes a connection and commits at once. Methods that controllers call on a repository and only
the model of the same name defines (completeTransaction, createLog, the webhook events'
methods) are read from the model. `QueueScheduler` is no longer exported by the bullmq
version in `package.json`, and delayed jobs are read as BullMQ runs them. Most
migrations are empty: column types are those of the TypeScript interfaces.

Some handlers are mounted by no route, those of `controllers/WebhookController.ts` and
`controllers/ReportController.ts` among them. They are entry points of the models
nevertheless, since their code is what is checked. `services/integrations/webhook/
webhook.service.ts` is imported nowhere and is not modelled.

## 2. Modules

| Module | What it models |
|---|---|
| `PaymentLedger` | transactions, the invoices they pay, the connection pool and row locks; ends with the refinement mapping to Ledger |
| `Ledger` | what the payment handlers promise: status and money change in one step |
| `LedgerReports` | the reports computed over the rows of PaymentLedger: statistics and ages of debts, summaries of transactions (extends PaymentLedger) |
| `MCPaymentLedger` | instances of LedgerReports |
| `PaymentLedger_proofs` | the invariants of PaymentLedger, the agreement of the reports, and PaymentLedger implements Ledger, proved (extends LedgerReports and SumTheorems) |
| `InvoiceFigures` | the amounts of an invoice as createInvoice, validateInvoice, validateVATCalculation and calculateInvoiceTax work them out |
| `InvoiceBook` | how an invoice enters the book: number, transaction, queue, answer, process job (extends InvoiceFigures); ends with the refinement mapping to Book |
| `Book` | what createInvoice promises: an invoice enters whole, under the next number, for good |
| `MCInvoiceBook` | an instance of InvoiceBook |
| `FIRSSubmission` | submissions, status checks, cancellation, deletion, the queue job |
| `WebhookDelivery` | events, the registration, the delivery job, retries |
| `IntegrationSync`, `MCIntegrationSync` | connected accounts, their tokens and settings, the sync queue and the scheduler |
| `AuthSessions`, `MCAuthSessions` | one user's password, lockout, second factor and sessions |
| `ReportJobs`, `MCReportJobs` | report rows, their jobs, cron entries and requests |
| `InvoiceBook_proofs`, `FIRSSubmission_proofs`, `WebhookDelivery_proofs`, `IntegrationSync_proofs`, `AuthSessions_proofs`, `ReportJobs_proofs` | theorems about the module of that name |
| `SumTheorems` | lemmas about sums over finite sets, for the proofs of PaymentLedger and InvoiceBook |

How the modules meet: InvoiceBook ends where the `submit-firs` job is queued, which is
where FIRSSubmission begins; PaymentLedger begins with invoices that exist. They share
the row of an invoice, but different columns of it, and the deletion of an invoice is an
action of each.

All specifications follow one pattern. A worker is one handler in flight with a
label `pc` for the await it is at and the locals it carries. An action is the code
between two awaits, with its conditions as guards. Variables named as history record what
happened so that properties can speak of it; no action's effect on the rest depends on
them (`told` of InvoiceBook is both: a client asks again when it was told of a failure).
Operators marked `Slip` are plausible mistakes used to confirm that each property can
fail; the specifications do not use them. A constant `Mixes` says which kinds of
operation meet in one behaviour: every mix is explored, and an operation that is in no
mix with another one does not meet it.

### PaymentLedger

`status`, `reconciled` are columns of `transactions`; `amountPaid`, `balanceDue`,
`paymentStatus`, `paidAt`, `deleted` are columns of `invoices`; `due` is
`due_date < NOW()`. completeTransaction and refundTransaction are one chain, `read`,
`update`, `invoice`, `write`, `commit`: findById on the pool, UPDATE by id on the client
(it waits for `rowOwner`, and its effect is visible at COMMIT), then updatePaymentStatus
as a read and an independent UPDATE on the pool. A worker whose label is in `Holding` has
a connection; a step whose label is in `NeedsPool` needs another one (`Free`), and without
one may only time out. failTransaction and reconcile are single UPDATEs that wait for the
row. Fault stands for any failing statement and for a crash: the database drops the open
transaction, and an invoice UPDATE already committed remains. FallDue, Postpone,
MarkOverdue and DeleteInvoice are the other writers of the same rows.

Left out: amounts are whole numbers (the code adds JavaScript numbers, and the rounding
of fractions is not modelled); references and metadata; updates of invoice content other
than the due date; a ROLLBACK that itself fails, after which the client is not released.

### LedgerReports

Six reads that a business can ask for, each one SQL statement and therefore one state:
getStatistics and getAgingReport of `InvoiceRepository`, getDailySummary,
getMonthlySummary, getReconciliationReport and getUnreconciled of
`TransactionRepository`. They are operators over the variables of PaymentLedger, for one
business and a period that covers its rows. ReportsAgree has three parts and is asked
when no request is half done: AgingAccounts says what the aging report leaves out,
CollectedAccounts that invoices and transactions show the same money, TransactionsAccount
that the summaries add up. PaymentLedger knows of a due date only whether it has passed;
AgingAccounts tries every age that agrees with that, in half days around each bound.

Reading the statement shows three gaps, which AgingAccounts states exactly: a debt that
is more than 30 and less than 31 days late is in no bucket, since `days_1_30` ends at 30
days and `days_31_60` begins at 31 (the same between 60 and 61); an invoice that
markOverdue has marked is in none at all, since the report asks for 'unpaid' and
'partial'; and a debt due this instant is in two. The dashboards of `AnalyticsService`,
`CashFlowService` and the financial report are not modelled: they call reduce and filter
on what `TransactionRepository.findByBusiness` answers, which is an object and not an
array, and throw.

### FIRSSubmission

`firs` and `status` are columns of `invoices`; `logStatus` and `irnKnown` columns of
`regulatory_logs`; `job`, `tries`, `stalls` are BullMQ's record of the job. A submission is
`load`, `log`, `post` and then either `approve`, `approveInvoice` (log row, invoice),
`refused` (business error, recorded, counts as an attempt) or directly the catch clause.
After MaxAttempts it records the failure and returns normally, so the job completes.
Post decides what FIRS did: it registered the document and the reply came, it registered
the document and the reply was lost, it answered an error, or it was not reached.
StartCheck to MarkFIRSRejected are checkStatus; StartCancel/Cancel and StartDelete/Delete
are the controllers' check-then-write. markFailed always writes 'pending', since nothing
increments the attempts it compares.

FIRS itself and BullMQ are external and modelled from the code's use of them: a document
may be registered by each POST; a ruling of rejection is not taken back; BullMQ runs a
job at most JobAttempts times and puts a stalled job back at most MaxStalls times. A
finished job's id is kept for good: its retention is a day and only the creation of the
invoice queues it. XML, signature and the validator are an outcome (`Load`); the content
of the invoice is not modelled, so an edit during a submission is not either.

### WebhookDelivery

`reg` is the JSON value of `webhook:<id>`; everyone who changes it goes through
ReadRegistration and WriteRegistration with `kind` saying what for, and
`Edit` saying how. The job runs `check`, `send`, then on success `markCompleted`, the
reset of the failure count and `succeed`; on failure the failure count, then `schedule`
(scheduleRetry) or `markFailed` and `limit` (checkAndPauseWebhook), and `fail`, which
throws to BullMQ. retryWebhook is `retry`, `requeue`. A job that retryWebhook queues carries
the integration's id, under which no registration is stored (`RegOf`). ExpireJob is the
queue's retention of finished jobs; it lasts a day at least, so it never runs inside a
request. The key `webhook_retry:<event>` that scheduleRetry writes is left out: only
processRetryQueue reads it, which has no caller. triggerWebhook stores no event and its
jobs are not modelled.

### InvoiceFigures and InvoiceBook

`counter` is `businesses.next_invoice_number` as committed, `lock` the request that holds
the row of the business, `book` the committed invoices by number. A request is `number`
(BEGIN done, getNextInvoiceNumber to come, which waits for the row), `business` (read on
the pool), `header`, `items` (one INSERT a line), then COMMIT, `fetch` (getWithLineItems),
`queue` and `audit` of the controller. `Available` says whether the pool has a connection:
what needs one and finds none gives up by ConnectionTimeout, the worker by JobTimeout. Uncommitted rows are the locals of the request. The
jobs `process`, `submit-firs`, `generate-pdf` are there by id; `run` is how far a worker is
in processNewInvoice.

createInvoice reads the invoice back inside the try block whose catch sends ROLLBACK and
releases the client, although COMMIT has released it. node-postgres lets a released
client be queried, and its next user gets a release function of its own. So when the read
fails, whoever has got the connection (`heir`) loses its transaction: it becomes `loose`,
its row lock is gone, what it had written is undone, and what it still writes is
committed statement by statement (`extra`). Its COMMIT does nothing and its release
throws, so it answers with a failure. The transaction hit need not be one of
createInvoice: with the same statement, a handler of PaymentLedger can lose its
transaction. That is not in the model of the ledger. Nor does the pool hand the
connection, released by the wrong request, to a third one: its statements would then be
part of that request's transaction.

Amounts are exact integers; the tolerance of 0.01 of the validators is not needed.
`Accepted` is what the schema of the route does to a line: it keeps `discount_rate` and
removes `discount`, which createInvoice reads. So every discount a client asks for is
silently ignored, in header and rows alike, and the quote of calculateInvoiceTax (a route
without a schema) is lower than the invoice. That quote subtracts the discount from the
tax base but not from grandTotal, and it honours the business's vat_rate, which
createInvoice does not. A vat_rate of 0, which the schema admits, becomes 7.5.
Withholding, exemption and zero rating are keys that the schema of an invoice does not
have; GrandTotal is the quote of a request without them.

### IntegrationSync

UNIQUE(business_id, provider, account_email) covers deleted rows too, so an account is a
row. The columns are `status`, `syncStatus`, `due` (the frequency has elapsed),
`expired` (token_expires_at has passed), `refreshToken` and `accepted` (the one the
provider accepts, which rotates), `settings`; `queue` is the Redis set. A worker is a
request or a pass of processSyncQueue; the scheduler is a process of its own.

Three handlers write `settings`, of which the model keeps the keys. updateSettings and
registerWebhook of WebhookService read the row, spread its settings under theirs and write
it (`merge`, `write`); the latter has stored its registration in Redis before (`addHook`,
`registered`) and sets webhook_url with the settings (`hooked`); given no metadata it
drops the webhook_metadata of an earlier registration. updateWebhookEvents looks the
registration up (`lookUp`) and replaces the column (`replace`), which MergesKeepSettings
names as its exception. Of the content of a registration WebhookDelivery speaks. Disconnecting a row with a webhook_url goes through
removeWebhook first, which gets the access token and may thereby mark the row expired.

setupWebhook is unreachable, as no provider supports webhooks. processSyncQueue and
refreshToken have no caller in the repository and are modelled as entry points. As the
code has it: a sync ignores the result's success flag, a failed sync stays queued, the
scheduler skips rows that are 'failed' or were left 'syncing', and the entry of a deleted
integration stays in the queue.

### AuthSessions

One user: `hash` with the number of times it was hashed (updatePassword hashes what
changePassword and resetPassword have hashed already, so the new password never matches),
`history`, `attempts`, `locked`, `mfa`, `codes`; sessions by row; reset tokens. A worker is
a request. Login writes sessions to the database only, while the authenticate middleware
looks in Redis only, so no request passes it; the handlers behind it are entry points
nevertheless, since their code is what is checked. logoutAll compares a row id with a
token and so spares nobody; logout passes a token where a user id is expected and changes
nothing; revokeSession only touches Redis. The schemas of the routes (`auth.routes.ts:14` and `:23`)
admit codes of six digits, so a backup code, which has eight characters, never reaches the
service through the API; the model reads the service, which takes it. SessionService.createSession, MFAService,
UserModel.authenticate and changePassword and impersonation have no caller.

### ReportJobs

`status`, `progress`, `file`, `content` (the version of the parameters), `scheduled`,
`deleted` are columns of `reports`; `job`, `tries`, `stalls`, `owner`, `data` are BullMQ's;
`cron` is the process's map of entries. A slot may lose its lock (Stall) and go on. As the
code has it: nothing calls ScheduledReportService.initialize, so a restart forgets all
schedules, and nothing writes the status 'active'; delete and edit leave the cron entry
alone; a finished job keeps its id for a day (a week if failed), and generating the
report again then does nothing although the client is told it was queued; a pause
overwrites any status, and the job overwrites a pause. No route file mounts
ReportController. The file is a version, and its export is not modelled.

## 3. Runs

| Run | Shows |
|---|---|
| `ledger_handlers` | TypeOK, InvoiceConsistent, CreditMatchesStatus, SinglePayerExact, HandlersFinish with three handlers, three connections, one transaction |
| `ledger_serial` | PaymentLedger implements Ledger for requests one at a time, over two transactions on one invoice and one on none, with two faults; ReportsAgree between requests |
| `invoice_book` | TypeOK, BookGapless, AnswersTruthful, FiguresAgree, ProcessingEnds, and InvoiceBook implements Book |
| `invoice_numbers` | violation: three requests and two connections, no fault: two invoices of a business with one number |
| `firs_submission` | TypeOK, ApprovalTruthful, AcceptanceKnown, OneDocumentPerSubmission, JobsSettle with the job and a request |
| `firs_cancel` | violation: a cancelled invoice becomes approved |
| `webhook_delivery` | TypeOK, CompletedMeansDelivered, RedeliveryNeedsLoss, PauseSticks, JobsSettle with the job and a request |
| `webhook_exhausted` | violation: an event stays pending after its last attempt |
| `integration_sync` | TypeOK, SyncingTruthful, RequestKept, RefreshTokenKept, ExpiredNeedsLateWrite, MergesKeepSettings, FirstSyncQueued |
| `integration_reconnect` | violation: an account that was disconnected can never be connected again |
| `auth_sessions` | TypeOK, AttemptsJustified, CodesAccounted, SessionsFollowPassword |
| `report_jobs` | TypeOK, CompletedIsWhole, RowFollowsJob, ScheduleFollowsRequests, StampBeforeDelivery, JobsSettle |

Many properties have the form "unless": the code has races that its authors would have
to accept or mend, a history variable records the overlap, and the property says that
nothing else breaks the rule. The comment of each property names its exceptions. Where the
exception is the very race that makes the code hard, the property is about what is left
beside it: PauseSticks excuses the write-back of a stale value, RefreshTokenKept two
refreshes at once, ExpiredNeedsLateWrite a refresh between read and write,
AttemptsJustified the count lost to a reset, CodesAccounted one code used twice at once,
SessionsFollowPassword a login that overlaps the change, CompletedIsWhole and RowFollowsJob
an execution without its lock, ScheduleFollowsRequests requests that overlap.

Bounds. Every bound is a constant of its module and guards the action that it stops. Two
workers meet in every race between a check and a write; a third one appears where it
plays another part (the third connection and handler of the ledger, the scheduler, the
job, the cron execution).

- Ledger: `ledger_handlers` has three connections, so that two settlements can be under
  way at once and the third connection serves their second statements, and three
  handlers, which exhaust the pool between them. It has one payer of one invoice and no
  faults: several payers of an invoice and faults among concurrent handlers are not in
  this instance, and the four invariants hold for them by the theorems of section 4.
  `ledger_serial` has the faults and three transactions; eleven ages, one on each side of
  every bound of the aging report and one on it, for its one invoice.
- Invoices: one business, since no action touches the rows of two; two orders that
  between them ask for every kind of rate; three requests, two at a time, so that one is
  repeated; two connections, so that one request can starve the other; one fault, at any
  await. A process job has two attempts instead of three.
- FIRS: one invoice, since no action touches two; the three attempts of the loop are the
  code's, the job has two instead of three; the job and one request at a time. Two
  overlapping requests, without a job, are not in this instance.
- Webhooks: one event, three attempts and three retries as in the code; PauseAt is 2
  instead of 10 so that the limit is reached within one job; two faults, so that a
  failure of the recovery is reached; one request beside the job.
- Integrations: one account that connects with one setting, beside the two keys of the
  webhook; four mixes, one rotation, one fault.
- Authentication: two passwords, two backup codes, the lock after 2 failures instead of
  5, one reset token, one request that dies; symmetry among workers, sessions and codes
  (no liveness is checked there).
- Reports: one report, two slots, two requests, one cron execution, one fault, three
  mixes. A run with two faults passed as well and is left out for its time.

Deadlock is checked in `ledger_handlers` and `ledger_serial`; the other systems may stop,
once their requests, jobs and bounds are spent.

Fairness. The ledger: node-postgres serves waiting requests for a connection in order or
times them out (weak fairness of PoolStep), PostgreSQL grants a row lock in order of
arrival (strong fairness of RowStep, since the lock may be taken and released in
between), COMMIT waits for nobody. InvoiceBook: weak fairness of the steps of each request is
enough, since requests are bounded and the row of the business is free for good after
the last of the others. Elsewhere: every await of a handler or a job ends, by
an answer, an error or a timeout (weak fairness of its next step), a free worker of a
queue takes a waiting job, and in IntegrationSync the timer of the scheduler ticks. No
request, fault, expiry, crash or status check is assumed to happen.

What the violations say.

- `invoice_numbers` needs only load: more creations at once than connections. The read
  after the commit waits for a connection, times out, and its handler rolls back the
  transaction of the request that got its own (see InvoiceBook above). createInvoice is the only model function of the
  repository with an await between its COMMIT and the end of its try block.
- `firs_cancel`: a check followed by a write that looks no further. Of the same kind and
  covered by the exceptions of CreditMatchesStatus: a refund can overwrite the status
  that another handler has written since its guard read 'completed'.
- `webhook_exhausted` needs no race: after three 5xx answers the last attempt schedules a
  retry that nobody makes. Without a stall of the worker no event ever reaches 'failed',
  so retryWebhook has nothing to retry.
- `integration_reconnect` needs no race: disconnecting keeps the row, and its unique key
  refuses the next connect.

Three more disagreements need neither a race nor a fault, so that one handler after the
other shows them. No property claims otherwise, and no run is spent on them:

- Two tests ask for a `discount_rate` of 10 and expect the discount in the invoice
  (`tests/unit/services/invoice.service.test.ts:135`, and
  `tests/e2e/invoice-workflow.test.ts:146` for an update). The schema of the route keeps
  `discount_rate`, and createInvoice (`models/Invoice.ts:121`) reads `discount`: the
  invoice has none. With the order of the instance that asks for a discount, one request
  is enough: the header it commits says 0. FiguresAgree says of such an invoice only that
  its own figures agree.
- A test expects submitInvoice to throw 'Invoice already submitted'
  (`tests/unit/services/invoice.service.test.ts:217`), and it looks at no status
  (`services/regulatory/FIRSService.ts:68`). Two requests on the regulatory route one after
  the other register two documents for one invoice, the second when it is approved, ten
  steps of FIRSSubmission. Only the route of the invoice asks for firs_status 'pending'.
  OneDocumentPerSubmission is about the retries within one submission.
- updateWebhookEvents (`services/webhook/WebhookService.ts:359`), whose comment says 'Update
  webhook events', erases all other settings of the integration, the `syncInterval` that
  `jobs/sync-scheduler.ts:96` reads among them: connect, register and change the events,
  eleven steps of IntegrationSync with one worker. MergesKeepSettings names it as the
  exception and says that no other handler does the like.

## 4. Proofs

Every safety invariant and action property of the runs that expect to pass is a theorem,
and so are both refinements. Each theorem
holds for all values of the constants that the ASSUME of the module allows: distinct null
values, disjoint kinds of workers, positive amounts and limits. No number of workers,
rows, attempts, connections or faults is fixed by a proof, and the exceptions that
properties name (history variables) are those of the code, not of the proof. Two theorems
have a hypothesis of their own, ReportsTellOneStory and SerialLedger below: without it
each formula is false, as TLC shows. The theorems about the reports also assume
that there are finitely many rows (ReportsAssumption of LedgerReports), since a sum over
infinitely many is not defined.

The proof modules are laid out alike. First comes the inductive invariant as named parts,
then one lemma for each way a worker moves on (it returns, goes on, starts), then the
alternatives of the actions that branch, then one lemma per part with a step per
alternative. `Control` is the part that speaks of types and control alone: TypeOK of the
module with, for each label, the locals that are set and the rows that exist. It is
inductive by itself; the other parts are inductive relative to it.

### Sums

The models add up rows with SumFunctionOnSet, which CHOOSEs a recursive function on the
subsets of a finite set. Induction with a predicate as parameter is out of the prover's
reach, but induction over a set of values is not: if a set of numbers holds n whenever it
holds everything below n, then it holds all numbers, since what it leaves out would have a
least element (NatGrows; SubsetsGrow says the same of the subsets of a finite set). With
the set of subsets for which the claim holds in place of a predicate, this gives that the
recursion has a solution and no other, hence the equation it satisfies (SumUnfolds), and
from it: an element can be taken out of a sum whatever CHOOSE picks (SumRemoves), equal
terms have equal sums (SumSame), a sum of sums is the sum (SumOfSums), and a sum over a
set is the sum over two parts of it (SumSplits) or over its groups (SumByGroup).

### PaymentLedger

- `TypeCorrect`: []TypeOK. The invariant is Typed: TypeOK with Placed (where a worker is says
  which operation it runs and that its transaction, and the transaction's invoice, exist).
- `InvoicesStayConsistent`: []InvoiceConsistent. Inductive together with Typed: only
  WriteInvoice and MarkOverdue write the columns.
- `SinglePayerIsExact`: []SinglePayerExact. It needs Owned (a handler past its UPDATE owns the
  row of its transaction, so there is at most one, lemma OneSettler) and Fresh (what a
  handler at `write` has read is still the amount on an invoice with a single payer).
- `CreditFollowsStatus`: []CreditMatchesStatus. It adds Born (a transaction somebody
  settles exists and is not being created) and Guarded (between UPDATE and COMMIT an
  untainted transaction has the status its guard demanded). CountedCases restates Counted
  without its quantifier.
- `ReportsAddUp`: [](AgingAccounts /\ TransactionsAccount), with any number of workers and in
  states with requests half done. Both follow from Typed: each report sums over sets of
  rows, those sets are disjoint and together are those of the other report, so SumSplits and
  SumByGroup apply. The bands of getAgingReport neither cover all ages nor exclude each
  other; AgingAddsUp shows that the correction the property makes for that is exact.
- `ReportsTellOneStory`: []ReportsAgree, if requests come one at a time or no two
  transactions pay one invoice (OnePayer). The invariant adds Banked, that the money on an
  invoice is what all its payments and reversals come to, and Steady, that what a handler
  at `write` has read is still the amount; NoRival derives from OnePayer and Owned that no
  other handler writes the invoice meanwhile. When nobody is at work, CreditMatchesStatus
  turns the payments that were applied into those whose status counts, over which the
  summaries sum. The hypothesis is needed: with two workers, two payers of one invoice and
  three connections TLC finds the lost payment in 19 steps.
- `SerialLedger`: Spec => ImplementsLedger if there is one worker,
  the number that `ledger_serial` checks. With two the formula is false, as TLC shows in ten
  steps: the races that `tainted` records are not steps of Ledger. The mapping takes the money of a request at
  `commit` off its invoice again (Settled), since its status is not committed yet; Ahead is
  that amount for the one worker there is. The invariant adds InHand: the status that the
  worker demanded and the amount that it read still hold. A request that dies at `commit` is
  Ledger's Stray.

### InvoiceBook

The invariant is Kept. Control: a request inside its transaction holds the row of its
business, has drawn `counter`, and nobody else draws it (Fit, Locked); no more numbers are
used up than requests came (Numbered); an order is asked for by one request at a time
(Single); every entry is whole and below the counter (Filled). For a request whose
transaction was taken away (`loose`) nothing of this is claimed but its label, and that
somebody has intruded.

- `BookIsGapless`: numbers start at one without a gap, from Control and the clause that the
  book is full below the counter until somebody intrudes (Gapless).
- `AnswersAreTruthful`: from Placed (a request past its commit finds its order in the book)
  and Accounted, which counts: what an order has in the book and beside it is at most one
  plus the failures answered late, and one less while it is still to be answered and
  nothing of it is there yet. Numbers without repetition do not give this: an order that
  is asked for again after a late failure gets a second number.
- `FiguresAreRight`: []FiguresAgree. By Filled every entry of the book is InvoiceOf of an
  order, so this is a fact about orders. LineFigured is the arithmetic of one line as it
  is entered; SumOfSums and SumSame carry it to the header. A line asked for without a
  discount is entered as it is, which gives the quote.
- `BookKeepsPromise`: Spec => ImplementsBook. Only a COMMIT enters an invoice, with
  the number after the last one in the book; all other steps stutter.

### FIRSSubmission

- `ApprovalIsTrue`: Heard says that a worker about to record an outcome has had it from FIRS
  for its row of the log; Created that rows go to invoices for good and are shared by no two
  submissions.
- `OneDocument`: Posted, that before a POST the row has a document only if a reply or a
  record was lost.
- `AcceptanceIsKnown`: Carried, that a registered document is known on its row and its
  invoice, or in the hands of a submission at work, or its news was lost.

### WebhookDelivery

- `CompletedIsDelivered`: the job of a slot at work is active and has one runner (Running,
  Queued), and after markCompleted only retryWebhook touches the event (Delivering).
- `RedeliveryIsLoss`: Settled, that once an event has been delivered a run knows of it until
  nothing is left that would send it again, or the news was lost.
- `PausedStaysPaused`: the action property PauseSticks, from what each writer of the
  registration does with the value it has read.

### IntegrationSync

- `SyncingIsTruthful`: Truthful, that one sync of an account runs at a time unless two have
  crossed, and that the row says `syncing` exactly between its mark and its outcome.
- `RefreshTokenIsKept`: TokenHeld, that one refresh runs at a time unless two have, and that
  the token accepted by the provider is in the row or with the refresh about to write it.
- `ExpiredIsLate`: ExpirySeen. `RequestsAreKept`: RequestKept is inductive with Control.
- `SettingsAreKept`: the action property MergesKeepSettings, from SettingsSeen (what an
  update has read is still in the row unless two have crossed), over all three writers.

### AuthSessions

- `LockIsJustified`: AttemptsJustified is inductive with Fit (a request about to raise the
  count has read one that wrong passwords have brought about).
- `CodesAreAccounted`: inductive with Control, as the write-back either finds the list it
  has read or is recorded.
- `SessionsFollow`: Followed, that a session of a replaced password is on the list of a
  request that still runs, was opened late, or its request died.

### ReportJobs

The invariant is Ordered; its parts share Tended: a report that is not disturbed is
executed by the slot that holds its lock alone, and its row says so.

- `CompletedHasFile` and `RowTellsOutcome`: from Tended, by the label of that slot.
- `LastRequestHolds`: Obeyed, that who asked last without meeting another has what he asked
  for, or is still asking.
- `StampedFirst`: Counted. Executions overlap without limit, so the argument counts: stamps
  run ahead of deliveries by at least the executions between the two.

### Only model-checked

- Liveness: HandlersFinish, JobsSettle (three of that name), FirstSyncQueued,
  ProcessingEnds. Liveness under fairness and ENABLED are out of the prover's reach.
- The four violations, which are counterexamples.

Uncommitted of PaymentLedger, which the mapping to Ledger uses, names one request at its
commit; with one worker there is never another, and the theorem says so in its hypothesis.

## 5. Plan

Done: the models of section 2, their runs, and the theorems of section 4. Left:

1. Shorter proofs where the alternatives of two modules repeat the same step.
2. Edits of an invoice after its creation, which change its lines and its amounts: with
   them FiguresAgree would speak of a history of edits rather than of the order.
3. The components of section 6.

## 6. Not modelled

`PROJECT.json` lists every component with its status, and every hazard found in the
source with the properties that cover it. What is left out, and what was found there:

- Redis utilities: the lock, the sliding window and the concurrency limit of
  `config/redis.ts` have no caller. The rate limit of `middleware/rate-limit.ts` creates its
  counter and sets its expiry in two calls, and a crash between them refuses the client
  for good; it shares no state with another component.
- Notifications: the channel is registered as `inApp` and looked up as `inapp`, so in-app
  delivery always throws; the cached preferences are parsed twice; a digest is built and
  never sent; schedule() sends at once; markAllAsRead updates an empty list.
- Growth engine: reads and arithmetic. Its caches are written as text and read through
  `redis.get`, which has parsed already, so JSON.parse throws (this holds for most
  services that cache); many metrics are constants; BusinessHealthService.calculateHealthScore
  and calculateTrends call each other without end.
- Tax and compliance beyond the operators of InvoiceFigures: generateTaxReport counts only
  invoices whose `type` is 'sales' or 'purchase', and nothing ever writes a type, so the
  VAT return is always 0; getComplianceStatus calls a method that does not exist;
  submissionRate of a period without invoices is NaN. XML, UBL and signatures are data
  transformation.
- Updates of invoice content, of a business's bank details and of its tax settings: reads
  followed by whole-column writes, of the kind that MergesKeepSettings excuses for integrations.
- Administration, health, HTTP layer, audit, accounts: single statements, reads, routing.
  Signature checks of incoming webhooks, encryption, certificates and OAuth exchanges are
  cryptographic or external.
- A ROLLBACK that itself fails keeps its client out of the pool for good
  (`models/BaseModel.ts:418`); all modules give the connection back.
