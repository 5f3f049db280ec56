-------------------------- MODULE IntegrationSync --------------------------
(***************************************************************************)
(* Accounting and messaging accounts a business connects, and their sync   *)
(* (src/src/services/integrations/IntegrationService.ts,                   *)
(* src/src/repositories/AccountIntegrationRepository.ts,                   *)
(* src/src/jobs/sync-scheduler.ts), and the two handlers of                *)
(* src/src/services/webhook/WebhookService.ts that write the settings of   *)
(* the same rows.                                                          *)
(*                                                                         *)
(* A worker runs one request handler, one tick of the scheduler or one     *)
(* pass over the sync queue, cut at every await that reaches PostgreSQL,   *)
(* Redis or the provider.  UNIQUE(business_id, provider, account_email)    *)
(* gives an account at most one row for ever, so a row is named by its     *)
(* account.  Times are reduced to what the code asks of them: is the       *)
(* access token past its expiry, is the row due for a sync.                *)
(*                                                                         *)
(* asked, crossed, raced, doubled, late and cutoff are history: no action  *)
(* reads them.  Definitions marked Slip are not part of the specification: *)
(* each is a plausible mistake that a property below has to notice.        *)
(***************************************************************************)
EXTENDS Integers, FiniteSets

CONSTANTS
    Workers,        \* request handlers and queue passes in flight
    Cron,           \* the scheduler's own process, one tick at a time
    Accounts,       \* accounts of one business at a provider
    NoAccount,      \* account of a worker that is about none
    Keys,           \* keys of the settings column
    EventsKey,      \* webhook_events among them
    MetadataKey,    \* webhook_metadata
    Given,          \* bound: the settings a connect comes with
    Limit,          \* limit of processSyncQueue
    Mixes,          \* bound: the kinds of operation that meet in one behaviour
    MaxRotations,   \* bound on the refresh tokens a provider hands out
    MaxFaults       \* bound on processes that die and statements that fail

Operations == {"connect", "disconnect", "test", "refresh", "settings", "register", "events",
               "pass", "tick"}

ASSUME SyncAssumption ==
    /\ NoAccount \notin Accounts
    /\ Cron \notin Workers
    /\ EventsKey \in Keys /\ MetadataKey \in Keys
    /\ Given \in SUBSET SUBSET Keys
    /\ Mixes \in SUBSET SUBSET Operations
    /\ Limit \in Nat \ {0}
    /\ MaxRotations \in Nat
    /\ MaxFaults \in Nat

VARIABLES
    mix,            \* the kinds of operation of this behaviour
    status,         \* account_integrations.status, "absent" before the row
    deleted,        \* deleted_at IS NOT NULL
    syncStatus,     \* sync_status
    synced,         \* last_sync_at IS NOT NULL
    due,            \* isSyncDue
    expired,        \* token_expires_at < NOW()
    refreshToken,   \* encrypted_refresh_token
    settings,       \* keys present in settings
    hooked,         \* webhook_url IS NOT NULL
    registered,     \* accounts a webhook registration in Redis has named
    queue,          \* the set sync:queue:<business>
    accepted,       \* the refresh token the provider accepts
    pc, op, arg,    \* what each worker is at, its operation, its account
    todo,           \* accounts of its snapshot still to be handled
    token,          \* the refresh token it read, later the one it was given
    seen,           \* the settings it read
    key,            \* the settings keys it writes
    faults,
    asked,          \* a sync was asked for and none has started since and ended well
    crossed,        \* a sync began, or one was queued, while another ran
    raced,          \* a settings write happened between another's read and write
    doubled,        \* a refresh began while another one ran
    late,           \* a refresh ended between getAccessToken's read and its write
    cutoff          \* accounts a process died or failed on

Procs == Workers \cup {Cron}

rowVars     == <<status, deleted, syncStatus, synced, due, expired, refreshToken, settings,
                 hooked, registered>>
workerVars  == <<pc, op, arg, todo, token, seen, key>>
historyVars == <<asked, crossed, raced, doubled, late, cutoff>>
vars        == <<mix, rowVars, queue, accepted, workerVars, faults, historyVars>>

Statuses == {"absent", "active", "expired"}

Labels == {"free", "find", "insert", "queueNew", "remove", "members", "next", "read", "mark",
           "token", "expire", "provider", "idle", "store", "failed", "srem", "due",
           "refresh", "exchange", "update", "merge", "write", "addHook", "lookUp", "replace"}

Live(a)   == status[a] # "absent" /\ ~deleted[a]
Goto(w, label) == pc' = [pc EXCEPT ![w] = label]

(* What a worker keeps between two requests is of no account. *)
Finish(w) ==
    /\ pc'    = [pc EXCEPT ![w] = "free"]
    /\ op'    = [op EXCEPT ![w] = "none"]
    /\ arg'   = [arg EXCEPT ![w] = NoAccount]
    /\ todo'  = [todo EXCEPT ![w] = {}]
    /\ token' = [token EXCEPT ![w] = 0]
    /\ seen'  = [seen EXCEPT ![w] = {}]
    /\ key'   = [key EXCEPT ![w] = {}]

Init ==
    /\ mix \in Mixes
    /\ status       = [a \in Accounts |-> "absent"]
    /\ deleted      = [a \in Accounts |-> FALSE]
    /\ syncStatus   = [a \in Accounts |-> "idle"]
    /\ synced       = [a \in Accounts |-> FALSE]
    /\ due          = [a \in Accounts |-> TRUE]
    /\ expired      = [a \in Accounts |-> FALSE]
    /\ refreshToken = [a \in Accounts |-> 0]
    /\ settings     = [a \in Accounts |-> {}]
    /\ hooked       = [a \in Accounts |-> FALSE]
    /\ registered   = {}
    /\ queue        = {}
    /\ accepted     = [a \in Accounts |-> 0]
    /\ pc    = [w \in Procs |-> "free"]
    /\ op    = [w \in Procs |-> "none"]
    /\ arg   = [w \in Procs |-> NoAccount]
    /\ todo  = [w \in Procs |-> {}]
    /\ token = [w \in Procs |-> 0]
    /\ seen  = [w \in Procs |-> {}]
    /\ key   = [w \in Procs |-> {}]
    /\ faults = 0
    /\ asked = {} /\ crossed = {} /\ raced = {} /\ doubled = {} /\ late = {} /\ cutoff = {}

-----------------------------------------------------------------------------
(* Requests arrive. *)

Start(w, name, label, a) ==
    /\ name \in mix
    /\ pc[w] = "free"
    /\ Goto(w, label)
    /\ op'  = [op EXCEPT ![w] = name]
    /\ arg' = [arg EXCEPT ![w] = a]

StartConnect(w, a) ==
    /\ Start(w, "connect", "find", a)
    /\ UNCHANGED <<mix, rowVars, queue, accepted, todo, token, seen, key, faults, historyVars>>

StartDisconnect(w, a) ==
    /\ Start(w, "disconnect", "find", a)
    /\ UNCHANGED <<mix, rowVars, queue, accepted, todo, token, seen, key, faults, historyVars>>

StartTest(w, a) ==
    /\ Live(a)
    /\ Start(w, "test", "token", a)
    /\ UNCHANGED <<mix, rowVars, queue, accepted, todo, token, seen, key, faults, historyVars>>

StartRefresh(w, a) ==
    /\ Live(a)
    /\ Start(w, "refresh", "refresh", a)
    /\ UNCHANGED <<mix, rowVars, queue, accepted, todo, token, seen, key, faults, historyVars>>

StartSettings(w, a, k) ==
    /\ Live(a) /\ k \notin settings[a]
    /\ Start(w, "settings", "merge", a)
    /\ key' = [key EXCEPT ![w] = {k}]
    /\ UNCHANGED <<mix, rowVars, queue, accepted, todo, token, seen, faults, historyVars>>

(* The two webhook handlers that write a row's settings look at no status  *)
(* of it; a registration may name a row that is deleted by now.            *)
StartRegister(w, a, ks) ==
    /\ status[a] # "absent"
    /\ Start(w, "register", "addHook", a)
    /\ key' = [key EXCEPT ![w] = ks]
    /\ UNCHANGED <<mix, rowVars, queue, accepted, todo, token, seen, faults, historyVars>>

StartEvents(w, a) ==
    /\ a \in registered
    /\ Start(w, "events", "lookUp", a)
    /\ UNCHANGED <<mix, rowVars, queue, accepted, todo, token, seen, key, faults, historyVars>>

(* processSyncQueue reads the whole set and takes the first Limit of it. *)
StartPass(w) ==
    /\ queue # {}
    /\ Start(w, "pass", "next", NoAccount)
    /\ \E S \in SUBSET queue :
          /\ Cardinality(S) = IF Cardinality(queue) < Limit THEN Cardinality(queue) ELSE Limit
          /\ todo' = [todo EXCEPT ![w] = S]
    /\ UNCHANGED <<mix, rowVars, queue, accepted, token, seen, key, faults, historyVars>>

(* execute of the scheduler: active rows at rest, as one query saw them. *)
Schedulable(a) == Live(a) /\ status[a] = "active" /\ syncStatus[a] = "idle" /\ due[a]

(* Slip: a row that was never synced has no last_sync_at to be overdue. *)
TickSyncedOnly ==
    /\ \E a \in Accounts : Schedulable(a) /\ synced[a]
    /\ Start(Cron, "tick", "due", NoAccount)
    /\ todo' = [todo EXCEPT ![Cron] = {a \in Accounts : Schedulable(a) /\ synced[a]}]
    /\ UNCHANGED <<mix, rowVars, queue, accepted, token, seen, key, faults, historyVars>>

StartTick ==
    /\ \E a \in Accounts : Schedulable(a)
    /\ Start(Cron, "tick", "due", NoAccount)
    /\ todo' = [todo EXCEPT ![Cron] = {a \in Accounts : Schedulable(a)}]
    /\ UNCHANGED <<mix, rowVars, queue, accepted, token, seen, key, faults, historyVars>>

-----------------------------------------------------------------------------
(* The sync queue. *)

(* Labels between the start of a sync and its leaving the queue. *)
Syncing == {"read", "mark", "token", "expire", "provider", "idle", "store", "failed", "srem"}
InSync(v, a) == op[v] = "pass" /\ arg[v] = a /\ pc[v] \in Syncing

Enqueue(a) ==
    /\ queue'   = queue \cup {a}
    /\ asked'   = asked \cup {a}
    /\ crossed' = IF \E v \in Procs : InSync(v, a) THEN crossed \cup {a} ELSE crossed

(* queueSync from syncIntegration or forceSync. *)
RequestSync(a) ==
    /\ Live(a)
    /\ "pass" \in mix
    /\ a \notin queue \/ \E v \in Procs : InSync(v, a)
    /\ Enqueue(a)
    /\ UNCHANGED <<mix, rowVars, accepted, workerVars, faults, raced, doubled, late, cutoff>>

QueueDue(w) ==
    /\ pc[w] = "due"
    /\ \E a \in todo[w] :
          /\ Enqueue(a)
          /\ IF todo[w] = {a}
             THEN Finish(w)
             ELSE /\ todo' = [todo EXCEPT ![w] = @ \ {a}]
                  /\ UNCHANGED <<pc, op, arg, token, seen, key>>
    /\ UNCHANGED <<mix, rowVars, accepted, faults, raced, doubled, late, cutoff>>

NextSync(w) ==
    /\ pc[w] = "next"
    /\ IF todo[w] = {}
       THEN Finish(w) /\ UNCHANGED crossed
       ELSE \E a \in todo[w] :
               /\ todo' = [todo EXCEPT ![w] = @ \ {a}]
               /\ arg'  = [arg EXCEPT ![w] = a]
               /\ Goto(w, "read")
               /\ crossed' = IF \E v \in Procs : InSync(v, a) THEN crossed \cup {a} ELSE crossed
               /\ UNCHANGED <<op, token, seen, key>>
    /\ UNCHANGED <<mix, rowVars, queue, accepted, faults, asked, raced, doubled, late, cutoff>>

SyncRead(w) ==
    /\ pc[w] = "read"
    /\ Goto(w, IF Live(arg[w]) /\ status[arg[w]] = "active" THEN "mark" ELSE "next")
    /\ UNCHANGED <<mix, rowVars, queue, accepted, op, arg, todo, token, seen, key, faults, historyVars>>

(* An update of a row that is deleted by now changes nothing. *)
SetSync(a, s) == syncStatus' = IF Live(a) THEN [syncStatus EXCEPT ![a] = s] ELSE syncStatus

SyncMark(w) ==
    /\ pc[w] = "mark"
    /\ SetSync(arg[w], "syncing")
    /\ Goto(w, "token")
    /\ UNCHANGED <<mix, status, deleted, synced, due, expired, refreshToken, settings, hooked,
                   registered, queue, accepted, op, arg, todo, token, seen, key, faults, historyVars>>

(* getAccessToken, called by sync, testConnection and removeWebhook.       *)
GetAccessToken(w) ==
    LET a == arg[w] IN
    /\ pc[w] = "token"
    /\ \/ /\ Live(a) /\ status[a] = "active" /\ expired[a]
          /\ Goto(w, "expire") /\ UNCHANGED <<op, arg, todo, token, seen, key>>
       \/ /\ Live(a) /\ status[a] = "active" /\ ~expired[a] /\ op[w] = "pass"
          /\ Goto(w, "provider") /\ UNCHANGED <<op, arg, todo, token, seen, key>>
       \/ /\ ~(Live(a) /\ status[a] = "active") /\ op[w] = "pass"
          /\ Goto(w, "failed") /\ UNCHANGED <<op, arg, todo, token, seen, key>>
       \/ /\ ~(Live(a) /\ status[a] = "active" /\ expired[a]) /\ op[w] = "test"
          /\ Finish(w)
       \/ /\ ~(Live(a) /\ status[a] = "active" /\ expired[a]) /\ op[w] = "disconnect"
          /\ Goto(w, "remove") /\ UNCHANGED <<op, arg, todo, token, seen, key>>
    /\ UNCHANGED <<mix, rowVars, queue, accepted, faults, historyVars>>

(* Slip: the wrong one of the two status columns. *)
MarkSyncExpired(w) ==
    /\ pc[w] = "expire"
    /\ SetSync(arg[w], "expired")
    /\ IF op[w] = "test"
       THEN Finish(w)
       ELSE /\ Goto(w, IF op[w] = "pass" THEN "failed" ELSE "remove")
            /\ UNCHANGED <<op, arg, todo, token, seen, key>>
    /\ UNCHANGED <<mix, status, deleted, synced, due, expired, refreshToken, settings, hooked,
                   registered, queue, accepted, faults, historyVars>>

MarkExpired(w) ==
    LET a == arg[w] IN
    /\ pc[w] = "expire"
    /\ status' = IF Live(a) THEN [status EXCEPT ![a] = "expired"] ELSE status
    /\ IF op[w] = "test"
       THEN Finish(w)
       ELSE /\ Goto(w, IF op[w] = "pass" THEN "failed" ELSE "remove")
            /\ UNCHANGED <<op, arg, todo, token, seen, key>>
    /\ UNCHANGED <<mix, deleted, syncStatus, synced, due, expired, refreshToken, settings, hooked,
                   registered, queue, accepted, faults, historyVars>>

(* provider.sync answers success or not, and sync does not look at which:  *)
(* all three providers catch what their requests throw.                    *)
ProviderSync(w) ==
    /\ pc[w] = "provider"
    /\ Goto(w, "idle")
    /\ UNCHANGED <<mix, rowVars, queue, accepted, op, arg, todo, token, seen, key, faults, historyVars>>

SyncIdle(w) ==
    LET a == arg[w] IN
    /\ pc[w] = "idle"
    /\ SetSync(a, "idle")
    /\ synced' = IF Live(a) THEN [synced EXCEPT ![a] = TRUE] ELSE synced
    /\ due'    = IF Live(a) THEN [due EXCEPT ![a] = FALSE] ELSE due
    /\ Goto(w, "store")
    /\ UNCHANGED <<mix, status, deleted, expired, refreshToken, settings, hooked, registered, queue,
                   accepted, op, arg, todo, token, seen, key, faults, historyVars>>

(* The result goes to Redis; if that throws the sync counts as failed. *)
StoreResult(w) ==
    /\ pc[w] = "store"
    /\ \/ Goto(w, "srem") /\ UNCHANGED <<faults, cutoff>>
       \/ /\ faults < MaxFaults
          /\ faults' = faults + 1
          /\ cutoff' = cutoff \cup {arg[w]}
          /\ Goto(w, "failed")
    /\ UNCHANGED <<mix, rowVars, queue, accepted, op, arg, todo, token, seen, key, asked, crossed,
                   raced, doubled, late>>

(* Slip: the caller is told, the row is not. *)
SyncFailedUnmarked(w) ==
    /\ pc[w] = "failed"
    /\ Goto(w, "next")
    /\ UNCHANGED <<mix, rowVars, queue, accepted, op, arg, todo, token, seen, key, faults, historyVars>>

(* Slip: the entry leaves the queue whatever came of the sync. *)
SyncFailedDropped(w) ==
    /\ pc[w] = "failed"
    /\ SetSync(arg[w], "failed")
    /\ queue' = queue \ {arg[w]}
    /\ Goto(w, "next")
    /\ UNCHANGED <<mix, status, deleted, synced, due, expired, refreshToken, settings, hooked,
                   registered, accepted, op, arg, todo, token, seen, key, faults, historyVars>>

SyncFailed(w) ==
    /\ pc[w] = "failed"
    /\ SetSync(arg[w], "failed")
    /\ Goto(w, "next")
    /\ UNCHANGED <<mix, status, deleted, synced, due, expired, refreshToken, settings, hooked,
                   registered, queue, accepted, op, arg, todo, token, seen, key, faults, historyVars>>

Dequeue(w) ==
    /\ pc[w] = "srem"
    /\ queue' = queue \ {arg[w]}
    /\ asked' = IF arg[w] \in crossed THEN asked ELSE asked \ {arg[w]}
    /\ Goto(w, "next")
    /\ UNCHANGED <<mix, rowVars, accepted, op, arg, todo, token, seen, key, faults, crossed, raced,
                   doubled, late, cutoff>>

-----------------------------------------------------------------------------
(* connect and disconnect. *)

(* connect looks for a row of any status that is not deleted.  disconnect  *)
(* of a row with a webhook_url removes the webhook first: for that it gets *)
(* the access token, which may mark the row, and none of the providers'    *)
(* unregisterWebhook throws or writes.                                     *)
FindExisting(w) ==
    LET a == arg[w] IN
    /\ pc[w] = "find"
    /\ \/ /\ op[w] = "connect" /\ ~Live(a) /\ Goto(w, "insert")
          /\ UNCHANGED <<op, arg, todo, token, seen, key>>
       \/ /\ op[w] = "disconnect" /\ Live(a)
          /\ Goto(w, IF hooked[a] THEN "token" ELSE "remove")
          /\ UNCHANGED <<op, arg, todo, token, seen, key>>
       \/ Live(a) = (op[w] = "connect") /\ Finish(w)
    /\ UNCHANGED <<mix, rowVars, queue, accepted, faults, historyVars>>

(* testConnection fails and connect with it. *)
TestFails(w) ==
    /\ pc[w] = "insert"
    /\ Finish(w)
    /\ UNCHANGED <<mix, rowVars, queue, accepted, faults, historyVars>>

(* The row is written unless the table holds one of the account, deleted   *)
(* or not.  The check of createIntegration compares status with the text   *)
(* of an array and finds nothing.  The settings are the caller's.  Every   *)
(* provider leaves supportsWebhooks undefined, so setupWebhook is not      *)
(* reached.                                                                *)
CreateIntegration(w) ==
    LET a == arg[w] IN
    /\ pc[w] = "insert"
    /\ status[a] = "absent"
    /\ status' = [status EXCEPT ![a] = "active"]
    /\ \E given \in Given : settings' = [settings EXCEPT ![a] = given]
    /\ Goto(w, "queueNew")
    /\ UNCHANGED <<mix, deleted, syncStatus, synced, due, expired, refreshToken, hooked, registered,
                   queue, accepted, op, arg, todo, token, seen, key, faults, historyVars>>

UniqueViolation(w) ==
    /\ pc[w] = "insert"
    /\ status[arg[w]] # "absent"
    /\ Finish(w)
    /\ UNCHANGED <<mix, rowVars, queue, accepted, faults, historyVars>>

QueueNew(w) ==
    /\ pc[w] = "queueNew"
    /\ \/ Enqueue(arg[w]) /\ UNCHANGED <<faults, cutoff>>
       \/ /\ faults < MaxFaults
          /\ faults' = faults + 1
          /\ cutoff' = cutoff \cup {arg[w]}
          /\ UNCHANGED <<queue, asked, crossed>>
    /\ Finish(w)
    /\ UNCHANGED <<mix, rowVars, accepted, raced, doubled, late>>

SoftDelete(w) ==
    /\ pc[w] = "remove"
    /\ deleted' = [deleted EXCEPT ![arg[w]] = TRUE]
    /\ Finish(w)
    /\ UNCHANGED <<mix, status, syncStatus, synced, due, expired, refreshToken, settings, hooked,
                   registered, queue, accepted, faults, historyVars>>

-----------------------------------------------------------------------------
(* refreshToken, and the writers of settings: updateSettings,              *)
(* registerWebhook and updateWebhookEvents.                                *)

ReadRefreshToken(w) ==
    LET a == arg[w] IN
    /\ pc[w] = "refresh"
    /\ IF Live(a)
       THEN /\ token' = [token EXCEPT ![w] = refreshToken[a]]
            /\ Goto(w, "exchange")
            /\ doubled' = IF \E v \in Procs : pc[v] \in {"exchange", "update"} /\ arg[v] = a
                          THEN doubled \cup {a} ELSE doubled
            /\ UNCHANGED <<op, arg, todo, seen, key>>
       ELSE Finish(w) /\ UNCHANGED doubled
    /\ UNCHANGED <<mix, rowVars, queue, accepted, faults, asked, crossed, raced, late, cutoff>>

(* A provider may replace the refresh token when it is used (QuickBooks),  *)
(* answer with the same one (Zoho), or refuse (WhatsApp always does, the   *)
(* others a token they have replaced): a refusal throws.                   *)
Exchange(w) ==
    LET a == arg[w] IN
    /\ pc[w] = "exchange"
    /\ \/ /\ token[w] = accepted[a] /\ accepted[a] < MaxRotations
          /\ accepted' = [accepted EXCEPT ![a] = @ + 1]
          /\ token'    = [token EXCEPT ![w] = accepted[a] + 1]
          /\ Goto(w, "update")
          /\ UNCHANGED <<op, arg, todo, seen, key>>
       \/ /\ token[w] = accepted[a]
          /\ Goto(w, "update")
          /\ UNCHANGED <<accepted, op, arg, todo, token, seen, key>>
       \/ Finish(w) /\ UNCHANGED accepted
    /\ UNCHANGED <<mix, rowVars, queue, faults, historyVars>>

(* Slip: a refresh token is kept as it was first stored. *)
UpdateAccessTokenOnly(w) ==
    LET a == arg[w] IN
    /\ pc[w] = "update"
    /\ status'       = IF Live(a) THEN [status EXCEPT ![a] = "active"] ELSE status
    /\ expired'      = IF Live(a) THEN [expired EXCEPT ![a] = FALSE] ELSE expired
    /\ Finish(w)
    /\ UNCHANGED <<mix, deleted, syncStatus, synced, due, refreshToken, settings, hooked, registered,
                   queue, accepted, faults, historyVars>>

(* Slip: the row keeps its status. *)
UpdateTokensOnly(w) ==
    LET a == arg[w] IN
    /\ pc[w] = "update"
    /\ expired'      = IF Live(a) THEN [expired EXCEPT ![a] = FALSE] ELSE expired
    /\ refreshToken' = IF Live(a) THEN [refreshToken EXCEPT ![a] = token[w]] ELSE refreshToken
    /\ Finish(w)
    /\ UNCHANGED <<mix, status, deleted, syncStatus, synced, due, settings, hooked, registered, queue,
                   accepted, faults, historyVars>>

UpdateTokens(w) ==
    LET a == arg[w] IN
    /\ pc[w] = "update"
    /\ status'       = IF Live(a) THEN [status EXCEPT ![a] = "active"] ELSE status
    /\ expired'      = IF Live(a) THEN [expired EXCEPT ![a] = FALSE] ELSE expired
    /\ refreshToken' = IF Live(a) THEN [refreshToken EXCEPT ![a] = token[w]] ELSE refreshToken
    /\ late' = IF \E v \in Procs : pc[v] = "expire" /\ arg[v] = a THEN late \cup {a} ELSE late
    /\ Finish(w)
    /\ UNCHANGED <<mix, deleted, syncStatus, synced, due, settings, hooked, registered, queue, accepted,
                   faults, asked, crossed, raced, doubled, cutoff>>

(* registerWebhook keeps the registration in Redis before it writes the row. *)
StoreRegistration(w) ==
    /\ pc[w] = "addHook"
    /\ registered' = registered \cup {arg[w]}
    /\ Goto(w, "merge")
    /\ UNCHANGED <<mix, status, deleted, syncStatus, synced, due, expired, refreshToken, settings,
                   hooked, queue, accepted, op, arg, todo, token, seen, key, faults, historyVars>>

(* updateSettings and registerWebhook read the row's settings.             *)
(* registerWebhook goes on without a row too, and its update then matches  *)
(* none.                                                                   *)
ReadSettings(w) ==
    LET a == arg[w] IN
    /\ pc[w] = "merge"
    /\ IF Live(a)
       THEN /\ seen' = [seen EXCEPT ![w] = settings[a]]
            /\ Goto(w, "write")
            /\ UNCHANGED <<op, arg, todo, token, key>>
       ELSE Finish(w)
    /\ UNCHANGED <<mix, rowVars, queue, accepted, faults, historyVars>>

SetSettings(a, ks) == settings' = IF Live(a) THEN [settings EXCEPT ![a] = ks] ELSE settings

(* An update of the settings crosses those that have read them by now. *)
Race(w, a) ==
    raced' = IF \E v \in Procs \ {w} : pc[v] = "write" /\ arg[v] = a
             THEN raced \cup {a} ELSE raced

(* Both spread what they read under the keys they add.  A registration     *)
(* without metadata adds an undefined webhook_metadata, which JSON drops.  *)
Merged(w) ==
    (IF op[w] = "register" THEN seen[w] \ {MetadataKey} ELSE seen[w]) \cup key[w]

(* Slip: the settings of the request replace the stored ones. *)
WriteUnmerged(w) ==
    LET a == arg[w] IN
    /\ pc[w] = "write"
    /\ SetSettings(a, key[w])
    /\ hooked' = [hooked EXCEPT ![a] = @ \/ (op[w] = "register" /\ Live(a))]
    /\ Race(w, a)
    /\ Finish(w)
    /\ UNCHANGED <<mix, status, deleted, syncStatus, synced, due, expired, refreshToken, registered,
                   queue, accepted, faults, asked, crossed, doubled, late, cutoff>>

WriteSettings(w) ==
    LET a == arg[w] IN
    /\ pc[w] = "write"
    /\ SetSettings(a, Merged(w))
    /\ hooked' = [hooked EXCEPT ![a] = @ \/ (op[w] = "register" /\ Live(a))]
    /\ Race(w, a)
    /\ Finish(w)
    /\ UNCHANGED <<mix, status, deleted, syncStatus, synced, due, expired, refreshToken, registered,
                   queue, accepted, faults, asked, crossed, doubled, late, cutoff>>

(* updateWebhookEvents reads the registration, which may be gone by now: a *)
(* null id then matches no row.                                            *)
LookUp(w) ==
    /\ pc[w] = "lookUp"
    /\ \/ Goto(w, "replace") /\ UNCHANGED <<op, arg, todo, token, seen, key>>
       \/ Finish(w)
    /\ UNCHANGED <<mix, rowVars, queue, accepted, faults, historyVars>>

ReplaceSettings(w) ==
    LET a == arg[w] IN
    /\ pc[w] = "replace"
    /\ SetSettings(a, {EventsKey})
    /\ Race(w, a)
    /\ Finish(w)
    /\ UNCHANGED <<mix, status, deleted, syncStatus, synced, due, expired, refreshToken, hooked,
                   registered, queue, accepted, faults, asked, crossed, doubled, late, cutoff>>

-----------------------------------------------------------------------------
(* Time and failures. *)

TokenExpires(a) ==
    /\ Live(a) /\ ~expired[a]
    /\ expired' = [expired EXCEPT ![a] = TRUE]
    /\ UNCHANGED <<mix, status, deleted, syncStatus, synced, due, refreshToken, settings, hooked,
                   registered, queue, accepted, workerVars, faults, historyVars>>

BecomesDue(a) ==
    /\ Live(a) /\ ~due[a]
    /\ due' = [due EXCEPT ![a] = TRUE]
    /\ UNCHANGED <<mix, status, deleted, syncStatus, synced, expired, refreshToken, settings, hooked,
                   registered, queue, accepted, workerVars, faults, historyVars>>

(* The process dies under the worker. *)
Die(w) ==
    /\ pc[w] # "free"
    /\ faults < MaxFaults
    /\ faults' = faults + 1
    /\ cutoff' = IF arg[w] \in Accounts THEN cutoff \cup {arg[w]} ELSE cutoff
    /\ Finish(w)
    /\ UNCHANGED <<mix, rowVars, queue, accepted, asked, crossed, raced, doubled, late>>

Step(w) ==
    \/ QueueDue(w) \/ NextSync(w) \/ SyncRead(w) \/ SyncMark(w) \/ GetAccessToken(w)
    \/ MarkExpired(w) \/ ProviderSync(w) \/ SyncIdle(w) \/ StoreResult(w) \/ SyncFailed(w)
    \/ Dequeue(w) \/ FindExisting(w) \/ TestFails(w) \/ CreateIntegration(w)
    \/ UniqueViolation(w) \/ QueueNew(w) \/ SoftDelete(w) \/ ReadRefreshToken(w)
    \/ Exchange(w) \/ UpdateTokens(w) \/ StoreRegistration(w) \/ ReadSettings(w)
    \/ WriteSettings(w) \/ LookUp(w) \/ ReplaceSettings(w)

Next ==
    \/ \E w \in Procs : Step(w) \/ Die(w)
    \/ StartTick
    \/ \E w \in Workers :
          \/ StartPass(w)
          \/ \E a \in Accounts :
                \/ StartConnect(w, a)
                \/ StartDisconnect(w, a)
                \/ StartTest(w, a)
                \/ StartRefresh(w, a)
                \/ StartEvents(w, a)
                \/ \E k \in Keys : StartSettings(w, a, k)
                \/ \E ks \in {{EventsKey}, {EventsKey, MetadataKey}} : StartRegister(w, a, ks)
    \/ \E a \in Accounts : RequestSync(a) \/ TokenExpires(a) \/ BecomesDue(a)

Spec == Init /\ [][Next]_vars

(* Handlers in flight run on, and the cron job ticks. *)
Fairness ==
    /\ \A w \in Procs : WF_vars(Step(w))
    /\ WF_vars(StartTick)

FairSpec == Spec /\ Fairness

-----------------------------------------------------------------------------
(* Every variable keeps its type. *)
RowTypeOK ==
    /\ status \in [Accounts -> Statuses]
    /\ deleted \in [Accounts -> BOOLEAN]
    /\ syncStatus \in [Accounts -> {"idle", "syncing", "failed"}]
    /\ synced \in [Accounts -> BOOLEAN]
    /\ due \in [Accounts -> BOOLEAN]
    /\ expired \in [Accounts -> BOOLEAN]
    /\ refreshToken \in [Accounts -> 0..MaxRotations]
    /\ settings \in [Accounts -> SUBSET Keys]
    /\ hooked \in [Accounts -> BOOLEAN]
    /\ registered \in SUBSET Accounts
    /\ queue \in SUBSET Accounts
    /\ accepted \in [Accounts -> 0..MaxRotations]

WorkerTypeOK ==
    /\ pc \in [Procs -> Labels]
    /\ op \in [Procs -> Operations \cup {"none"}]
    /\ arg \in [Procs -> Accounts \cup {NoAccount}]
    /\ todo \in [Procs -> SUBSET Accounts]
    /\ token \in [Procs -> 0..MaxRotations]
    /\ seen \in [Procs -> SUBSET Keys]
    /\ key \in [Procs -> SUBSET Keys]

HistoryTypeOK ==
    /\ asked \in SUBSET Accounts /\ crossed \in SUBSET Accounts
    /\ raced \in SUBSET Accounts /\ doubled \in SUBSET Accounts
    /\ late \in SUBSET Accounts /\ cutoff \in SUBSET Accounts

TypeOK ==
    /\ mix \in Mixes
    /\ faults \in 0..MaxFaults
    /\ RowTypeOK /\ WorkerTypeOK /\ HistoryTypeOK

(* sync_status says what happens: while a sync is between its mark and its *)
(* outcome the row says syncing, and a row that says syncing is being      *)
(* synced, unless two syncs crossed or a process died on the account.      *)
SyncingTruthful ==
    \A a \in Accounts \ crossed : Live(a) =>
        /\ (\E w \in Workers : op[w] = "pass" /\ arg[w] = a
                                /\ pc[w] \in {"token", "expire", "provider", "idle"})
              => syncStatus[a] = "syncing"
        /\ syncStatus[a] = "syncing" =>
              \/ \E w \in Workers : op[w] = "pass" /\ arg[w] = a
                                     /\ pc[w] \in {"token", "expire", "provider", "idle", "failed"}
              \/ a \in cutoff

(* A sync that was asked for stays in the queue until one has run, unless  *)
(* the request came while another sync of the account was running.         *)
RequestKept == \A a \in asked \ crossed : a \in queue

(* The refresh token in the row is the one the provider accepts, or is     *)
(* about to be: it is lost only to two refreshes at once, or to a process  *)
(* that died with the new one in hand.                                     *)
RefreshTokenKept ==
    \A a \in Accounts \ (cutoff \cup doubled) : Live(a) =>
        \/ refreshToken[a] = accepted[a]
        \/ \E w \in Workers : pc[w] = "update" /\ arg[w] = a /\ token[w] = accepted[a]

(* A row whose access token is good says expired only when a refresh ended *)
(* between getAccessToken's read and its write.                            *)
ExpiredNeedsLateWrite ==
    \A a \in Accounts \ late : Live(a) /\ status[a] = "expired" => expired[a]

(* Without crossing updates the one handler that loses keys it does not    *)
(* name is updateWebhookEvents, which writes the column whole, a fault     *)
(* that needs no second actor: what updateSettings and registerWebhook add *)
(* goes beside what is there, and a registration removes no more than the  *)
(* metadata of an earlier one.                                             *)
MergesKeepSettings ==
    [][\A a \in Accounts \ raced : \A k \in settings[a] \ settings'[a] :
          \E w \in Workers :
             /\ arg[w] = a /\ pc'[w] # pc[w]
             /\ \/ pc[w] = "replace"
                \/ pc[w] = "write" /\ op[w] = "register" /\ k = MetadataKey]_vars

(* A connected account that was never synced gets its first sync queued,   *)
(* whether or not connect could queue it itself: the scheduler does.       *)
FirstSyncQueued ==
    \A a \in Accounts :
        ("tick" \in mix /\ Live(a) /\ ~synced[a]) ~>
            (a \in queue \/ synced[a] \/ ~Schedulable(a))

(* What the provider asks of the user whose token has run out, to connect  *)
(* the account again, is possible: only a row that is not deleted stands   *)
(* in the way of an insert.                                                *)
ReconnectPossible ==
    \A w \in Workers :
        pc[w] = "insert" /\ status[arg[w]] # "absent" => Live(arg[w])
=============================================================================
