# ZayOS back end: a verification project

This directory holds TLA+ models of the multi-tenant commerce back end in this
repository, the TLC configurations that check them on small instances, and
proofs checked by TLAPS. They are about the places where mistakes cost money or
messages and several writers meet without a common lock: subscriptions, upgrades
and top-ups, the webhook queue, messages in and out, Telegram channels, stored
files and media jobs.

Run a check with `tlc -config <cfg> <MC module>` and a proof with
`tlapm <module>`, in this directory.

## The system and its parts

The back end is a NestJS service (`backend-core-service`) with five small
services beside it (`services/*`) and two Next.js dashboards. State is in
PostgreSQL through TypeORM; the webhook service keeps its queues in Redis.

| Component | State | Operations | What must hold | Status |
|---|---|---|---|---|
| Subscription periods (`subscription-period`) | `tenant_subscription_periods` | ensure/create paid period, approve, transition, convert trial, supersede | one active paid period; windows and approvals never change; status follows the transition table and the clock | modelled in part |
| Period scheduler (`subscription-period-scheduler`) | none of its own; a pass reads candidates and a clock once | expire trial, start upcoming, expire active and hand over, expire bundles | what is due happens, survives crashes, never early | modelled in part |
| Entitlement (`entitlement`) | `tenant_entitlements`, `billing_events` | activate, suspend, grace, expire (older job) | projection backed by a paid period | modelled in part |
| Platform admin billing (`platform-admin`) | `tenant_billing_records` | create, update, review proof, reverse, admin-activate | what is confirmed reaches its period, upgrade or bundle once | modelled in part |
| Tenant billing (`tenant`) | requests, proofs, cancellations | purchase this month / next / after trial, convert, cancel, submit proof | no overlapping obligations | modelled in part |
| Upgrade revisions (`tenant`, `platform-admin`) | revisions, their invoices, the period's plan | request, cancel, confirm, approve, reject | a quota is granted for a payment and once; a paid upgrade gets an answer | modelled |
| Top-ups (`subscription-add-on`) | `tenant_subscription_add_on_purchases` | request, confirm, cancel, expire | an allowance is paid for, by its own invoice, and lapses with its month | modelled in part |
| Usage (`usage`) | usage events | record, check limits, write off | reserve within limits | messages modelled |
| Webhook queue (`services/webhook-handler-service`) | Redis lists, processing set, dead letters, idempotency keys | enqueue, claim, process, retry, requeue stale, replay | an accepted event is processed or dead-lettered | Redis backend modelled |
| Inbound ingestion (`conversation`, `chat-ingestion-service`) | provider events, messages, usage | ingest, reject over quota | one message and one usage row per customer message; nothing answered is lost | modelled in part |
| Outbound messages (`csr`, `channel-adapter`, `conversation`, `services/integration-service`) | messages, outbound commands, usage rows | accept, dispatch, relay, report, callback | what the provider has is billed and in the quota; status is not lost | modelled in part |
| Channels (`tenant`) | `tenant_channels`, each bot's webhook at Telegram | connect, test, disconnect, delete | a bot's webhook leads to its connected channel; a removed channel leaves nothing | Telegram modelled |
| Telegram onboarding (`tenant/telegram-managed-bot`) | onboarding requests | open link, start, bind, provision, cancel, expire | a finished setup stays; an unfinished one ends | modelled in part |
| File storage (`services/file-storage-service`) | one metadata file, capacity leases in Redis, content | register, put content, archive | capacity is respected | modelled in part |
| Media library (`media`) | the tenant row's capacity report | upload, payment proof | as above, from core's side | modelled in part |
| Media processing (`services/media-processing-service`) | jobs | create, drain, process, retry | a job ends once, and its output exists | modelled |
| Orders, delivery (`order`, `delivery`) | orders, stock, delivery | create, confirm, cancel | stock and status agree | not modelled |
| Auth, OTP (`auth`) | sessions, refresh tokens, one-time codes | login, refresh, verify | codes single use, attempts bounded | not modelled |
| Rate limiting, websocket, notification, email, domain events, audit log, lead, legal policy, product, customer, dashboards | rows and fan-out | CRUD and pass-through | little concurrency of their own | not modelled |

How they interact:

* Tenant requests and admin calls write billing records. Saving a paid record
  runs the period activation inside the same transaction; admin activation then
  projects the entitlement and settles the trial in two more transactions. The
  scheduler moves periods and writes the projection; the older entitlement job
  expires the projection on its own. Nothing but the database joins them.
* Providers call the webhook service, which answers as soon as it has queued the
  event and forwards it to chat ingestion (inbound messages, delivery callbacks)
  from a drain that the delivery itself starts. Chat ingestion calls core.
* Core sends a message by an HTTP call to the integration service, which calls
  the provider and, before it answers, calls core back with the outcome. The
  provider's delivery callbacks come in through the webhook queue.
* The active period's effective limits, with an approved upgrade and paid bundles,
  decide whether a message may be sent or taken in and whether a file may be
  stored.
* Media jobs fetch and register files at the file-storage service, under no
  capacity, and report to core. Telegram keeps one webhook per bot, which every
  channel of that bot sets and clears.

What makes it hard: rows loaded without a lock, an await, then a save of every
column that differs; work split over several transactions; schedulers that may
run in more than one process; Redis commands that are atomic one by one only;
answers that are lost although the work was done; month boundaries that pass
between a read and a write.

## Modules

| Module | What it is |
|---|---|
| `SubscriptionLifecycle` | abstract: what a period may do in its life, whoever moves it |
| `SubscriptionLedger` | one tenant's invoices, paid periods, trial, revisions and entitlement; requests, admin calls, schedulers, expiry job and clock |
| `UpgradeRevisions` | upgrades of a current period: request, payment, decisions on stale copies, and the message quota |
| `TopUpPurchases` | bundles, their invoices, payments, corrections and the pass that expires them |
| `WebhookQueue` | the Redis event queue with its workers, calls, operators, crashes and Redis errors |
| `InboundMessages` | deliveries to core, the inbound quota and the removal of the channel under them |
| `OutboundMessages` | sending on a conversation: request, relay, provider, callbacks |
| `TelegramOnboarding` | channels of bots, made through the manager bot or by token, and Telegram's webhooks |
| `FileStorage` | capacity leases, the metadata file and content, with the media library's own check |
| `MediaJobs` | media jobs; extends `FileStorage`, so jobs and storage interleave |
| `MC...` | adds symmetry sets and instance data to the module of the same name |
| `...Proofs` | the theorems |

In every module a definition such as `PeriodDueLate`, `HasRoomForOneMore` or
`TargetStatusAtOnce` that stands just before the one it varies and is used by no
action is a plausible mistake in the same code. Putting it in the place of the
definition makes the property it is meant for fail in the run that checks that
property; `PROJECT.json` lists the pairs.

### SubscriptionLedger

State and code:

| Variable | Code |
|---|---|
| `bill` | `tenant_billing_records`: kind (request reason), month, payment status, void. `unpaid` stands for unpaid, partially_paid and overdue |
| `period` | the paid row of `tenant_subscription_periods` an invoice gave rise to: status, approval, window, sequence number |
| `trial` | the trial row's status |
| `rev`, `repointed` | the revision of each conversion request, and those moved from the trial to the paid period |
| `ent` | `tenant_entitlements`: state, period it projects, grace end |
| `projected` | periods whose admin-period-activation key is recorded in `billing_events` |
| `call` | an admin call or a proof submission between its load and its save, or between two of its transactions |
| `pass` | a scheduler pass: the time it read and the candidates it has left |

An admin call or a proof submission is a load (`AdminUpdates`, `AdminReverses`,
`TenantSubmitsProof`...) and a save (`SaveBill`), with nothing held in between:
the saved copy overwrites every column. `ConfirmPayment` is the part of a save
that runs the period activation in its transaction. Tenant requests take the
tenant's and the periods' locks and are one step each. `ApprovePeriod`,
`ProjectEntitlement` and `SettleTrial` are admin activation's three
transactions; a call may end between them. A scheduler pass reads the candidates
and the clock (`PassStart`), then takes one transaction for each (`PassTrial`,
`PassUpcoming`, `PassTenant`), and may die before any. A write that a partial
unique index refuses rolls back: its action is disabled, and `CallEnds` ends the
call.

Time is `now`, in ticks of which a month has `MonthLength`; `Horizon` stops it.
`MaxAhead`, the months a request for the next free month looks through, is 24 in
the code and 3 in the runs, more than the months a run has.

Left out: amounts and plan edits, the proof-pending state, the tenant's own status
flag, the scheduler's event rows and keys, `cancelled` periods, the trial_*
entitlement states (nothing calls `createInitialTrial`), the stale-month guard of
a next-month request. Here the writes of a conversion's revision are one step;
`UpgradeRevisions` splits those of an upgrade at the load and the save. `waive`
and moved windows occur in the proofs only, not in the runs.

### SubscriptionLifecycle

A period is bought with a window that never changes, as upcoming or already
active; it is approved once; it moves upcoming, active, expired, never back;
it is not active before its window opens nor expired before it closes; and two are
never active at once. A hand-over expires one and starts another together.
`ImplementsLifecycle` maps every status, approval and window of the ledger to it.

### UpgradeRevisions

| Variable | Code |
|---|---|
| `ended`, `period`, `plan` | the period: whether its month is over, its status and `planId` |
| `revision` | `subscription_period_upgrade_revisions`: status, outbound carryover, and what was billed at `upgrade_effective_at` |
| `bill` | the upgrade's invoice; overdue, partly paid and waived count as unpaid |
| `events` | revisions with an `upgrade_cancelled` event, whose key is unique |
| `used` | billable usage rows of the period |
| `call` | a handler between its load and its save |
| `confirmed`, `overwritten` | history: invoices ever paid, revisions saved from a copy that had changed |

`Request` is one step, as it holds the tenant and its periods. `BeginCancel`,
`BeginReject` and `BeginApprove` load a revision without a lock and check its
status; the `Commit...` steps save the loaded copy, unless the partial unique
index refuses it. `CommitApprove` holds the period: it computes the carryover,
approves and changes the plan, or marks the revision stale. `SaveBill` and
`CommitPayment` are the two ends of the transaction that saves a paid invoice
and moves the revision on. `Send` is a message under the quota check, `WriteOff`
a message that turns out not to be billable.

Left out: inbound messages and API requests (their quotas work alike), bundles
in the limit, edits that turn an invoice into another kind, an upgrade of a
period that no administrator has approved yet.

### TopUpPurchases

| Variable | Code |
|---|---|
| `now`, `period` | the month, and each month's paid period |
| `bill` | invoices: payment, month, and whether their metadata make them a bundle's |
| `purchase` | `tenant_subscription_add_on_purchases`: status, payment, invoice, recorded keys |
| `call` | a request, payment, correction, proof or confirmation between its steps |
| `pass` | the scheduler's transaction with the copies it loaded |
| `confirmed`, `overtaken`, `late` | history: invoices ever paid, bundles a pass saved stale copies of, bundles requested after the pass had loaded the month's |

Rows of bundles are locked by confirmation and cancellation, not by the pass.
An invoice is loaded and saved without a lock, as in the ledger.

Left out: the idempotency keys callers choose (a reused key returns another
bundle's result), products and components, the check for unlimited plans,
`expirePurchase`, which nothing calls, the catalog.

### WebhookQueue

| Variable | Code |
|---|---|
| `claimedUntil` | the idempotency key of an event (`SET NX PX`) |
| `row` | the hash entry of an event: state, attempts, update time |
| `pending`, `processing` | the Redis lists, as bags: how often each event is in them |
| `completed`, `deadLetters` | the completed set and the dead-letter copies, numbered as they are made |
| `drain` | per process: the drain loop, at the Redis command it is about to issue |
| `call` | an HTTP delivery or an operator's replay or deletion, at its next command |
| `accepted`, `delivered`, `deleted`, `lettered`, `replays`, `errors` | history: events pushed, taken by chat ingestion, deleted, times dead-lettered; letters pushed again by replays, Redis commands that failed |

Every Redis command is one step. The lists are bags because no property depends
on the order; a drain takes any pending entry. `EndDrain` is a single step since
the replies on one connection come in order and the flag is cleared in the same
callback. `Crash` ends a process's drain and calls; `DrainError` and `CallError`
are commands that fail or whose reply is lost: an error while a success is being
booked counts as a failed attempt, because the booking stands inside the `try`.
`MaxFaults` bounds both together, `Faults` says which kinds occur.

Left out: the in-memory backend used without Redis, rate limits and signature
checks, the path for the platform's own Telegram manager bot, the `lPop` fallback
for a Redis without LMOVE.

### InboundMessages

| Variable | Code |
|---|---|
| `channel` | the channel: absent, awaiting its provider, connected, disabled |
| `row` | `inbound_provider_events.processing_status` per event |
| `stored`, `usage` | `messages` and the billable rows of `tenant_usage_events` |
| `limit` | the period's inbound limit; `Grant` is a top-up |
| `letter`, `tries`, `sends` | what the webhook handler still does with an event |
| `call` | a delivery at its next step, with what it has loaded |
| `announced` | per message, the notification and websocket event after the commit |
| `removal`, `erased` | per channel, the next statement of `deleteChannel` and what it has erased |

`ingestProviderMessage` is one transaction: what it writes shows at the
commit, and the quota is checked under a lock of the tenant's periods. An edit
is a second event of one message. `CutOff` ends a delivery before or after its
commit, or loses core's answer; `BreakOff` ends a removal between two
statements.

Left out: status events (their effect is in `OutboundMessages`), attachments,
customers and conversations as rows of their own, the choice among several
operational periods.

### OutboundMessages

| Variable | Code |
|---|---|
| `channel` | the conversation's channel: ready or disabled |
| `row` | `messages`: status and whether the external id is known |
| `command` | the status of each `outbound_message_commands` row |
| `billed` | usage rows that count against the period's limit |
| `request` | the `sendMessage` call of each message, with its loaded copy |
| `relay` | the integration service's part of it, with the row its report is about to save |
| `fate` | at the provider: unseen, taken, given up |
| `handler` | callbacks between the load and the save of the rows they update |

`Accept` is the one transaction: it holds the channel and the period rows, checks
the quota and writes message, usage row and command. All the rest is unlocked.
Only the transactional branch of `sendMessage` is modelled: the switch for it
always returns true. `Contact` lets the provider have a message even where its client
reports an error. A watermark (`CallbackUpTo`) covers every message created
up to it. `ReplyUnusable` is an answer core takes for "failed", whatever the
integration service did. Handlers are named; a request that finds its channel
disabled fails the message, and its command keeps "sending", because the status
it saves violates the table's CHECK constraint
(`1782443300000-AddOutboundMessageCommands`).
The outbound worker is no action: it looks for commands still "queued", and no
transaction leaves one.

Left out: canned responses and other writers of the conversation, attachments,
message text, retention.

### TelegramOnboarding

| Variable | Code |
|---|---|
| `request`, `lapsed`, `recent` | `telegram_managed_bot_onboarding_requests`, those past `state_expires_at`, and which was updated after which (pairs of requests) |
| `channel` | `tenant_channels` of provider telegram: status with connection status, bot, owner, secret |
| `hook` | at Telegram: the channel and secret each bot's webhook has |
| `call` | a handler at its next step, with the request and channel it has loaded |
| `setups`, `operations`, `crashes` | counters the bounds are on |
| `disturbed` | history: bots two handlers worked on at once, or with a connected channel that lost its bot id to a failed test |

Every handler is the chain of its awaits: `BeginCreated`, `FindCreated`,
`Bind`, `Check`, `WriteChannel`, `SetHook`, `Activate` or `MarkError`, `Finish` for
a bot Telegram reports; `Connect`, `Register`, `Complete` for a token; `Test`,
`Retry`, `SaveTest`; `CleanUp`, then `Disconnect` or `Delete`. Each save writes
the whole loaded record and is refused only by a unique index. Every call to
Telegram may succeed, fail, or succeed and lose its answer.

Left out: Viber and Messenger, the manager bot's own webhook, encryption of
tokens, `updateChannel`, `disconnectManagedBot`, which nothing calls.

### FileStorage and MediaJobs

| Variable | Code |
|---|---|
| `file`, `section` | the metadata file, and a process's synchronous rewrite of it |
| `lease` | the Redis key of a tenant's capacity lease |
| `upload` | a request for an upload in core and in the service, then its content |
| `limit`, `tenant` | the capacity granted, and the tenant row the media library saves whole |
| `disturbed` | history: two processes rewrote the file at once, or a lease expired under its holder |
| `job` | the job store: status, attempts, outputs, whether a retry waits |
| `run` | the worker's run and those of `processJob`, each with the record it carries |
| `settings` | the environment the media service was started with: `MEDIA_WORKER_ENABLED`, `MEDIA_IMAGE_PROCESSING_MODE`, the scanning and transcription providers; a restart may change it |
| `overlapped` | history: jobs two runs worked on at once |

A rewrite is a read of the file (`Open`) and a write (`Store`); within one process
nothing comes in between, between processes everything may. `Reserve`, `Check`,
`Register` and `Release` are an upload under its lease. `StorageSpec` is storage
alone; `MediaJobs`' `Spec` adds the jobs, whose derived uploads are uploads of
`FileStorage` with no capacity.

The settings decide what a run does. With images, `Derive` fetches the source and
uploads a file; without (`MEDIA_IMAGE_PROCESSING_MODE=placeholder`),
`NamePlaceholder` completes the job naming `<fileId>:thumbnail` or
`<fileId>:optimized`, which no storage has, and marks the output "placeholder" (the
service's tests run so, `app.controller.spec.ts:103-139`). With HTTP providers
`Inspect` fetches the source; the placeholder providers, the default, complete
without it. With the worker on, a timer drains the queue; off, the default, only
`POST media/jobs/drain` and `processJob` run anything (`DrainQueue` stands for the
timer and the request).

Left out: `POST /files/metadata` (`app.controller.ts:71-89` of file storage), which
registers a file under no lease and no capacity and which no service of the
repository calls; signatures, content checks, S3 content, the in-process lock used
without Redis, what the processors compute, core's in-memory list of job callbacks.

## Runs

| Run | Instance | Properties |
|---|---|---|
| `ledger_races` | 2 invoices, 2 calls in flight, a month boundary, tenant and admin invoices, voids and reissues | OneActivePaid, ProjectionBacked, GraceFollowsTheWindow, FutureStaysUpcoming, ImplementsLifecycle |
| `ledger_trial` | 2 invoices, a trial that ends inside the second of two-tick months, conversions and after-trial purchases, fairness | TrialClosedForAReason, DuePeriodsExpire, ApprovedPeriodsStart, TrialExpires, EntitlementLapses |
| `upgrades` | 2 upgrades, 2 handlers, quotas of 2 and 2 | UsageIsCovered, PaidUpgradeIsPending |
| `upgrade_quota` | 1 upgrade, quotas of 1 and 2 | UpgradeGrantsItsQuota: violated |
| `top_ups` | 1 invoice, 2 bundles, 3 handlers, a month's end, a cut-off, fairness | GrantIsPaidFor, PaidIsGranted, EndedStaysEnded, BundlesLapse |
| `webhook_faults` | 2 events, a queue of one place, two dead letters at most, 1 worker, an operator, a crash or a Redis error | WorkIsListedOnce, AttemptsArePaidFor, DepthIsBounded, KeyMeansWork |
| `webhook_workers` | 1 event, 2 workers, an operator, keys that expire, fairness, no faults | AcceptedIsKept, AcceptedIsSettled |
| `inbound` | a message, its edit and another, 2 deliveries at once, limits up to 2, a cut-off, removal of the channel | QuotaIsRespected, BilledOnce, RowsAgree, AnnouncedOnce, GoneMeansEmpty, DeliveredIsSettled |
| `outbound_replies` | 2 messages, a limit of 1, one callback at a time, fairness | TakenIsBilled, TakenWithinQuota, SentMeansAccepted, MessageLeavesSending |
| `telegram` | 1 bot, 2 workspaces, a link, 2 setups, an operation, 2 handlers, a crash | RequestTellsTheTruth, HookLeadsToItsChannel, ProvisioningIsAttended, ConnectedIsLeftByStaleCopiesOnly |
| `storage_capacity` | 2 uploads, 2 processes, capacities 0 and 1, a stop | CapacityIsRespected |
| `media_jobs` | 1 job, the worker and a request, 2 attempts, a crash, worker, images and providers all on or all off, fairness | OutputsExist, SettledStays, JobSettles |

Type invariants are in no run: each module's is a theorem.

### Why the bounds are enough

* Ledger. Two invoices give a period that is active and one that succeeds it or
  competes for the slot. Two calls are what a stale save needs: one that loaded
  and one that saved since. Months of two ticks separate a trial's end from a
  month boundary. One scheduler is enough for a pass that began before a boundary,
  since the clock may move inside it; the theorems hold for any number. Moving an
  invoice's window is left to the proofs: every theorem but two covers it, and the
  two name its absence as an assumption, as the code lets it break them.
* Upgrades. A second upgrade needs the first cancelled, so two show the index and
  a stale save that takes the place again. Two handlers give every pair of
  decisions; with three and quotas of one (8.6 million states) nothing else
  appeared. A quota of two can be used in part before and after an approval. The
  theorems cover all numbers.
* Top-ups. One invoice that two bundles could claim and three handlers let a
  payment, a correction and a request overlap on it, with the month's end and a
  cut-off between them. The theorems cover all numbers.
* Queue. Two events and one place make the depth check and the places between
  two lists matter; a fault may come between any two commands. Two workers and a
  clock past `Timeout` let each requeue the other's entry while it is forwarded;
  `MaxAttempts` 2 has a first, a last and a replayed attempt, and `MaxLetters` 2
  lets an event die again after its replay. `KeyLife` is longer
  than the run in `webhook_faults`; in `webhook_workers` a key expires under a
  queued event.
* Inbound. An edit and its message in two deliveries are the smallest instance of
  two events of one message; the other message competes for the quota; a limit
  that may be raised once from one to two lets a refused message be followed by an
  accepted one.
* Outbound. A limit of one with two messages makes the second depend on the
  first's write-off. A callback, the relay's report and the request may each hold
  a stale copy of one message. Two callbacks at once (1.0 million states), and a
  limit that admits both messages (4.3 million), were explored too, without an
  error.
* Telegram. Two workspaces that set up one bot, by the manager bot or by token,
  and an operation on the channel of either, are what a webhook at the wrong
  channel needs. Two operations, and two links of one workspace of which the second
  replaces the first, were explored apart, without an error.
* Storage and jobs. Two uploads of one tenant and a capacity of one reach the
  limit; two processes are what the metadata file and the lease are about. A
  request beside the worker is what makes two runs of a job. The two environments of
  `media_jobs` have every setting both ways, and the restart goes from either to
  either; a second request (1.5 million states), and the default environment with one
  that has a worker and placeholder images, were explored too, without an error.

`CHECK_DEADLOCK FALSE` stands where the system may really stop, with the reason
beside it: clocks that stop at a bound, and instances in which every event,
invoice or job is used up.

### Fairness

* Ledger: weak on `PassStart`, which a cron interval repeats; strong on each
  transaction of a pass, because a crash may cut any pass short but a restarted
  scheduler reaches the candidate again and again; weak on the expiry job. None on
  the clock, on tenants or on admins, so the liveness properties say what happens
  without their help.
* Queue: weak on the steps of a call or drain that has begun, since a running
  process goes on. None on deliveries, operators or faults.
* Outbound: weak on the request's own steps; a fetch that gets no answer runs
  into its timeout, which is `LoseReply`. None on the relay, the provider or the
  callbacks. `MessageLeavesSending` excludes calls that die.
* Top-ups: weak on `PassStart`, which the cron job repeats, strong on `PassCommit`,
  as a cut-off may end any one pass but not each. None on tenants, administrators
  or the clock.
* Media jobs: weak on the steps of each run (a fetch ends, with an error at the
  latest), on the retry pause, and on draining the queue while the worker is on. The
  worker is on only where `MEDIA_WORKER_ENABLED` is "true" (`app.service.ts:83`); it is
  off by default and no configuration in the repository sets it, so `JobSettles`
  promises nothing without it: `docs/operations/stuck-media-jobs.md:47` has "Jobs stay
  queued" for that case. None on requests, uploads or crashes; `JobSettles` also
  excludes a job whose last run a crash ended, but not one queued when it happened.
* Upgrades, inbound messages and Telegram have safety properties only.

## Where code and documents disagree

`UpgradeGrantsItsQuota` (`upgrade_quota`). The entity says of the moment an
upgrade takes effect: "Usage at or after this instant is evaluated under the
upgraded plan, the carryover grant, and existing valid top-ups"
(`tenant-subscription-period-upgrade-revision.entity.ts:101-103`). The check
(`usage-limit.service.ts:328`) compares new quota plus carryover with all usage of
the period, and the approval has already subtracted the earlier usage from the
carryover. It is charged twice: with one message used of an old quota of one and a
new quota of two, one more message can be sent, not two.

Behaviours met while modelling, which the models contain (unless said
otherwise) and no run refutes:

* Ledger: a proof submission or a reminder that loaded an invoice before its payment
  was confirmed writes it back to unpaid (`docs/checklist/zayos-production-blockers-checklist.md:851`
  lists confirmed fields as immutable); the scheduler writes `payment_grace` or
  `paid_active` over a suspension; a reversed payment leaves its period active and
  approved; an upcoming period whose whole month passed while no scheduler ran
  stays upcoming; the overlap check of an admin invoice takes no lock, so one month
  can be invoiced twice; activating a conversion approves a revision that was
  rejected; an invoice whose window is moved after a reversal can start a later
  month early; the three transactions of an activation leave an approved period
  unprojected when the call ends between them; a voided invoice is reissued without
  the overlap check. Outside the model: reactivating a tenant leaves its
  entitlement suspended.
* Upgrades: of two decisions the later save wins, so the plan may stay the new one
  with a rejected revision, and a paid upgrade may end cancelled; of two approvals
  the second computes the carryover again; a stale cancellation frees the period's
  slot; rejecting a cancelled revision takes it again.
* Top-ups: the pass overwrites a confirmation or cancellation it did not see; a
  bundle stays after its payment is reversed; paying again after expiry fails;
  an operator's confirmation only succeeds where the invoice was paid without
  granting; an admin-made top-up invoice is nearly always refused by the overlap
  check; a bundle requested after the pass loaded the month's stays pending or
  active, and the resolver ignores it. A confirmation locks bundle then invoice, a
  payment invoice then bundle: they can deadlock, and the database ends one.
* Queue: the key is claimed before the event is stored, so after a crash in
  between the provider's retry is answered as a duplicate of an event nobody queued;
  a worker takes an entry off the processing list before it pushes it to its
  next place, and a crash in between loses it; a crash between LMOVE and the row's
  "processing" strands an entry, which the stale scan passes over; a push whose
  reply is lost gives the key back and may list its event twice; two operators who
  replay one letter together list it twice; after a restart nothing drains until
  the next delivery.
* Inbound: an event refused by the quota is answered as accepted and is not
  delivered after a top-up; chat ingestion turns core's 409 ("Terminal
  (non-retryable)" in core) into a 500, which is retried; a delivery in flight
  revives a channel that was disconnected meanwhile; a delivery cut off after its
  commit never announces its message; a removal broken off leaves a live channel
  without history.
* Outbound: a call that dies after its transaction leaves its command "sending"
  for good; a message shown as failed may be with the provider (its client reports an
  error, or core cannot use the integration service's answer), and takes no
  later callback; a late save writes sent over delivered or read, and
  delivery_unknown over a reported status; a callback before the external id is
  saved finds no message.
* Telegram: two concurrent setups of a bot leave the database with another secret
  than Telegram; a failed test clears the bot id of a live channel; disconnecting or
  deleting an old channel clears the webhook of another workspace's live one; a
  stale failure or cancellation overwrites connected, and connected them; a failed
  bot can never be set up again, its id being unique over all requests
  (`docs/telegram-managed-bot-onboarding.md:72` speaks of a retry); a crash during
  provisioning leaves a request that never expires; a stale save re-inserts a deleted
  channel.
* Storage and jobs: `assertLease` can never refuse; reporting the usage saves the
  tenant row whole and undoes a suspension (`docs/deployment/production-deployment-guideline.md:28`
  calls it reporting only); rewrites of the metadata file by two processes lose
  records; derived uploads carry no capacity; a derived file whose content fails to
  arrive stays registered and counted; a busy lease uses up a job's attempt; a crash
  leaves a job "processing" (`docs/operations/stuck-media-jobs.md` has the manual way
  out), and running it by hand may exceed the attempts; without a worker a job stays
  queued until somebody asks; overlapping runs overwrite
  a settled job.

## Proofs

Every theorem is about `Spec` (`StorageSpec` where storage stands alone), without
fairness, for all constants the module's assumption admits. Hypotheses beyond that
are in the statement of the theorem and named here.

**Ledger.** The safety properties are not inductive alone: a call in flight
holds a copy of a row it no longer locks. `IInv` adds what it may still rely on.
`CallsHoldTheirBill`: the row a call will write is of a bill that exists and keeps
its kind. `CallsActivateStarted`: a period once approved and started never
loses either, so an activation's later transactions work on a started period.
`PassesInThePast`: a pass reads a clock that is never ahead, so nothing a
scheduler finds due is early. Writers lemmas (`PeriodWriters`,
`EntitlementWriters`, `RevisionWriters`, `ProjectedWriters`, `ClockWriters`)
reduce each variable's conjuncts to the few actions that write it. From `IInv`:
`TypeCorrect`, `OnePaidPeriodIsActive`, `ProjectionIsBacked`,
`GraceIsTiedToTheWindow`, `TrialIsClosedForAReason`. Where no admin moves
windows, `PeriodsFollowBills` joins the invariant and gives
`FuturePeriodsStayUpcoming` and the refinement `LedgerImplementsLifecycle`: each
step buys, moves, approves or hands over, or leaves the periods alone.

**Queue.** `QInv` says that a call past its store, and a worker with an entry in
hand, have the event's row. It holds through crashes and errors and gives
`QueueTypeCorrect` and `ListedEventsHaveRows`. `KInv` says where an accepted event
is (`Safe`) and that a worker about to place an entry has settled its place. It is
inductive where nothing fails: `AcceptedEventsAreKept` assumes `MaxFaults = 0` and
covers any number of workers, however often they take each other's entries for
stale. `KeyInv` adds to a key's event that a delivery which only has to drain has
queued it; `LiveKeysMeanWork` follows without hypotheses. `OnceInv` counts the
places an event's work can be in: its lists, its letters, a call that brings it, a
worker that moves it, and the key that keeps the next delivery out (`Alone`), with
what a worker holds of the entries it found stale (`StaleInv`). It gives
`EventsAreWorkedOnOnce`, and with `PaidInv`, by which an entry on its way to another
attempt has one left or a crash to show for it, `EventsGetTheirAttempts`. Both
assume that a key outlives the run, that operators act one at a time and that no
worker takes another's entry for stale; without each of these the code does list an
event twice. `DepthInv` bounds the lists together with what is owed to them: the
calls that have measured the depth and not yet pushed, and the worker between two
lists. `DepthPassesItsLimitByOne` covers any events, calls, replays, crashes and
errors, for one worker.

**Outbound.** `OInv` has three parts per message and one for the quota.
`Stage`: a message is posted only while it is billed and contacts the provider only
after, so a write-off never meets one in flight. `Failures`: whoever holds or shows
"failed" has a reason that lasts: the provider gave up, the relay refused, or the
request's command does not say "sent". `Answered`: a "sent" answer is the relay's. `BilledWithinQuota` bounds the billed messages. Every copy in flight
appears in the invariant, since any of them may be saved next. It gives
`OutboundTypeCorrect`, `TakenMessagesAreBilled`, `TakenMessagesKeepTheQuota` and
`SentCommandsWereAccepted`.

**Upgrades.** A decision saves a copy, so `IInv` says what each copy implies:
an approval in flight has a confirmed invoice, a cancellation a revision that was
requested, and a payment a revision that still has an answer if it had one when
loaded, unless a stale copy was saved since (`Handlers`). With `Bills` (an invoice
has its revision) and `Paid` (what awaits approval or is approved was confirmed) it
gives `TypeCorrect`, `UsageStaysCovered` and `PaidUpgradeGetsItsAnswer`.
`RowSaved` is the lemma all saves share.

**Top-ups.** Five parts on top of the types. `Handlers`: what a handler holds
exists. `Links`: a bundle has an invoice no other bundle has. `Payments`: what is
paid was confirmed. `Copies`: the pass has copies of bundles that were open.
`Grants`: a confirmation that is recorded, or that the invoice shows, reached its
bundle. They give `EveryGrantIsPaidFor`, `EveryPaymentIsGranted` and `EndIsFinal`.

**Inbound.** The invariant is built in layers, each proved on the ones before:
`Shape` (types; `TypeCorrect`), the quota under the lock (`OneReader`;
`QuotaHolds`), what an answer implies (`Answering`; `NothingAnsweredIsLost`), what a
removal has erased (`GoneMeansEmpty` itself; `RemovedIsEmpty`), one usage row per message (`Kept`,
`Single`; `NeverBilledTwice`), the agreement of event, message and usage rows
(`Told`; `AgreementIsKept`), and what staff hear of a message: announcements made
and announcements coming from deliveries past their commit never exceed the times it
was billed, and equal them while nothing failed or was erased (`Tellings`;
`StaffAreToldOnce`).

**Storage and jobs.** `StorageInv` has the types and ties an upload that writes its
record to the section open in its process. `Calm` holds until two processes rewrite
the metadata at once or a lease expires under its holder (`disturbed`): one section at a
time, which puts back the metadata as they are but for its own record (`Fresh`), a
lease for each upload from its check to its registration (`Leased`), and room for it
since (`Room`). `CapacityHolds` follows for storage alone and
`CapacityHoldsUnderJobs` for storage under the jobs, each of whose steps moves one
upload without a capacity or none. `Watched` says that the upload a run waits for
is its own and, once written, has its content; `Outputs` carries that to every record
that names the file, the stored ones and those in hands
(`CompletedJobsHaveTheirFile`: a file for every completed job that derives, and the
placeholder only if `Settings` has an environment with that mode). `OneRun` and `Carries`, that a job's only run has its
stored record, give `SettledJobsStay`.

**Telegram.** Lemmas say once what each step makes of its handler's record
(`Acts...`) and which shared records it leaves alone (`Frames`); four layers stand on
them. `Copies`: what a copy still says whatever became of its request, from which
`ConnectedStays` follows. `Claims`: a channel's id stands for one bot and workspace
in every row, copy and finished request, and no one knows an id that a handler
may still insert (`ConnectedRequestsTellTheTruth`). `Attended`: a request in
provisioning has a handler that carries its bot, and the unique indexes let that
handler's save through and keep the others' out; until a crash (`SomebodyAttends`).
`Hooked`: the one handler that works on the channel of an undisturbed bot has the
row as it is stored and Telegram as it left it (`HooksLeadToTheirChannel`).

Model-checked only: every liveness property, as the prover has no fairness and no
ENABLED. `UpgradeGrantsItsQuota` is violated and has no theorem. Every other
invariant and action property of a run is stated by a theorem, four of the queue's
and two of the ledger's under the hypotheses above; `DepthIsBounded` with several workers is neither checked
nor proved.

## Not modelled, and plan

Not modelled: orders and delivery, sign-in and one-time codes; fan-out
(websocket, notifications, e-mail, domain events), whose output follows a state
change and is read by no decision; rate limiting, one SQL statement per hit; CRUD on
single rows; the dashboards, which keep no state the services depend on; seed data
and migrations, except for the constraints and indexes the models use.

Next, in this order:

1. Proofs: `DepthIsBounded` for several workers, with what each may carry twice
   after a theft in its bound; `EndedStaysEnded` and its like as refinements of an
   abstract bundle; the bounds of a run (`MaxTime` in `KeyLife > MaxTime`) replaced
   by the life of the keys an event was given.
2. The quota of one period over upgrades, bundles and both directions of
   messages, composing `UpgradeRevisions`, `TopUpPurchases`, `InboundMessages` and
   `OutboundMessages`, whose limits are parameters of one another now.
3. An abstract delivery (at least once, any order) that `WebhookQueue` without faults
   implements and `InboundMessages` assumes.
4. `Orders`: status against payment, delivery and stock. `auth`: refresh rotation
   and one-time codes.
