# A verification project for the AbrPardaz bot

AbrPardaz sells cloud servers through a Telegram bot. Users fill a wallet; servers of six
providers are bought, billed by the hour or by the month, suspended, renewed and deleted. The
program is one asyncio process (the bot, its webhooks and a small web application), a Celery
worker with four processes, Celery beat, PostgreSQL and Redis. What is hard about it is not any
single handler but that all of them change the same few rows (`users`, `servers`, `snapshots`,
`crypto_payments`, `payment_orders`) from many sessions at once, around slow calls to providers
and payment gateways, while messages from outside arrive late, twice or not at all.

This directory holds TLA+ modules translated from that code, TLC configurations that check them
on small instances, and TLAPS proofs of what they guarantee for every instance.

| module | what it is |
| --- | --- |
| `HourlyBilling` | the hourly wallet billing, with the handlers that change the same rows |
| `MeteredWallet` | what it promises: wallets charged by the hour, in single steps |
| `MCHourlyBilling` | instances of it for TLC |
| `HourlyBillingProofs` | theorems about it |
| `Payments` | the two gateways that fill a wallet |
| `MCPayments` | instances of it for TLC |
| `PaymentsProofs` | theorems about it |
| `MonthlyRenewal` | the nightly check, the renewal retry and the renewals by hand of a monthly server |
| `MCMonthlyRenewal` | instances of it for TLC |
| `MonthlyRenewalProofs` | theorems about it |
| `Storefront` | the conversation in which a customer chooses a server, up to the confirmed order |
| `Provisioning` | what becomes of an order: debit, build, delivery, refund, clean-up, the sweeper of lost machines |
| `PurchaseProofs` | theorems about both |
| `ServerSync` | what is done to a server afterwards, by several sessions around slow providers |
| `ServerSyncProofs` | theorems about it |
| `SnapshotBilling` | snapshots and their hourly billing |
| `SnapshotBillingProofs` | theorems about it |
| `Reseller` | machines that resellers run on the panel, found and billed by synchronisation |
| `ResellerProofs` | theorems about it |
| `Catalog` | what is on sale, at which price |
| `ProviderAccounts` | the accounts at the providers, their health check, their registration and deletion |
| `ProviderProofs` | theorems about both |
| `MCStorefront`, `MCProvisioning`, `MCServerSync`, `MCSnapshotBilling`, `MCReseller`, `MCCatalog`, `MCProviderAccounts` | instances of these for TLC |

`PROJECT.json` lists the components, the runs, the hazards, and for each definition the lines of
the source it stands for.

## 1. Inventory

Every operation on the database is a SQLAlchemy session in a READ COMMITTED transaction:
`DbSessionMiddleware` commits after a handler and rolls back after an exception, `get_session`
does the same for tasks, and many handlers commit in between. Four Celery processes
(`--concurrency`) run the tasks of `celery_app.py`'s beat schedule beside the bot process, and a
task may start before its predecessor has ended.

| component | state | operations | who touches the same state | what is hard | what makes it correct |
| --- | --- | --- | --- | --- | --- |
| **Hourly billing** (`tasks/billing.py`, `services/billing.py`) | `users.balance`, the grace keys of `users.extra_data`, `servers.status`, `billing_type`, `last_billed_at` | `run_hourly_billing` every minute, `handle_balance_empty`, `charge_hourly`, `debit`, `credit`, suspend and unsuspend | conversion to monthly, deletion, every other debit and credit | overlapping runs, rows read before their lock, arrears after an outage, a missing exchange rate, deadlocks | no lost update, no overdraft, each hour paid once and none forgiven, no hour after conversion, three hours of notice before deletion, arrears settled in the end |
| **Gateways** (`webhook_server.py`, `crypto_billing.py`, `crypto_polling.py`, payment handlers) | `crypto_payments.status`, `activated`, `payment_orders.status`, the wallet | IPN, poll, cancel; checkout, callback, verify | each other, and the billing of the same wallet | lost, late, repeated, overtaken notifications; two of them handled at once; crash before COMMIT | only confirmed payments credited, once, and every one in the end |
| **Monthly renewal** (`tasks/billing.py`, `handlers/servers.py`) | `expires_at`, `status`, `suspend_reason`, `suspended_at`, the keys `manual_renewed_at` and `renew_notice_sent`, balance | nightly expiry check, `retry_expired_renewals`, renewal and activation by hand, upgrade | the paths among themselves, administrators, the traffic limit, deletion | the tasks act on rows read long before; only the manual path locks the row first; `extra_data` is written back whole; charge postponed when no rate is stored | no free month, no second renewal by hand in a month, a day's notice before removal, nobody who can pay is suspended for good |
| **Snapshots** (`handlers/snapshots.py`, `tasks/billing.py`) | `snapshots` rows, images at Hetzner, balance | create, restore, delete, `run_snapshot_billing` | overlapping runs, deletion, restoring | neither lock nor re-read; the image goes before the row; the first debit's result is ignored | debits match the anchor; nobody pays for an image that is gone |
| **Purchase, build, delivery** (`handlers/servers.py`, `services/server.py`) | FSM data of the conversation, balance, the new `servers` row, machines, volumes and addresses at the provider | choose, confirm, build in the background, deliver, refund; upgrade, traffic, addresses | the user's other purchases and old buttons; billing; the sweeper | provider calls of minutes, a restart in between, unlocked limits, choices made while a handler waits | the order is the one on the screen; money is taken for exactly what is delivered; nothing is left to be billed by the provider |
| **Server sync** (`services/server.py`, `tasks/server.py`) | `servers.status`, `extra_data`, IPs, traffic counters | power actions, rebuild, deletion, status and traffic sync | suspension, deletion, billing, sales to the same server | the status is read before a provider call and written after it; whole-column writes of `extra_data` | a suspended server stays so; BUILDING and REBUILDING end (PENDING and REBOOTING need not); what is paid is done |
| **Reseller** (`services/reseller.py`, `tasks/reseller.py`, `admin_reseller.py`) | reseller rows in `servers`, settings and debt in `users.extra_data` | registration, discovery, two-strike removal, rematch, backfill, debt reminders | manual and periodic sync, hourly billing, every handler that writes `extra_data` | partial panel answers, re-created rows, unlocked checks | no VM hour billed twice, one live row per machine, debts collected once |
| **Exchange rate and prices** (`tasks/exchange_rate.py`, `currency.py`) | the cached rate | hourly fetch, validation, fallback | every charge | the rate may be absent for hours | nothing is charged at a wrong or missing rate |
| **Catalogs and health** (`tasks/server.py`, `*_settings.py`, `admin_<provider>.py`) | plan rows with their `was_active` marks and costs, settings, `provider_accounts` with `extra_config` | five catalogue syncs twice an hour, imports, margins and surcharges; health check; accounts added, changed, deleted | administrators editing the same rows; purchases | partial catalogues, whole-column writes of JSON, one COMMIT after many slow calls | a plan comes back as the administrator wished, at a price that follows from its cost; alarms tell the state; no server without an account |
| **Provider clients** (`providers/`) | none | HTTP, in several requests per operation | – | requests that fail half-way | nothing is left behind unnoticed |
| **Registration and gate** (`handlers/auth.py`, `start.py`) | flags of one user | a linear conversation | – | – | – |
| **Middlewares** | Redis counters | commit/rollback, user load, rate limit | – | – | – |
| **Administration** | configuration rows; wallets through `credit` | forms | billing | – | – |
| **Broadcast, statistics, logs** | none of interest | output | – | – | – |
| **Backup and restore** | the whole database | `pg_dump`, `psql` | everything | – | – |
| **Web application, menus** (`webapp/`, `keyboards/`) | – | views; relay of the owner's actions to `ServerService` | the bot | – | – |
| **Wiring and schema** | – | start-up, beat schedule, models | – | – | – |

## 2. Plan

The order was that of the money: first what is debited every minute, then what fills the wallet,
then what is bought with it, then what is on sale.

1. `HourlyBilling`, `MeteredWallet` and their proofs, the refinement included.
2. `Payments`, `MonthlyRenewal` and their proofs.
3. `SnapshotBilling` and its proofs.
4. `Storefront`, `Provisioning`, `ServerSync`: the life of a server from the first button on;
   `PurchaseProofs` and `ServerSyncProofs`.
5. `Reseller` and its proofs; `Catalog`, `ProviderAccounts` and `ProviderProofs`.

All of these are written and checked. The modules meet at their borders: `Storefront` ends with
the order with which `Provisioning` begins; a delivered row of `Provisioning` is the row with
which `ServerSync` begins; what `ServerSync` calls a suspension is decided in `HourlyBilling` and
`MonthlyRenewal`; a deletion in any of them is `DeleteServer` of `Provisioning`, and the accounts
and plans they assume are the subject of `ProviderAccounts` and `Catalog`.

Every invariant and every action property that a passing run checks is proved (section 13); what is
still worth proving are further refinements like that of `MeteredWallet`: an order of
`Provisioning` implements a purchase in one step, and an invoice of `Payments` a credit in one
step. No module uses a RECURSIVE operator.

## 3. HourlyBilling

### State

| variable | in the code |
| --- | --- |
| `srv[s]` | a committed `servers` row: `status`, `cycle` (`billing_type`), `anchor` (`last_billed_at`) |
| `balance[u]` | `users.balance` |
| `grace[u]` | `balance_empty_at` (`stamped`, `since`) and `balance_warn_level` (`warn`) of `users.extra_data` |
| `rate` | whether an exchange rate is stored |
| `run[w]` | the local variables of the task a worker process executes: the list, the server at hand, `charged`, the users debited and those refused |
| `mem[w]` | the identity map of its session: values written and not committed |
| `conv[h]` | the server `cb_srv_to_monthly_do` has locked |
| `till[u]` | a gateway's session between reading the balance and COMMIT |
| `sLock`, `uLock` | holders of the row locks |
| `queue` | `handle_balance_empty.delay` messages |
| `net`, `slip`, `paid`, `base`, `funded`, `topUps` | the books: what the `transactions` table and the chat say, used by properties only |

### Actions

* `ListDue`, `LockServer`, `DebitHour`, `RefuseHour`, `CommitRun` are the steps of
  `run_hourly_billing` and `charge_hourly`: a plain SELECT of the due servers; for each a
  `FOR UPDATE` of the server (where only its existence and `billing_type` are rechecked, and a
  missing rate skips it), a `FOR UPDATE` of the user with `populate_existing`, the debit in
  memory; one COMMIT, after which the refused users are queued. A lock that is taken is an
  enabling condition; several processes interleave at each of them.
* `ClearGrace`, `StampGrace`, `WarnAgain`, `NothingDue`, `BeginPurge`/`CommitPurge` are the
  outcomes of `handle_balance_empty`, which locks the user row. All but the purge touch no other
  lock and are single steps; the purge locks the user while it deletes VMs, then updates server
  rows and so waits for their locks.
* `BeginConvert`, `PayConvert`, `RefuseConvert` are `cb_srv_to_monthly_do`; `Credit`, `Suspend`,
  `Unsuspend`, `Delete` the other writers. `Credit` is `BillingService.credit`, which locks the
  user and resets the marks of the grace period.
* `GatewayRead`, `GatewayWrite`, `GatewayDrop` are the credit of a payment (`webhook_server.py`,
  `crypto_billing.py`; at most `MaxTopUps`): a read without a lock, an absolute balance written
  later, the marks left as they are. What is committed in between is written over; `slip` keeps
  count of it, and `Ledger` and the refinement say that nothing else is lost.
* `Rollback` is a crash (at most `MaxCrashes`) or PostgreSQL cancelling one transaction of a
  cycle of waits. `WaitsFor` includes the locks a transaction *may* ask for next, since the order
  of a list is not modelled: it only makes rollbacks more frequent than they are.
* `RateChanges` and `Tick` are the environment; `Rest` closes the bounded clock.

Every plan costs `Price`; prices differ in the code but no property relates two of them. The
three hours and the two warnings of the grace period are kept, `STALE` (12 hours) is
`StaleAfter`. Messages, log lines and the texts of transactions are left out.

### Abstract specification

`MeteredWallet` has wallets, meters, plans and states, and no processes, locks, lists or crashes:
a run debits one hour of each of a set of hourly servers in one step, or it does not happen;
a conversion costs a month and happens to an active server; only conversion and the end of a
suspension move a meter otherwise; a monthly server is never charged or removed again by billing;
a gateway notes a balance (`quote`) and settles or withdraws it later, whatever was charged in between.
`ImplementsWallet` instantiates it with the committed rows.

## 4. Payments

| variable | in the code |
| --- | --- |
| `np[c]`, `bank[z]` | the payment as NOWPayments and Zarinpal know it (external) |
| `due[c]`, `inTime[c]` | `expires_at` has passed; the payer paid before it |
| `invoice[c]` | the `crypto_payments` row: `status`, `activated` |
| `order[z]` | `payment_orders.status` |
| `sent` | notifications ever sent: nothing is ever removed, so they are late, repeated and overtaken at will, and lost because nobody has to receive them |
| `sess[p]` | a webhook request, cancel button or the poll, between two awaits; `saw` is the balance it read, `seen` (books) whether the invoice had been credited when it read the row |
| `todo`, `late` | the polling task's list and its expired part |
| `oLock`, `uLock` | row locks, taken by UPDATE at flush time, since the gateways use no `FOR UPDATE` |
| `credits`, `net` | the books: `transactions` rows |

`_handle_ipn`, `_do_poll` and `cb_np_cancel` share their steps: the row is read (`ReadInvoice`),
a status is written (`StoreStatus`), or the payment is activated (`ReadWallet`, `LockWallet`,
`CommitInvoice`) in the order in which SQLAlchemy's autoflush issues the statements. SQLAlchemy
writes the columns that changed, which is what `WithStatus` says. The Zarinpal callback reads the
order once, calls verify (`VerifyAccepted` for 100 and 101, `VerifyRefused`, `VerifyError`), and
credits without reading the order again. `Debit` stands for the billing of the same wallet;
`MaxCredits` bounds the callbacks that start while an order is not `paid`.

## 5. MonthlyRenewal

| variable | in the code |
| --- | --- |
| `row[s]` | a committed `servers` row. `standing` joins `status` and `suspend_reason`: "expired" is SUSPENDED for EXPIRED, "held" SUSPENDED for any other reason, "gone" a deleted row that still says EXPIRED; `since` is `suspended_at`, `expires` `expires_at`, `mark` and `notice` the keys `manual_renewed_at` and `renew_notice_sent` of `extra_data` |
| `balance[u]`, `rate` | `users.balance`; whether an exchange rate is stored |
| `run[w]` | the task of a worker process: its phase, when it began (`at`, the `now` computed once), the list at hand and the rows as they were read (`seen`), the server at hand and what `charge_monthly` answered, the servers charged |
| `mem[w]` | what its session has written and not committed: row values with the columns that changed, balances and the months spent |
| `sess[h]` | a bot session between two awaits |
| `draft[e]` | the `extra_data` a handler without a lock will write back |
| `sLock`, `uLock` | row locks; a task takes a server's when its UPDATE is flushed, and a user's in `debit` |
| `night` | the last night whose check began and was not rolled back |
| `funded`, `months`, `charges`, `manual`, `told`, `erased` | the books: the `transactions` table and the chat, for properties only |

* `BeginNight`, `Remind`, `ListExpired`, `ListOverdue` are `run_monthly_expiry_check`: three lists
  read by plain SELECTs (of the same session, so a later list shows the earlier writes), worked
  through in one transaction. `BeginRetry` is `retry_expired_renewals`. For a server at hand
  `DebitMonth`, `RefuseMonth`, `Postpone` and `PostponeOverdue` are the answers True, False and
  None of `charge_monthly` as the caller takes them; `Renew`, `Suspend` and `Remove` are what
  follows, with the UPDATE that waits for the row lock; `CommitRun` writes the changed columns.
* `LockForRenewal` and `PayRenewal` are `_perform_renewal`: the row is read `FOR UPDATE` and the
  month checked under that lock. `AskActivation`, `PayActivation` and `Activate` are "unsuspend"
  in `cb_server_action`, whose month is paid before the provider is called; the answer of the
  provider (`lifted`) is free. `RefuseHandler` is either debit refused.
* `Hold`, `Lift` and `Delete` are what administrators, the traffic limit and a traffic purchase
  do to the row in one short transaction; `Credit` fills the wallet.
* `ReadExtra`, `WriteExtra`, `DropExtra` are a handler that reads `extra_data`, waits for a provider and
  writes the whole of it back without a lock (`sync_server_status` and the power, rebuild and password
  handlers): like the reminder it may erase `manual_renewed_at`, which `erased` remembers.
* `RollbackRun` (a crash, at most `MaxCrashes`) starts the night again, as `self.retry` does;
  `RollbackHandler` is a crash or PostgreSQL cancelling one transaction of a cycle of waits.

Assumed: a night's check ends before the next one begins, and a transaction spans at most one
tick. Errors of providers are swallowed by the tasks and do not change what they write. There is
one price; discount codes, which change it, are left out, and so are messages. What an activation
or an upgrade does at the provider is in `ServerSync`.

## 6. Storefront

| variable | in the code |
| --- | --- |
| `st`, `data` | the state of the customer's aiogram state machine and its data in Redis |
| `job[w]` | a handler that waits for a provider, with the copy of `data` it has read |
| `plan`, `rate` | `server_plans` (the two prices, whether the row is there), whether a rate is stored |
| `screen` | what the last confirmation screen said, and what has happened since |
| `placed`, `withdrawn`, `events` | the books: the order of this step, whether the plan last chosen had no price (or was refused for want of a rate) or a price was taken away since, the bound |

Every keyboard that was ever sent can be pressed as long as the filter on the state lets it
through, so the actions are the handlers with their filters, in any order and twice
(`BuyServer`, `SelectCategory`, `SelectPlan`, `SelectBilling`, `Hostname`, `SelectOs`, `PickApp`,
the discount and e-mail steps, `Press`, `Bought`). Those that await a provider between reading
and writing the data (`AskOs`, `ShowConfirm` at Gcore, `cb_confirm_purchase`) are two actions and
may be overtaken; administrators change prices and delete plans meanwhile.

Abstractions: three kinds of provider stand for six (Gcore by the hour, where the system chosen
changes the price; the panel and Timeweb either way); half the price stands for a discount;
`is_active`, use counts, names and e-mail addresses are left out. Once the choices of two handlers have
crossed (`data.crossed`), no further handler overlaps. What TLC shows of such crossings, and the
properties except: a choice made while a list of systems or a Gcore price is awaited mixes two
orders; a plan whose only price is taken away after its button was sent is sold for nothing.

## 7. Provisioning

| variable | in the code |
| --- | --- |
| `order[o]` | the handler or the background task of a purchase: provider, step, deadline, whether it has paid and given back |
| `row[o]` | the committed `servers` row: none, live, deleted |
| `vm[o]`, `disk[o]`, `ip[o]`, `age[o]` | the machine, volume and address at the provider, and the age of the machine |
| `balance`, `debits`, `refunds` | the wallet and its `transactions` rows |
| `sweep` | the sweeper of `sync_timeweb_catalog`: the ids it has read, the machines it has listed |
| `tw` | whether there are an active Timeweb account and a Timeweb plan |
| `raced[o]` | the wallet was debited by somebody else while o was under way (books) |
| `left[o]` | a failure the code swallows has happened (books) |

`Confirm`, `RefuseEarly`, `PayFirst` are the end of `cb_confirm_purchase` (with the unlocked counts
of hourly servers and of the machines of an account); background orders are debited first and
committed, the others are built in the handler and debited last, ignoring the answer. The create
sequences of the six clients follow (`VirtCreate`, `TwEarlyIp`, `ScwCreateIp`, `Install`, the waits with their timeouts,
the rescues), then `Record`, `SendDelivery`, `Refund`, `LastDitchRefund`, and `Erase` with each
client's `delete_server`. `DeleteServer` is any deletion later. `OtherBilling` is the hourly, snapshot and monthly billing of
the buyer, at any moment of a build. `BeginSync`, `SyncFails`, `ReadKnown`, `ListOrphans`, `SweepOne` are the
catalogue task with its early returns (no account, no plan, no price list), of which the sweeper is the
end; it reads one page of `PageSize` machines (100 in the code), and `Configure` takes account and plans
away and back. `Restart` kills every background
task: no code resumes one. A provider may refuse, answer late, or be cancelled by `wait_for` at
any await. Time is counted in ticks; `AgesAssumption` says that a build ends well before its
machine is old enough for the sweeper. A lost task keeps the money: `Settled` speaks of tasks
that have ended, and a refusal of the database to store either refund is excepted by its state
(`unpaid`). What does not hold: a server whose delivery message Telegram refuses is
refunded and kept, because the exception lands in the handler of failed builds, which does not
look at `_delivered`.

## 8. ServerSync

| variable | in the code |
| --- | --- |
| `row`, `terms` | the committed `servers` row (status, the keys of `extra_data`, the plan) and `billing_type` |
| `vm` | the machine: state, plan (memory and cores), disk, addresses, and whether a disk was reported as left (`short`) |
| `balance` | the owner's wallet |
| `sess[s]` | a session: its operation, the row it has loaded, what it will write, what it has been told |
| `sLock`, `uLock` | row locks |
| `menu` | what the sessions of this behaviour may do |

`Begin` has one action per handler or task (`Press` for the power buttons, `RebuildDo`,
`SnapRestoreDo`, `ChangePassword`, `BuyTraffic`, `Upgrade`, `ChangeIp`, `AddIp`, `AdminAction`,
`WebAction`, `BuildingTask`, `TrafficTask`, `HourlyCharge` and the rest), each with its guards and
its kind of load (plain or `FOR UPDATE`). Then `Pay`, `Mark`, the call of the provider (granted,
refused, cut off with or without effect), `Refund`, `Render` (an administrator's screen
synchronises once more), and `Commit`, which writes the columns that differ from those loaded. An upgrade (`Enlarge`) may
be accepted with the disk left as it was, as `apply_resources` does for disks it cannot enumerate;
the handler reports that and bills the bigger plan, which `BilledPlanIsThere` excepts by `short`.
`Restart` and errors lose a transaction. `MCServerSync` gives seven pairs of menus, in which every
operation meets those it shares state with.

Left out: editing the resources of a machine, which no keyboard offers, and sub-products, whose code reads a column `servers`
does not have. The start, stop and restart of an administrator are the one operation "reboot"; the web application's
other actions are the owner's. A restore of a suspended server sets REBUILDING without looking at the
status: `SyncKeepsVerdict` is about synchronisations only.

## 9. SnapshotBilling

`image`, `row[s]` and `balance` are Hetzner's images, the `snapshots` rows (state, `created_at`,
`last_billed_at`) and the owner's wallet; `desk[s]` is the owner's handler for s, `run[r]` a run of
`run_snapshot_billing` with the anchors it has read, what it has debited and what it has cut.
`Shoot`, `Record`, `Created` are `cb_snap_new_do`; `DeleteImage`, `Close` `cb_snap_del`; `Start`,
`Skip`, `Debit`, `Cut`, `Commit` the run. No row of `snapshots` is ever locked, so two runs that
have read the same anchor debit one hour twice: `overlaps` (books) names those snapshots, and
`HoursDebited` is about the others. `CreateLost`, `DeleteLost` and `RunLost` lose a transaction.

## 10. Reseller

`panel[v]` is a machine on the panel (owner, listed or not, hour of birth; it keeps its owner);
`cfg[u]` the settings and the debt in `users.extra_data`, `row[u][v]` the live row and until when
dead ones were billed; `sync[w]` a synchronisation (`Fetch` without a lock, `Begin` with it,
`Apply`, `SyncFails`), `form[u]` a registration (`Check`, `Configure`), `copy[u]` extra_data as a
handler without a lock has loaded it (`Load`, `WriteBack`). `Bill` is the hourly charge, `Backfill`
that of earlier hours, `SwitchOff` and `Configure` turn a reseller off and on; `PanelCreate`,
`PanelDrop` are the panel. `raced` and `stale` (books) mark what the code does not prevent: two
resellers of one uid activated at the same moment, and a blob of `extra_data` written back from
an old copy.

## 11. Catalog and ProviderAccounts

`Catalog`: one plan per provider stands for all, of which two rows may exist (twins come from two
overlapping clicks). `offer` is what the provider offers, `row[i]` the plan rows (active, the marks
`unavailable` and, at Timeweb, `out_of_stock`, which share `was_active`; cost, price), `margin` and `rate` the settings; `sync`, `job` and `click` the task
and the handlers between their reads and their COMMIT. `StartSync`, `ListOffers`, `CommitSync`, `SyncLost` are the five tasks with
what each does to a row (`HetznerSync` … `ScalewaySync`); the administrator's
actions are imports, picks, margins, surcharges, toggles, prices, deletions, all on, all off. One
price and one margin stand for hourly and monthly. The tasks compute a price only when the cost
has changed or the plan comes back (`Differs`, `Relist`). Nothing sets `out_of_stock` any more
(`mark_plan_out_of_stock` has no caller); rows may still have it from an earlier version, and what clears it is
modelled: `Restock` (the administrator, the start of the bot), a sale, and the cooldown at the head of the Timeweb
task, which is committed even when the price list fails (`CommitRows`). A synchronisation does not overlap itself, as
it ends well within its half hour. `wish[i]` (books) is what the administrator asked for last, `own[i]` that the price was typed by hand or
computed by a transaction that crossed another.

What holds is less than one may expect: a plan that is hidden and in use comes back after "all
off", `apply_margins` reactivates every plan that is not hidden, a Gcore plan imported while the price preview
failed sells below its cost until a synchronisation has read that price, and a price typed by hand, or computed
with an old margin by a transaction that crossed another, stays until the cost changes. `CatalogueSettles` says what
settles all the same, and excepts the last (`own`).

`ProviderAccounts`: `acc[a]` is a `provider_accounts` row with `extra_config` as one column (`limit`,
`ok`, the streak of failures), `srv[s]` a server with its machine, `check` the health check with
the columns it has read, `form[h]` an administrator's handler. Per provider: adding (`HetznerAdd` …), settings,
toggles, and two ways of deleting: after counting servers (`Vacant`), or, in the general panel, after
destroying machines one by one (`Purge`, `PurgeVm`, `Purged`). `crossed` and `astray` (books) mark columns that were
written over and rows that came in between.

## 12. Runs

| run | expects | what it asks | states |
| --- | --- | --- | --- |
| `race` | pass | `Ledger`, `HoursMatchDebits`, `ImplementsWallet` | 2,040,296 |
| `live` | pass | `ArrearsSettled`, `PurgeSparesFunded`, `UnpaidStaysMarked` | 1,221,582 |
| `payments_core` | pass | `OnlyConfirmedCredited`, `FlagMeansCredited`, `ReplayCreditsNothing`, `PaidInTimeCredited` | 80,428 |
| `payments_wallet` | violation | `WalletKeepsCredits` | – |
| `monthly_core` | pass | `Ledger`, `ExtensionsPaid`, `OneManualRenewalAMonth`, `DayBeforeRemoval`, `TopUpRenews`, `ExpiryHandled` | 499,720 |
| `storefront` | pass | `ShownIsCharged`, `NothingForFree`, `HourlyWithoutDiscount` | 2,952,556 |
| `provisioning` | pass | `Settled`, `UnpaidOnlyByRace`, `CleanRefusal`, `SweepSparesCustomers`, `OrphansSwept` | 442,423 |
| `sync` | pass | `PaidIsDone`, `BilledPlanIsThere`, `SyncKeepsVerdict`, `OrdersApart`, `BuildingSettles` | 288,721 |
| `snapshots` | pass | `HoursDebited`, `PaidImageExists`, `HourSettled` | 184,104 |
| `reseller` | pass | `HoursBilledOnce`, `OneLiveRow`, `DebtCollectedOnce` | 633,382 |
| `catalog` | pass | `KeepsWish`, `CatalogueSettles` | 823,482 |
| `accounts` | pass | `AlarmsTellState`, `ServersHaveMachines`, `AlarmSettles` | 346,142 |

* **race**: two workers, one converting handler, one wallet with an ordinary and a reseller
  server whose creation hours differ by one tick, two ticks an hour, three ticks, one crash, one payment through a gateway. Two
  workers suffice for a pair of runs to be at any two points of the loop; a wallet of 2 with a
  price of 1 and a month of 2 lets each debit be the one that empties it; three ticks give each
  server an hour that is due, an hour of arrears and one paid ahead. Workers are symmetric
  (safety only). A server may indeed be paid ahead: a second run that listed it before the first
  one committed charges the next hour, because `charge_hourly` does not ask again whether it is
  due. `BoundedPrepayment` (proved) says how far that goes: an hour per process beyond the clock.
* **live**: one server priced in a foreign currency, one worker, four hours with a grace mark
  stale after four, so that the purge can happen and the rate can be missing in between; one lost
  transaction or one payment through a gateway. The price is 2 and a credit 1, so that a balance can be positive and still
  not pay an hour. The bounded clock turns "for ever" into "from some point on": a server nobody
  pays ends in a grace period that is not over, and never unmarked.
* **payments_core**: an invoice and an order of one payer, a bot session and the poller, a crash;
  the wallet is also debited. **payments_wallet** needs two sessions that overlap.
* **monthly_core**: one server and its owner, one worker, two renewal dialogues, so that a double click
  overlaps, one handler that writes `extra_data` back after a wait, a crash; a month of two
  days, three nights, a price and a credit of 1. `Apart` leaves the second dialogue and that handler out
  where a run was rolled back or the rate is missing. A second server would only add a second list
  entry: what two servers share is the owner's wallet. Two workers at once are the subject of the proofs, which allow any number.
* **storefront**: a Gcore, a Timeweb and a panel plan, two waiting handlers, one event (a change of a price, a
  provider that does not answer, a message Telegram refuses). Two handlers and three plans let a
  press of each kind fall into each wait.
* **provisioning**: two orders of one buyer whose wallet pays one; one is of any provider, the
  other of Hetzner; a build of one tick, a machine old after three, one restart. The wallet, the
  limit of one machine and the two hourly servers are what two orders can race for. The Timeweb
  account is there where the first order is of Timeweb, and may be taken away. For the sweeper the second order
  may be of Timeweb, too, when the first is over, with a page of one machine, so that the page can be too
  short; `Apart` leaves restarts and other billing out there.
* **sync**: two sessions, one of which is also the task for servers under construction, seven pairs of menus, two
  units of money, one bigger plan, one failure or restart.
* **snapshots**: two snapshots, two runs, money for one hour and one top-up, two hours, one trouble.
* **reseller**: two resellers who may have the same uid, one machine, two synchronisations, three
  hours, three changes: enough to leave, come back, be switched off and on, and be backfilled.
* **catalog**: two rows, one click beside one surcharge and the task, two costs, a margin that is set
  or not yet, three changes and a failure; each provider is an initial state.
* **accounts**: two accounts, one server, two administrators, two limits, three changes, a failure.

Type invariants that are proved are not run again; the others were dropped for properties that say more.

### Fairness

`HourlyBilling`: a worker that can take a step takes one (`WF`), because Celery executes what
beat and the queue hand it; messages of the queue are handled in the end although the user's row
is locked now and then (`SF`): PostgreSQL grants a row lock first come, first served, and the
queue is FIFO. Time passes. Users, administrators, the rate and conversions are under no
obligation. `Payments`: a session that was started goes on (`SF`, for the same row locks), beat
starts the poll again and again, NOWPayments answers it now and then (`SF`, errors in between),
and an IPN arrives after the invoice's row exists only for the invoices in `Reliable`.
`MonthlyRenewal`: beat starts both tasks again and again and a started run goes on (`SF`, since
it waits for row locks that PostgreSQL grants in turn), a bot session that was begun ends and time
passes (`WF`). Owners, administrators, payments and the rate owe nothing: the properties only speak of
an owner who can pay and a rate that is there for good.

`Provisioning`: the asyncio loop goes on with what it has started, providers answer or time out,
beat starts the catalogue task, and the provider grants a deletion it is asked for again and
again (`SF`). `ServerSync`: sessions go on; beat starts `sync_building_servers` every five minutes,
rows are unlocked again and again, and the provider, asked for ever, answers now and then (`SF`).
`SnapshotBilling`: beat starts a run every minute, runs and handlers go on, time passes. `Catalog` and
`ProviderAccounts`: beat starts the task (`WF`), whose failures are bounded, and so are the
changes by administrators and providers: "settles" means after the last of them. `Storefront` and
`Reseller` state no liveness.

### What the violated property means, and what does not hold

`WalletKeepsCredits`: the gateways write an absolute balance computed from an unlocked read, so a
debit or credit committed in between is undone, although the user is promised that a successful
payment reaches the wallet.

Further statements one may expect were checked with these modules and do not hold; the properties
above are what remains of them.

* A top-up clears the grace period, as the docstring of `handle_balance_empty` says: only the checks
  of that task and `BillingService.credit` clear it. A payment through a gateway that does not cover an hour, or is
  spent on the next one before a check has seen it, leaves the old mark, and the servers go three hours after the
  first shortage. `PurgeSparesFunded` is about the credits that do clear it.
* Construction ends, as the docstring of `sync_building_servers` says: the task lists BUILDING and
  REBUILDING only, while what it writes for a machine found locked is PENDING. Such a row, and one left REBOOTING by a
  restart of the bot, stays so until somebody opens or acts on the server; `BuildingSettles` excepts both.
* Only active servers are debited: `charge_hourly` rechecks `billing_type` under the lock, not
  `status`, so a server suspended or deleted after the list query is debited for one more hour.
* A payment is credited once: `activate_crypto_payment` checks a row read without a lock, and an
  IPN and a poll that overlap both credit.
* Who pays in time is credited even if the IPN is lost: the poll expires an invoice whose ten
  minutes are over before it asks NOWPayments, and never returns to it.
* Only unpaid servers are removed: `charge_monthly` answers None when no rate is stored,
  `_renew_and_unsuspend` turns that into False, and the last phase of the nightly check deletes
  the server of an owner with money.
* The tasks touch only expired servers: one that its owner renewed or activated after a task
  listed it is suspended, charged for a second month or removed, because the row is not read
  again. An activation whose provider call failed leaves a paid server on the list even without
  overlap.
* Nobody has both a server and its price back: see Provisioning.

## 13. Proofs

Proved with TLAPS for any number of servers, users, workers, handlers, invoices, orders and
sessions, and all values of the constants allowed by the assumptions (`ServersAssumption`,
`ProcsAssumption`, `AmountsAssumption`, `OrdersAssumption`): owners are users, created times are
not in the future, prices and the hour are positive, the processes are finitely many and are not
the value `Nobody`; `SnapshotAssumption` says the same of snapshots and runs, and
`ResellerAssumption`, `SyncAssumption`, `AccountsAssumption`, `CatalogAssumption` and
`StorefrontAssumption` that special values differ from the ordinary ones, prices, costs and
limits are not negative, and the bounds are natural numbers. The one assumption about time
is `AgesAssumption` of `Provisioning`: a build gives up, and its row is committed, more than one
tick before its machine is old enough for the sweeper (900 seconds
and 45 minutes in the code). TLC evaluates them in every run.

**HourlyBillingProofs.** `Ledger`, `NoOverdraft` and `HoursMatchDebits` are not inductive alone:
`CommitRun` writes values computed many steps before. `IInv` adds why those values are still
right. `ServerHold(w)`: every server a run has charged is locked by it and hourly, and the anchor
in its session is the committed one plus an hour. `UserHold(w)`: every user it has debited is
locked by it, and the balance in its session is the committed one minus what it has spent, and
not negative. `ConvertHold`: a handler holds the lock of the server it converts.
`AnchorAfterCreation` makes `max(anchor, created_at)` the anchor. From `IInv` follow
`TypeCorrect`, `LedgerKept`, `NeverOverdrawn`, `HoursAreDebits` and the action property
`ConvertedNeverDebited`.

`PrepaymentBounded` needs a second invariant, `Ahead`: a run that still has a server in its list
read it when it was due, so the anchor, together with an hour for each run that still holds the
server in its list or has charged it uncommitted, is at most the clock plus an hour per worker.
The proof counts the runs with the cardinality facts of `FiniteSetTheorems`.

`PurgeIsFair` needs `PurgeInv`: a grace mark is never older than the last credit of `BillingService`
(the gateways give no such guarantee, and are left out of `funded`), and while a
purge holds the user row its list consists of hourly servers of no reseller and the three hours
remain over. A conversion in between is impossible because it would need the user row. `PurgeInv` is
inductive given `IInv` (`PurgeInvariant`).

The refinement: `ImplementsMeteredWallet` maps the committed rows to the state of
`MeteredWallet`. `CommitRun` becomes `Charge(charged)`, `Credit` `Fund`, the gateway's steps `Quote`, `Settle`
and `Withdraw`, `PayConvert` `Convert`,
`Suspend`, `Unsuspend` and `Delete` of `s` become `Suspend`, `Resume` and `Remove` of it,
`CommitPurge` `Remove` of its list; every other step stutters. Two facts that `IInv` does not have
are needed (`RefinementInv`). `SpentHold`: what a run has spent of a user's wallet is one `Price`
for each server of theirs it has charged, and it has charged finitely many, so that the absolute
balances it commits are those of one abstract debit. `ConvertReady`: a server being converted
stays active and hourly from the check to the payment, since every writer of its status needs
the lock the handler holds. The books (`net`, `slip`, `paid`, `base`, `funded`, `topUps`) are not mapped.

**PaymentsProofs.** `IInv` says what each session knows: an order number of the right gateway for
its program counter (`OnOrder`), that a `finished` it carries, or that is in the net, is one
NOWPayments reported, and that a verified order stays verified (`Confirmed`, `Reported`), that an
order is opened at the bank only after it was stored (`Unopened`), and that a session with
anything to write read its row before the first credit (`ReadBeforeCredit`). The last is what
makes `ReplaysAreSafe` go through: the credits that are doubled are all of overlapping sessions.

**MonthlyRenewalProofs.** What a run commits was computed from rows read long before, so the
invariant says why it may be committed (`RunInv`). `UserHold` and `ServerHold` are as in the
hourly billing, for the user rows a run has read and the server rows it has written. `Terms`: a
new term in its session belongs to a server it has charged. `Standings` and `ListedOverdue`: only
a nightly check suspends; what it suspends is dated no earlier than the run, so a server it lists as
overdue was suspended by an earlier transaction (`OverdueTold`), and since there is one check at
a time (`NightAlone`) nobody tells the owner of a later suspension before it commits. `HandlerInv`: a session that renews
holds the row lock and the mark is a month old; one that has paid for an activation still can.
`Marked` and `Told` tie the rows to the books. From `IInv` follow `TypeCorrect` and `LedgerKept`,
and, step by step (`RowChanges`), the action properties `ExtensionsArePaid`,
`ManualRenewalsApart` and `RemovedAfterADay`.

**SnapshotBillingProofs.** Nothing locks a row of `snapshots`, so the invariant says what a run and
a handler may rely on all the same. `RunsHaveRead`: whatever a run still has to visit or has
debited was a created row, and rows are never taken back; the anchor it has read is an hour
behind the clock, which keeps `NextAnchor` from running ahead. `BeingRecorded`: a snapshot that
is being recorded has its image and no row, so neither a deletion nor a run can meet it.
`IdleRuns`: a run that has ended remembers nothing to cut. With `Books` (no row, no debit) these
make `HoursDebited` and `PaidImageExists` inductive; `TypeCorrect` includes that the wallet is never
overdrawn, for which the debits a rollback gives back must be finitely many.

**ResellerProofs.** A synchronisation acts on three readings taken at different times: the panel
without a lock, the configuration and the live rows under the lock of one user. `IInv` says why that is
enough. `Seen`: under the lock the configuration stands still, and all machines seen are of the
uid the reseller still has; `Apart`: two active resellers have different uids, unless `raced`;
together, two synchronisations that are about to register the same machine have the same user,
hence the same lock, hence are one, which makes `Unregistered` and `OneRow` inductive. `Hours`
replaces `HoursBilledOnce` by what each row was charged for: the hours up to the anchor when the
backfill has been done, the hours since the registration otherwise, and, once the row is dead,
the hours until it was closed, which is what the next backfill of that machine leaves out.

**PurchaseProofs**, first part (`Provisioning`). None of the four properties is inductive: whether a
refund is due, or a machine may be left behind, depends on how far the order has come. `Local`
says it for each place of the program by itself. `Money`: a background order has been debited
from its first request on and its flags `paid` and `back` count its debits and refunds, a
purchase in the handler pays with its last step. `Things`: what the provider may run for the
order at each place, so that a refusal finds nothing, or a failure it has swallowed (`left`). `Ages`: a machine under construction is
no older than its build. `Fresh` and `Marked`: a live row that the sweeper does not know was
written at most a tick after it had read the rows, and is younger than what the sweeper takes, so
that what it has marked is nobody's; this is where `AgesAssumption` is needed. `Raced`
says what an order that is built in the handler may rely on: until the wallet is debited by another order or by
other billing, the balance it was checked against is still there, so whoever finds too little at the end lost it to one of
them. A lemma per helper
(`Go`, the debit, the clean-ups) says what it does to one order and that it leaves the others
alone; a restart and a tick move all of them and have proofs of their own.

Second part (`Storefront`). The data of the conversation are a record that every handler writes
and the order is made of what was read before the last wait, so the invariant follows the
choices through the states. `Priced`: the plan chosen has the price the billing asks for, unless a
price was taken away. `Whole`: from the discount on the billing is chosen, and an hourly order
has no discount. `Shown`: in the state of the confirmation the last screen says what an order
would cost now. `Waiting`: a handler that buys has read such data. All of it holds as long as
no two choices have crossed, and an order made of crossed choices carries the mark. The proof
corrected the model: `NothingForFree` had excepted only prices taken away later, and is
false for a plan that had no price at all when it was chosen (which the handler lets pass to a monthly
order of price 0) or that was refused for want of an exchange rate and then confirmed from an old keyboard;
`withdrawn` now remembers these, too, and TLC finds the counterexample without it.

Two components share a module here and in `ProviderProofs` because they were proved side by
side: the second extends both, so their names differ.

**ServerSyncProofs.** A session carries a copy of the row through a call to the provider, and
nobody looks at the row again before the UPDATE of the columns that changed. `Local` says of each session
what its copy is worth at each place. `Sized`: the plan it will write is not bigger than the
machine, which only grows. `Settled`: who has paid has what he paid for, or is on his way to
the provider or to his refund. `Verdict`: a synchronisation that has seen a suspension
writes no other status. `Locked` and `Stamped`: an order of traffic holds the row from before it looked for
the stamp until it writes it, and a stamp is missing only if an old copy of `extra_data` was
written over it. From these follow the invariant `BilledPlanIsThere` and, for each step, the
action properties `PaidIsDone`, `SyncKeepsVerdict` and `OrdersApart`.

**ProviderProofs**, first part (`ProviderAccounts`). `Checking` and `Told` say what the half-done
health check is worth: the alarms sent are those of the row as it is, corrected by what the check has
decided and told but not committed. `Cleared`: the live servers of an account that is being
deleted have come in meanwhile (`astray`) or are in the list of the deletion; with `Housed` this makes
`ServersHaveMachines` inductive. Second part (`Catalog`). `Listed` is `KeepsWish` for a row; it is not
inductive, because the task and the handler of a surcharge write back rows they loaded
before they asked the provider. `Copied` says that their copies, too, are as the administrator
wants them, unless the wish came while they were held (`mixed`); what a synchronisation makes of such a row is
again as wanted (`SyncedRow`, with `RestockKeeps` and `CommitRowsKeep` for what the Timeweb task does first), and so is the mixture that the unit of work commits, column by column
(`MergedRow`, `MergeKeepsWish`): if the marks of the committed row have changed since it
was loaded, either the column is not written or the row is `Overwritten`. A plan of a barred
family is never hidden nor out of stock (`Shown`), which is why switching it off needs no mark.

**Only model-checked**: the liveness properties `ArrearsSettled`, `UnpaidStaysMarked`,
`PaidInTimeCredited`, `TopUpRenews`, `ExpiryHandled`, `OrphansSwept`, `BuildingSettles`, `HourSettled`,
`CatalogueSettles` and `AlarmSettles`, since liveness and ENABLED are beyond this prover. Every other
property of a passing run is a theorem.

## 14. What is not modelled

* HTML, keyboards, statistics, broadcasts, backups and the registration conversation keep no
  state a property relates. The rate limiter is one Redis counter per user that nothing else reads.
* HMAC checks, QR codes and amounts of currency are abstracted to their outcome; fetching a rate
  from a web page to its being there or not.
* The formats of requests and answers of the provider clients: the modules have their steps.
* Forms over configuration rows that no property relates to another (texts, groups, channels, discount codes).
* The use counts of discount codes are incremented from unlocked reads and may be exceeded.
* In `MonthlyRenewal` what happens at the provider before the one COMMIT of a nightly run: an error in a
  later server rolls back the rows of servers whose machines are already gone.
* `Provisioning` has one Timeweb account (the sweeper reads the first active one only) and no machine that
  was made by hand at the provider.
* What exactly an upgrade leaves of a disk: `ServerSync` says whether it has grown, and whether the answer reports that it has not.
