# TLA+ model of the subscription backend

The repository is a VPN subscription service: a Telegram bot and a web API over
one Postgres database, payment webhooks, a referral balance that can be spent,
VPN panels (3x-ui servers and a bare xray relay) driven over HTTP, and timers
and operator's scripts next to all of them. Several processes write the same few
rows and the same VPN clients, most of them without a common lock. That is what
is modelled, model-checked and proved about here.

## Inventory

Paths are below `backend/src/app/` unless they begin with `scripts/` (below
`backend/`) or `frontend/`.

| part | code | state | operations | works with |
| --- | --- | --- | --- | --- |
| subscription snapshot | `persistence/postgres_subscription_snapshot.py` | one row per user: state, end, plan, devices, trial end, two key instants | upsert, updates of single columns | written by every part below |
| card path | `runtime/fulfillment_processor.py`, UC-04 ingest, UC-05 apply | ledger rows, apply records, commissions | `process_fulfillment` | webhook ingress calls it; provider; referral balance |
| balance path | `application/balance_payment_service.py`, `persistence/postgres_referral.py` | balances, audit rows | `pay_plan_from_balance`, `add_device_from_balance` | web API and bot call it; provider |
| VPN provider | `issuance/xui_vless_provider.py`, `xui_client.py`, `xray_api_client.py` | clients on every panel, configuration cache, user locks | create, activate, revoke, delete, two reconciliations | panels that may not answer |
| notification scheduler | `runtime/notification_scheduler.py` | key instants, notification log | hourly: remind, revoke what ended, purge after 20 days | provider, Telegram |
| server sync, relay reconciliation | `runtime/server_sync_scheduler.py`, `reconcile_*` of the provider | clients | hourly, and every few minutes | rows, panels |
| reprovisioning | `scripts/reprovision_active.py` | clients | on a timer | rows, panels, past the provider's lock |
| trial, cancellation, keys on request | `web_api/profile.py`, `bot_transport/runtime_facade.py` | `trial_used`, rows | activate, cancel, fetch or re-issue keys | provider |
| update intake | `runtime/polling.py`, `raw_polling.py`, `telegram_webhook_ingress.py`, `application/telegram_update_dedup.py` | offset in memory, marks in a table | poll, receive, admit, acknowledge | bot handlers |
| bootstrap, outbound ledger, referral relationships | `application/handlers.py`, `referral_handler.py`, `persistence/postgres_idempotency.py`, `postgres_outbound_delivery.py` | idempotency, identity, audit, delivery and relationship rows | UC-01, replies, `/start ref_…` | update intake, commissions |
| accounts | `web_api/auth.py`, `bot_transport/runtime_facade.py`, `persistence/account_merge.py`, `email_link.py` | emails, codes, identities, sessions and the tables a merge moves | log in, link an email in the bot or over the API, merge | payments, commissions |
| bot conversation | `bot_transport/storefront_ui.py`, `runtime_facade.py` | keyboards, awaited texts, row, balance | every button and text | webhook, provider |
| web checkout | `frontend/` payment page and cabinet, `web_api/payment.py`, `webhook.py`, signed ingress, operator's ingest and apply | page state, payments, facts, rows | pay by card, by balance, by hand | provider of payments |
| issuance service | `issuance/service.py`, `persistence/postgres_issuance_state.py`, ADM-02, `scripts/reconcile_expired_access.py` | a memory per process over a table | issue, resend, revoke, reconcile | bot, support, operator |
| routing of the panels | `scripts/manage_ru_egress.py`, `setup_relay.py`, cascade scripts | xray template and one backup slot per panel | apply, import, repoint, revert, … | operator, running xray |
| client lists of the panels | `scripts/sync_clients_table.py`, `rebuild_panel_clients.py`, `grant_subscription.py`, … | settings JSON, tables, running xray of an inbound | sync timer, jobs, operator's commands | bot, reprovisioning |
| tariffs | `domain/plans.py`, `devices.py`, `referral.py`, `frontend/` `calc.ts` | none | pure functions, written four times | every payment path |
| retention, migrations, observability, deployment | | | deletes of expired rows, pure I/O | not modelled |

What is hard here, and what makes each part correct:

* **Card path.** Notifications are repeated, overlap and outlive crashes; the row
  is read before the lock that orders two handlers. Correct means: a payment is
  recorded before it is acknowledged, rewarded once, and worth its period.
* **Balance path.** A client repeats a request while the first runs; keys are made
  after the commit and a second transaction takes everything back. Correct means:
  no money is lost or made, what was reported completed stands, and a period once
  paid is kept.
* **Provider.** Every call can succeed on some servers only, failures become
  outcomes that callers take for success, and calls overlap at every await.
  Correct means: repaired later, no lock that nobody holds, no cached
  configuration from before a change.
* **Jobs.** Each selects rows first and acts on them later, next to payments and
  trials. Correct means: nobody is forgotten, nobody who paid is hurt, and a
  trial is had once.
* **Update intake.** Telegram repeats calls, the process dies between any two
  statements. Correct means: no update is lost, a reply known to be sent is not
  sent again, a record that says "done" means done, relationships stay
  consistent however `/start` messages race.
* **Accounts.** A merge moves rows in one transaction after reads outside it.
  Correct means: an email is linked to one who proved to own it, and no row is
  orphaned.
* **Issuance.** Memories of several processes go stale. Correct means: "revoked"
  is never outrun, nothing is handed out that was not issued.
* **Checkout and tariffs.** Prices are computed four times; a payment comes back
  by three ways. Correct means: what was shown is charged, once per choice, and
  credited to the buyer.
* **Panels.** Whole documents are read, changed and written back by processes that
  do not know each other. Correct means: every route ends somewhere, families
  keep their egress, who paid is served.

`PROJECT.json` lists under `hazards` where in the code each of these bites.

## Modules

| module | models | builds on |
| --- | --- | --- |
| `SubscriptionSnapshots` | the row, `_UPSERT_STATE`, the renewal rule | |
| `VlessPanels` | the four provider operations as sets of results | |
| `ApplyOnce` | what the documents promise of a paid event, its extension of the subscription included (abstract); `Replay` is what the code does beyond it | |
| `Fulfillment` | the card path, one action per step between two awaits that matter | both tables; refines `ApplyOnce` |
| `BalancePayment` | the balance path, with its compensation | `SubscriptionSnapshots` |
| `SubscriptionLifecycle` | payments, trial, cancellation, keys on request and four jobs on the same rows and clients | both tables |
| `BotUpdates` | intake, bootstrap, relationships, replies | |
| `ProviderCalls` | what happens inside provider calls: cache, epochs, locks, inbound rewrites | |
| `Accounts` | logins, linking, merge | |
| `BotMenus`, `Storefront` | keyboards as sets of buttons; the conversation with its webhook | `Storefront` extends `BotMenus` |
| `Tariffs` | prices, the page's copy of them, the webhook's amount gate, commissions | |
| `WebCheckout` | page, requests, payments, the ways back | `SubscriptionSnapshots`, instance of `Tariffs` |
| `AccessIssuance` | issue, resend, revoke over several processes; reconciliation | |
| `RuEgress`, `PanelClients` | the operator's two groups of scripts on the panels | `Lists` |
| `Lists` | a list filtered, as comprehensions filter rules, outbounds and clients | |
| `MC…` | the instances for TLC | the module named |
| `…Proofs` | the theorems | the module named; `PanelProofs` has those of `ProviderCalls`, `PanelClients` and `RuEgress`, `BotProofs` those of `BotUpdates` and `Storefront` |

`Storefront`, `PanelClients` and `RuEgress` have names of their own for what other
modules call `Init`, `Next`, `Spec` and `vars` (`ShopSpec`, `ClientsSpec`,
`EgressSpec`, ...), since their theorems share a module with another's.

Modules compose by looking at each other's effects: `BalancePayment` has the card
path as its read of the row and its commit (`CardRead`, `CardCommit`),
`SubscriptionLifecycle` has a payment as its commit and its keys,
`Storefront` and `WebCheckout` take the transactions of `Fulfillment` and
`BalancePayment` as one step each. Instants are natural numbers and 0 is SQL's
NULL. `plan` is `plan_id IS NOT NULL`, which is all the scheduler looks at.

### How the state and the actions correspond to the code

*Fulfillment.* `handler[h]` is a coroutine. `Deliver` reads the row (without a
lock, as the code does), `Commit` is the rest of the transaction: ledger insert,
apply record, upsert, `is_new_active`. `CreditCommissions`, `KeysLook`,
`KeysCall`, `KeysClear` and `KeysRaise` are the best-effort work after it, and
`Reply` answers the provider. `Abandon` is a crash or an exception that escapes:
no answer, so the provider repeats. Postgres runs READ COMMITTED, which is why
`Deliver` and `Commit` are two actions and the statements of `Commit` one. Towards
`ApplyOnce`, a first commit is `Apply`, which extends the end, and the commit of a
repeated notification is a `Replay`; `from` is history for the instant a period
counts from.

*BalancePayment.* `worker[w]` is a request at work. `Submit` holds what happens
before the transaction (including the read of the row to restore), `Begin` the
try-lock, the audit row, the debit and the read, `Commit` the write; `MakeKeys`,
`MakeKeysRaises`, `ClearKeys` the retry loop, `Compensate` the transaction that
takes it back, `Reward` the commissions, `Reply` the answer. `Rollback` and
`Crash` may happen where the code can fail. A card payment reads the row without
a lock (`CardRead`) and commits the end it computed then (`CardCommit`), whatever
was committed in between. `raced` is history: the users whose row was written
back by a step that did not know of a purchase that stood by then, which is what
`knows` of a request or a card payment is compared for.

*SubscriptionLifecycle.* A payment is `PayCommit` and then its keys. A trial is
`ClaimTrial` (the two UPDATEs differ: only the web's looks at the subscription),
`CreateTrialKeys` (and the roll-back of the claim) and `WriteTrial`. A
cancellation is `Cancel` and then `RevokeCancelled`. Each job is a selection
(`NextCheck`, `SelectActive`, `SelectKept`, `SelectRelayUsers`) followed by a
step per user that works on what was selected; the scheduler's `Mark` writes the
row without looking at it again, as its UPDATE does.

*VlessPanels.* One operation on one user is one step, because the provider holds
a lock per user around it. Reprovisioning goes past that lock, but it writes
absolute values, so its order with respect to the single servers of an operation
does not show. `RevokeUser` and `DeleteUser` may reach no server and still answer
`NOT_FOUND`, which callers take for done. Nobody deletes again what is marked
deleted, so only a deletion that reached the panels deletes keys.

*ProviderCalls.* `op[t]` is a call at one of its awaits: waiting for the user's
lock, rebuilding the list of panel clients, or at work on its servers with what
is `left` to do on each. `Fetch`, `PostAdd` and `PostDelete` are the GET and the
POST of one inbound rewrite. `dropped` holds the locks that a rebuild left behind
with calls still in line.

*BotUpdates.* `worker[w]` handles one update; every statement of the bootstrap
(`Begin`, `CreateIfAbsent`, `PutSnapshot`, `AppendAudit`, `Complete`), of the
referral handler (`Refer`, `ReferUp`, `CreateFirstLevel`, `CreateSecondLevel`)
and of the reply (`EnsurePending`, `Send`, `MarkSent`) is a step, since each
opens a connection of its own. `Poll` and `Receive` are the two ways in.

*Accounts.* `linker` and `login` are requests; `codes` is the table of mailed
codes. The statements of a merge are steps that hold what they wrote until the
commit (`Merging…`), and what the merge read first may be old by then. A login by
an email that nobody has makes the row (`OwnEmail`) and enters the inviter
(`ApplyReferral`) in transactions of their own.

*Storefront.* A button is its callback data and a keyboard the set of its
buttons; `Press` is one handler as a whole except where a removal of a device
reads and writes apart, `PressLate` the second press of an impatient user. The
webhook's top-up passes the amount gate (`ExpectedTopUp`), then reads and writes
the count in two statements. `Has(c)` is that the row has what the checkout
was for: that plan, active, with its devices, or at least that number of devices.

*WebCheckout.* What a page shows and what it will send are its state; `Notify`,
`NotifySigned` and `Ingest`/`ApplyFact` are the three ways a payment comes back. A
top-up is read, raised and recorded in three steps.

*AccessIssuance.* A request (`req[r]`) stands at one of its awaits; `ledger[p]` is
what process `p` remembers. `during[r]` is history: the keys that were issued at
some time of request `r`.

*RuEgress.* `apply`, `import` and `repoint` first write the backup file, unless it
exists (`Merge`); then they commit (`CommitMerge`), and `Restart` ends the command.
A cut may fall between any two of these (`Interrupted`) and into the file, which
is `Torn` then, as is a template that `revert` takes from it. What clean-relay
achieved is noted at the restart, not at the commit (`pinned`), and traffic is
followed through the templates that run. The other commands keep backups that no
command reads, so they have no such step.

*PanelClients.* A command commits to the panel's database and restarts xray in a
second step, and may be killed in between; writers over the API get the client
list, change it and post it back, each of which is a step. A grant reads the row
(`GrantTo`), applies its fact (`GrantApply`) and writes the end it computed
(`GrantUpdate`).

## Runs

| run | what it asks | bounds | states |
| --- | --- | --- | --- |
| `ful_redelivery` | one payment, repeated notifications: recorded before acknowledged, entitled, applied in the end; the card path implements `ApplyOnce` and its `Replay` | 1 user, 1 server, 2 handlers, 3 notifications, 2 key attempts, clock to 2 | 40 600 |
| `ful_lost_extension` | violation: one of two payments is overwritten | 2 payments, notified once each | |
| `bal_books` | the books balance, what is completed stands, rewards are paid for, a paid period is lost to stale writes only | 2 plans and devices, up to 2 submissions of each, 2 workers, 1 card payment, 2 key attempts, every fault, clock to 2 | 1 145 000 |
| `life_jobs` | one trial each; the jobs repair, follow, end | 1 user, 1 server, 2 trial requests, 1 payment, clock to 3 | 317 000 |
| `bot_updates` | relationships, admissions, replies, and every update handled | 2 updates, 2 workers, 2 webhook calls each, marks live 2, clock to 3, 1 restart or switch | 375 000 |
| `provider_calls` | the cache is current, locks are held by calls, the cache catches up | 2 users, 2 calls, 1 server, one each of lock eviction, change, rebuild, fault | 160 000 |
| `accounts` | who may be linked, what rows payments leave, who refers whom | 2 Telegram users, 2 emails, 2 linkers, 2 logins, 2 payments, 3 codes, 1 credit, 1 fault | 1 390 000 |
| `storefront` | no screen without a way on, devices paid for, who paid has what it was for | 2 checkouts, 2 notifications each, a double press, a restart | 568 000 |
| `ru_egress` | egress of the families, routes that end, revert | 2 panels, the relay, 1 cascade entry, 4 commands | 1 079 000 |
| `panel_clients` | grants end, active users are served, the relay's client stays | 1 user, the service, 2 disturbances, clock to 2 | 220 000 |
| `access` | revoked is durable, delivered was issued, ready is real, lapsed is revoked | 2 keys, a chat, support, an operator, 3 requests, 1 payment, 1 fault | 966 000 |
| `web_checkout` | credited to the buyer, one debit per choice, paid is credited | a Telegram and a web-only account, 1 payment, 4 moves of the page, 1 fault, 1 operator's hand, clock to 2 | 1 258 000 |

Why the bounds are enough. Users share no rows, locks or clients except through
referrals, merges and inbound rewrites, so one user suffices where none of these
is at work, and two where one is. Two handlers, workers, linkers or calls show
every race of code that never looks at more than one other transaction. A second
server adds nothing to sets of results in which a call may have reached it or
not. The clock needs one step to let a running subscription end and one for the
grace period; `Grace` and a trial are a day long for that reason, a paid period
two, so that a payment outlives the trial. `MaxTries`, `MaxDeliveries`,
`MaxSubmits`, `MaxCards`, `MaxPayments`, `MaxCalls`, `MaxSends`, `MaxAttempts`,
`MaxWeb`, `MaxCodes`, `MaxCredits`, `MaxCheckouts`, `MaxCommands`, `MaxAsked`,
`MaxMoves`, `MaxEvents`, `MaxDisruptions` and `MaxFaults` cap what the world may
do any number of times; the faults they count (`MaxFaults`, `MaxEvents`,
`MaxDisruptions`) may come at any step.

Where several stories at once are beyond TLC, the instance is a set of them, and
the initial state chooses one. `Deployments` (`life_jobs`) names the actors that
take part together: payments always, with each pair or triple that writes the
same row or clients (trial with scheduler, cancellation with relay or trial,
scheduler or keys with reprovisioning or relay, reprovisioning with sync and
relay). `Beginnings` (`bal_books`) says what the clock shows and what has been
submitted in vain or paid by card before, and thereby what is left: a plan and
devices, both twice; a plan twice and a card payment; two plans and a card payment;
two plans, one of them twice.
`MCScripts` (`bot_updates`) has two codes for one newcomer, two users who invite each other, an invoice then a message, a guarded command next to a
bootstrap, and a bootstrap after an update that cannot be mapped; the intake is
switched between polling and webhook (`Switched`) in the two smallest. `MCCasts`
(`accounts`) has two users after one email, one user with two, bot and API
together, two logins, a merge that meets payments and one that meets invitations. `MCHabits` (`storefront`)
has a user who follows the guide, one who buys, one who changes devices, one who
types. `MCStarting` and `MCStartLists` are the states in which the two panel runs
find the panels. The theorems below depend on none of these choices.

`CHECK_DEADLOCK FALSE` stands in every run but `access`, `provider_calls` and
`storefront`: the clock, the payments and the commands are bounded there, and a system with nothing
left to do stops.

Every property of a passing run is accompanied in `PROJECT.json` by a mutant, a
plausible slip in the code it is about, under which the run fails.

Where the code does not keep what a text says, the property says how far it is
kept, and its comment where it is not (`PromiseButForReplays`,
`LostOnlyToStaleWrites`, `GraceEnds`, `PaidIsHonoured`, `RevertUndoesEveryMerge`); the section on
disagreements tells what happens there.

### Fairness

* `Fulfillment`: `WF` for every handler's step (the event loop runs a coroutine
  that can go on) and `SF` for the delivery of every payment (the provider
  repeats what was not acknowledged, up to its limit; strong, because while both
  handlers are busy a delivery is not enabled). Crashes may recur in every
  notification, so the property excuses a payment whose notifications all came to
  nothing. Paying is not assumed.
* `SubscriptionLifecycle`: timers start the scheduler, the reprovisioning and the
  relay pass again and again, passes get on, and there comes a time without
  faults (`Calm`). Before it any number of calls may fail and passes be cut
  short. Payments, trials, cancellations, key requests and server syncs are not
  fair: what they leave undone the jobs must repair.
* `BotUpdates`: `WF` of a worker's step and of polling, `SF` of Telegram's call for
  every update.
* `ProviderCalls`: `WF` of the steps of calls; for the users who import their
  configuration `SF` of the request, `WF` of the stale answer and of ageing.
* `Storefront`: `WF` per checkout of the webhook's work; nothing is assumed of the
  user.
* `PanelClients`: `WF` of reprovisioning, its rewrite, the sync and the restart,
  because both are systemd timers that fire for ever. Nothing is assumed of the
  operator.
* `AccessIssuance`: `WF` of the reconciliation, which
  `backend/docs/mvp_release_readiness_runbook.md:212` has run every 15 minutes at least.
* `WebCheckout`: `WF` per payment of the notifications and of what handles them.

## Disagreements and observations

One run finds a violation. `AppliedIsEntitled` with two payments
(`ful_lost_extension`): the row is read before the lock, so the later commit
overwrites the earlier one and a paid period is lost, against
`docs/architecture/40-payment-fulfillment-ingress.md:68`.

The models reach the following too, and TLC shows each as a short behaviour when
the text is given to it as a property. They are why the properties named say what
they do.

* A replayed notification extends the subscription again
  (`fulfillment_processor.py:428`), against
  `docs/architecture/30-uc-05-apply-billing-fact-to-subscription.md:42` ("must not
  double-apply period extensions"). `ApplyOnce` is the promise, and the card path
  implements it only together with `Replay` (`PromiseButForReplays`).
* A card payment that read the row before a balance purchase committed writes an
  end without it (`fulfillment_processor.py:420`), and a refund restores a row read
  before another purchase (`balance_payment_service.py:169`, 648), though "base" is to
  be the current end (`subscription_timing.py:22`). Nothing else loses a paid period
  (`LostOnlyToStaleWrites`).
* A deletion that reached no panel answers `NOT_FOUND`, is marked done and never
  tried again (`notification_scheduler.py:307`), against "permanently delete keys"
  (`:9`) and "Update state only after successful revoke" (`:218`). `GraceEnds` is about
  panels that answer.
* A top-up by card and one from the balance leave the lower count
  (`webhook.py:281`), against "can never reduce the count" (`:278`). `PaidIsHonoured`
  says that a paid count was in the row, not that it stays there.
* A backup cut while it was written is kept by every later merge and committed by
  `revert` (`manage_ru_egress.py:915`), against `:65`. `RevertUndoesEveryMerge` is
  about slots that were written whole.
* A clean-relay cut before its restart says "already a pure egress" when it is given
  again, and does not restart (`manage_ru_egress.py:809`): `CleanRelayAgain`.
  `EveryRouteEnds` begins with the restart and looks at what runs.
* A payment between a grant's read and its writes is overwritten
  (`grant_subscription.py:163`), against "extend from current active_until" (`:140`).

Others were met while modelling. The models do what the code does; the
properties are stated so that they hold with them, and no run is spent on them.

* Payments. A second refund under one key collides with the unique description and
  the money stays taken (`balance_payment_service.py:668`); a failing read of the
  row to restore ends a running subscription (`:168`). A crash after the commit
  leaves a purchase without keys to the reprovisioning (`:247`). A balance purchase clicked again after the
  window of 30 s debits twice (`runtime_facade.py:284`). `custom:30` by card is
  recorded as the one-month plan, with its commission. A row without a plan is
  charged the 30-day price for devices, and the page shows 0.
* Trial and jobs. The bot's claim of a trial ignores a running subscription
  (`runtime_facade.py:797` against `:724`). Reprovisioning takes a past end for a
  missing one and gives a year (`rebuild_panel_clients.py:81` against
  `reprovision_active.py:13`). The purge goes by `keys_deactivated_at` only
  (`notification_scheduler.py:298`), which a trial does not clear (`:204`). The
  scheduler marks a row renewed between its SELECT and its UPDATE (`:279`).
* Provider. A call that reaches no panel counts as success for its callers. Two
  rewrites through different client objects lose a client (`xui_client.py:139`,
  457). A re-issued key is the old key, since it is a function of the user,
  although the cabinet says old keys stop working; fetching or re-issuing resets
  the panel's limit to 5 and its expiry to a year until the next reprovisioning.
* Bot. A crash between the completed record and the pending reply loses the reply
  to a `/start`; one between the record and the referral loses the referral. Any
  later `/start ref_X` applies, not only the first (`dispatcher.py:282`). Commands
  other than `/start` are rejected before the code that handles them
  (`normalized.py:165`). Texts while a code is out are read as codes.
* Accounts. Credit to the web balance between copy and delete is lost; two users
  who merge the same email copy its balance twice; a payment between the read of
  the state and the write makes the merge raise although it "must never raise"
  (`account_merge.py:21`). A web session goes on acting for the merged account.
* Issuance. A revoked key can never be issued again; revoking an older key makes
  it the newest, so that a user with another issued key is told there is none. The
  cooldown is spent before the lookup.
* Panels. `apply` drops rules that carry the relay's tag though it "is a MERGE";
  the one backup slot is never cleared. A lost restart is not retried. Registering and unregistering the relay's client race
  with rewrites. A grant killed between its panels and its UPDATE leaves an active
  row without an end.
* Checkout. The audit description of a debit contains the device count, so a
  retry with another count is charged again in the same visit (`page.tsx:55`).
  A checkout link older than 7 days makes a paid payment refused for ever. An
  operator's apply overwrites a running row. A payment confirmed after a merge
  credits the account that no longer exists.

## What is proved

The proofs are checked by TLAPS and hold for any number of users, servers,
handlers, workers, updates and requests, without the bounds of the runs. They
assume only the `ASSUME`s of the modules: constants have their types, periods and
prices are positive, and what a system starts with is well formed. Two are worth
naming: `BotUpdates` assumes that the relationships it starts with are
consistent, and `ShownIsCharged` that `DEFAULT_DEVICE_LIMIT` is 5, as in the page's
copy (with another value custom plans are charged at another price than shown).

No property is inductive by itself. In every module the invariant that is says
what each program point knows, and which other steps cannot take it away; it was
first checked by TLC on the module's instance.

* `FulfillmentProofs`: `TypeCorrect`, `CommissionsOnce`, `AcknowledgedIsRecorded`,
  and, where no user has two payments, `CardPathKeepsPromise` and `PaidIsEntitled`. A
  handler past its commit has its payment in the ledger and the apply records; one
  that is to credit is the only one, and nothing was credited yet.
  `CardPathKeepsPromise` says that every step of `Fulfillment` is a step of
  `ApplyOnce`, a `Replay` or a stutter: the end is a number of periods past where the
  payment counted from, in the row as in the copy of it that a handler holds, and
  that number is never more than the notifications that can have added one. It
  does not say that a payment extends once, which is not so.
  The assumption is needed, as `ful_lost_extension` shows.
* `BalancePaymentProofs`: `BalanceNeverNegative`, `CompletedStaysPaid`,
  `RewardsArePaidFor`, `MoneyIsConserved` and `PurchasesAddUp`. The invariant: a
  transaction holds its user's lock alone and has found enough money and no debit
  row; after the commit the request has one owner; a settled request (completed,
  or rewarded) has a debit row and no owner left who could take it back. On top
  of it, `Money`: whoever may take a purchase back finds its price in the debit
  row, so what is credited is what was debited. And `Worth`: of a user nobody wrote
  a stale row for (`raced`), the stored end covers the periods of what stands, the
  row a transaction has read covers what stood when it read it, and so does what a
  refund or a card payment remembers, each for the purchases it knows of; a write
  of the user's then either knows of all that stand or enters the user in
  `raced`. `PurchasesAddUp` thus says which two writes can lose a period, and that
  nothing else can. Sums are cardinalities here (`Total`
  counts unit by unit), which makes them provable without induction: a sum
  changes by the interval that is added to or taken from the counted set.
* `SubscriptionLifecycleProofs`: `TypeCorrect` and `OneTrialEach`. A trial request
  at work owns its user's claim, the user has had no trial, and nobody else is at
  work for that user; only the owner gives a claim back.
* `BotProofs`, of `BotUpdates`: `CompletedMeansBootstrapped`,
  `ReferralsStayConsistent`, `SentIsNotSentAgain`, `GuardedCommandsKeepApart`. The tables only grow, so what
  a worker has read stays true; the rows a second level rests on are in the table
  before it is written; a delivery that found the reply sent is on the path that
  makes none; the mark of a guarded command is its last admission plus its
  lifetime.
* `BotProofs`, of `Storefront`: `ExtraDevicesArePaidFor` and `ButtonsNameWhatIsSold`.
  A press is only as good as the callback data it carries, so the invariant
  (`ShopInv`) says of the keyboards that every button on the message, and the press
  that waits, is one the bot makes, for a plan that is sold and a number of
  devices within its limits; and of the money that at the lowest rate it covers
  the devices of the row, of the row a removal is about to write back, and of
  every paid checkout, while an open checkout asks for what is missing. Nothing is
  ever paid back, so what was covered when a removal or a webhook read it is
  covered when it writes. `UsersAssumption` says that rows start with a number of
  devices between the least and the most.
* `PanelProofs`, of `ProviderCalls`: `CacheIsCurrent` (an entry was computed after
  the last change of its user, because the epoch was compared when it was stored)
  and `LocksAreHeldByCalls` (every line has only calls in progress, those behind
  the first wait, and a call stands in one line once).
* `PanelProofs`, of `PanelClients`: `NoGrantIsEndless` (whoever is active without an
  end is held by the operator's job that will write it, or was cut; the job holds
  nobody it does not know, and every end it holds is one) and
  `TheRelayKeepsItsWayIn` (the relay's traffic row never shuts it out, and every
  list, the stored one and the copies writers hold, has for the relay only the
  entry `register-uuid` makes: so whatever a mirror writes from whatever list, it
  writes the relay's uuid or leaves it alone).
* `PanelProofs`, of `RuEgress`: `EgressIsRouted` is the invariant, and from it come
  `FamiliesAlwaysKeepTheirEgress`, `EveryRouteAlwaysEnds` and
  `RevertGoesBehindEveryMerge`. Every template that is stored or running is one its
  host can have (`PanelTemplate`, `EntryTemplate`, on the relay what setup and
  cleaning leave) or, on a panel, torn; every pinned rule is there, stored and
  running, in front of what could take its traffic: merges keep the order of what
  they do not drop; while one outbound leads to a relay, that of the `.ru` domains
  is it, so TikTok's rule is put before them; a relay whose cleaning ended runs a
  last rule that takes everything and leads to `direct`. A merge commits only once
  there is a slot, and a slot is filled only where no merge was committed yet;
  so a whole one holds a template from before all of them. `EveryRouteAlwaysEnds`
  is about the xray that runs, and begins with the restart that ends clean-relay:
  a stored template that is clean proves nothing.
  The first rule that matches is the least place of a finite set, not a recursion,
  and a filtered list (`Selected`) is written with the set of the places it keeps,
  so that neither needs induction over the list. `StartingAssumption` says what
  templates hosts may start with and `ListsAssumption` what clients the inbound
  may; TLC evaluates both on the instances.
* `AccountsProofs`: `LinkedEmailsAreProven`, `PaymentsFollowTheRow`,
  `NobodyIsTheirOwnReferrer`, `NobodyTakesAnEmail`. The code a linker compared was
  mailed to its email for its user, and a code never changes its addressee; from
  the deletion of the old codes on the pair is proven. A merge that moves a row
  has found one and holds it. Identities of Telegram ids are the users
  themselves, those of web ids belong to emails. `LatestIsOneOfThem` (a finite set
  of numbers has a greatest member) is an induction over sets carried out with
  the well-foundedness of strict inclusion.
* `AccessIssuanceProofs`: `RevokedStaysRevoked`, `DeliveredHadBeenIssued`,
  `ReadyMeansIssued`. A write that revokes leaves a missing row alone, so the
  invariant says that whoever answers "revoked" had a row; what a request holds
  was witnessed at one of its stages, the bot going by what it looked up itself,
  and an operator's command beginning without a memory.
* `WebCheckoutProofs`: `ShownIsCharged`, `TopUpsAddUp`, `AmountGateIsExact`,
  `CommissionsWithinPayment`, `RecordsWithinPayment` about the tariffs, for every
  plan, count and rounding; `CreditsReachTheBuyer` (the account `u<telegram id>`
  of a web-only user never gets a row) and `AVisitIsDebitedOnce` (a visit is the
  move that mounted the page, so no two users share one; who was debited and is
  still on that visit finds its own audit row).

Only model-checked:

* all liveness (`PaidIsEventuallyApplied`, `SelfHeals`, `RelayFollows`, `GraceEnds`,
  `UpdatesAreHandled`, `CacheCatchesUp`, `PaidIsHonoured`, `ActiveIsServed`,
  `LapsedIsRevoked`, `PaidIsCredited`), which rests on fairness and is out of the
  prover's reach;
* `NoDeadEnd` of `Storefront`, which is about which keyboards are reachable, a
  question of a finite set of screens that the run answers as a whole.

## What is not modelled

The parts without a module are listed in `PROJECT.json` with the reason. Parsing,
signatures, source addresses, texts, layout, media and configuration stay out, and
so do: retention cleanup and migrations, the two reminder checks of the scheduler
and the log of sent notifications, the in-memory branches that exist for tests,
the expiry of subscription tokens and HTTP sessions, ADM-01 and the diagnostics
(they only read), the second referral level inside a merge, and the scripts that
only report.
